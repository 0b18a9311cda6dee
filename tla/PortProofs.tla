----------------------------- MODULE PortProofs -----------------------------
(***************************************************************************)
(* Proofs about Port: the types, and that the port is a first-in first-out *)
(* queue whose counters agree with it, for every number of threads, every  *)
(* capacity that create_port accepts and whatever close_port and           *)
(* delete_port do meanwhile.  _messagesLock is not needed for it: a step   *)
(* that changes the queue is one critical section.  It is needed for the   *)
(* second result, that no notification is lost.                            *)
(*                                                                         *)
(* And about Notifications, for any teams, listeners and size of a         *)
(* message: every event is told to exactly those who asked for it.         *)
(***************************************************************************)
EXTENDS Port, Notifications, TLAPS, SequenceTheorems, FiniteSetTheorems, FunctionTheorems,
        WellFoundedInduction, NaturalsInduction

\* A write that has entered Port::Write carries a message.
MessageCarried ==
    \A t \in Thread :
        pc[t] # "idle" /\ call[t] = "write" => msg[t] \in 1..MaxSent

\* FirstInFirstOut is inductive together with the types and MessageCarried.
PortInductive == TypeOK /\ MessageCarried /\ FirstInFirstOut

\* What Write does to the queue: the history grows by the same message.
LEMMA WriteQueue ==
    ASSUME NEW S, NEW q \in Seq(S), NEW h \in Seq(S), NEW x \in S
    PROVE  /\ Append(q, x) \in Seq(S)
           /\ Len(Append(q, x)) = Len(q) + 1
           /\ Append(h \o q, x) = h \o Append(q, x)
           /\ Append(h \o q, x) \in Seq(S)
<1>1. <<x>> \in Seq(S)
  OBVIOUS
<1>2. Append(q, x) = q \o <<x>> /\ q \o <<x>> \in Seq(S)
  BY <1>1, AppendIsConcat, ConcatProperties
<1>3. h \o q \in Seq(S)
  BY ConcatProperties
<1>4. Append(h \o q, x) = (h \o q) \o <<x>>
  BY <1>3, AppendIsConcat
<1>5. (h \o q) \o <<x>> = h \o (q \o <<x>>)
  BY <1>1, ConcatAssociative
<1>6. Append(h \o q, x) = h \o Append(q, x)
  BY <1>2, <1>4, <1>5
<1>7. Append(q, x) \in Seq(S) /\ Len(Append(q, x)) = Len(q) + 1
  BY AppendProperties
<1>8. Append(h \o q, x) \in Seq(S)
  BY <1>3, AppendProperties
<1> QED BY <1>6, <1>7, <1>8

\* What Read does to it: the head moves from the queue to what was taken.
LEMMA ReadQueue ==
    ASSUME NEW S, NEW q \in Seq(S), NEW h \in Seq(S), q # << >>
    PROVE  /\ Tail(q) \in Seq(S)
           /\ Len(Tail(q)) = Len(q) - 1
           /\ Append(h, Head(q)) \in Seq(S)
           /\ Len(Append(h, Head(q))) = Len(h) + 1
           /\ Append(h, Head(q)) \o Tail(q) = h \o q
<1>1. Head(q) \in S /\ Tail(q) \in Seq(S) /\ Len(Tail(q)) = Len(q) - 1
  BY HeadTailProperties, EmptySeq
<1>2. <<Head(q)>> \in Seq(S)
  BY <1>1
<1>3. q = <<Head(q)>> \o Tail(q)
  <2>1. <<Head(q)>> \o Tail(q) \in Seq(S)
    BY <1>1, <1>2, ConcatProperties
  <2>2. Len(<<Head(q)>> \o Tail(q)) = Len(q)
    BY <1>1, <1>2, ConcatProperties
  <2>3. ASSUME NEW i \in 1..Len(q) PROVE (<<Head(q)>> \o Tail(q))[i] = q[i]
    BY <1>1, <1>2, HeadTailProperties
  <2> QED BY <2>1, <2>2, <2>3, SeqEqual
<1>4. Append(h, Head(q)) = h \o <<Head(q)>>
  BY <1>1, AppendIsConcat
<1>5. Append(h, Head(q)) \o Tail(q) = h \o (<<Head(q)>> \o Tail(q))
  BY <1>1, <1>2, <1>4, ConcatAssociative
<1>6. Append(h, Head(q)) \in Seq(S) /\ Len(Append(h, Head(q))) = Len(h) + 1
  BY <1>1, AppendProperties
<1> QED BY <1>1, <1>3, <1>5, <1>6

\* The port as create_port makes it.
LEMMA PortInit == Init => PortInductive
<1> SUFFICES ASSUME Init PROVE PortInductive
  OBVIOUS
<1>1. TypeOK
  <2>1. Capacity \in Nat /\ MaxSent \in Nat
    BY PortAssumption
  <2>2. << >> \in Seq(1..MaxSent)
    BY EmptySeq
  <2>3. 0 \in 0..Capacity /\ 0 \in 0..MaxSent
    BY <2>1
  <2>4. pc \in [Thread -> PC]
    BY DEF Init, PC
  <2> QED BY <2>1, <2>2, <2>3, <2>4 DEF Init, TypeOK
<1>2. MessageCarried
  BY DEF Init, MessageCarried
<1>3. FirstInFirstOut
  <2>1. << >> \o << >> = << >> /\ Len(<< >>) = 0
    OBVIOUS
  <2> QED BY <2>1 DEF Init, FirstInFirstOut
<1> QED BY <1>1, <1>2, <1>3 DEF PortInductive

\* Every step keeps the invariant; Write and Read are the ones that touch the
\* queue, the others have only their types to keep.
LEMMA PortStep ==
    ASSUME PortInductive, [Next]_vars
    PROVE  PortInductive'
<1> USE DEF PortInductive
<1>0. CASE UNCHANGED vars
  BY <1>0 DEF vars, TypeOK, MessageCarried, FirstInFirstOut
<1> SUFFICES ASSUME Next PROVE PortInductive'
  BY <1>0
<1>a. PICK t \in Thread : Start(t) \/ Worker(t) \/ TimeOut(t)
  BY DEF Next
<1>b. Capacity \in Nat /\ MaxSent \in Nat
  BY PortAssumption
<1>q. ASSUME UNCHANGED queue, TypeOK', MessageCarried' PROVE PortInductive'
  BY <1>q DEF queue, FirstInFirstOut
<1>1. ASSUME NEW c \in {"write", "read", "info"}, NEW w \in Timeout, StartCall(t, c, w)
      PROVE  PortInductive'
  <2>1. TypeOK'
    <3>1. c = "write" => sent + 1 \in 1..MaxSent
      BY <1>1, <1>b DEF StartCall, TypeOK
    <3>2. sent' \in 0..MaxSent /\ msg' \in [Thread -> (1..MaxSent) \cup {None}]
      BY <1>1, <3>1, <1>b DEF StartCall, TypeOK
    <3>3. pc' \in [Thread -> PC] /\ call' \in [Thread -> Call \cup {None}] /\ timeout' \in [Thread -> Timeout \cup {None}]
      BY <1>1 DEF StartCall, TypeOK, PC, Call
    <3> QED BY <1>1, <3>2, <3>3 DEF StartCall, TypeOK, queue, flags, sleepers
  <2>2. MessageCarried'
    BY <1>1, <1>b DEF StartCall, TypeOK, MessageCarried
  <2> QED BY <1>1, <2>1, <2>2, <1>q DEF StartCall
<1>2. ASSUME NEW c \in {"close", "delete"}, StartEnd(t, c) PROVE PortInductive'
  <2>1. TypeOK'
    BY <1>2 DEF StartEnd, TypeOK, queue, flags, sleepers, PC, Call
  <2>2. MessageCarried'
    BY <1>2 DEF StartEnd, TypeOK, MessageCarried
  <2> QED BY <1>2, <2>1, <2>2, <1>q DEF StartEnd
<1>g. ASSUME NEW l \in PC, Goto(t, l), pc[t] # "idle"
      PROVE  /\ pc' \in [Thread -> PC] /\ call' \in [Thread -> Call \cup {None}]
             /\ timeout' \in [Thread -> Timeout \cup {None}]
             /\ msg' \in [Thread -> (1..MaxSent) \cup {None}]
             /\ MessageCarried'
  BY <1>g DEF Goto, TypeOK, MessageCarried
<1>r. ASSUME Return(t)
      PROVE  /\ pc' \in [Thread -> PC] /\ call' \in [Thread -> Call \cup {None}]
             /\ timeout' \in [Thread -> Timeout \cup {None}]
             /\ msg' \in [Thread -> (1..MaxSent) \cup {None}]
             /\ MessageCarried'
  BY <1>r DEF Return, TypeOK, MessageCarried, PC
<1>p. {"flags", "test", "sleep", "asleep", "act", "notifyFirst", "notifySecond"} \subseteq PC
  BY DEF PC
<1>3. CASE Enter(t)
  <2>1. MessageCarried' /\ TypeOK'
    BY <1>3, <1>g, <1>r, <1>p DEF Enter, TypeOK, queue, flags, sleepers
  <2> QED BY <1>3, <2>1, <1>q DEF Enter
<1>4. CASE Test(t)
  <2>1. MessageCarried' /\ TypeOK'
    BY <1>4, <1>g, <1>p DEF Test, TypeOK, queue, flags, sleepers
  <2> QED BY <1>4, <2>1, <1>q DEF Test
<1>5. CASE Sleep(t)
  <2>1. MessageCarried' /\ TypeOK'
    BY <1>5, <1>g, <1>p DEF Sleep, TypeOK, queue, flags
  <2> QED BY <1>5, <2>1, <1>q DEF Sleep
<1>6. CASE WakeUp(t)
  <2>1. MessageCarried' /\ TypeOK'
    BY <1>6, <1>g, <1>p DEF WakeUp, TypeOK, queue, flags, sleepers
  <2> QED BY <1>6, <2>1, <1>q DEF WakeUp
<1>7. CASE TimeOut(t)
  <2>1. MessageCarried' /\ TypeOK'
    BY <1>7, <1>g, <1>p DEF TimeOut, TypeOK, queue, flags, TimedOutTo
  <2> QED BY <1>7, <2>1, <1>q DEF TimeOut
<1>8. CASE CheckFlags(t)
  <2>1. MessageCarried' /\ TypeOK'
    BY <1>8, <1>g, <1>r, <1>p DEF CheckFlags, TypeOK, queue, flags, sleepers
  <2> QED BY <1>8, <2>1, <1>q DEF CheckFlags
<1>9. CASE GiveUp(t)
  <2>1. MessageCarried' /\ TypeOK'
    BY <1>9, <1>r DEF GiveUp, TypeOK, queue, flags, sleepers
  <2> QED BY <1>9, <2>1, <1>q DEF GiveUp
<1>10. CASE Write(t)
  <2>1. msg[t] \in 1..MaxSent /\ queueCount \in 0..Capacity /\ queueCount # Capacity
    BY <1>10 DEF Write, Blocked, MessageCarried, TypeOK
  <2>2. queueCount + 1 \in 0..Capacity
    BY <2>1, <1>b
  <2>3. messages \in Seq(1..MaxSent) /\ taken \in Seq(1..MaxSent) /\ accepted = taken \o messages
    BY DEF TypeOK, FirstInFirstOut
  <2>4. /\ messages' \in Seq(1..MaxSent)
        /\ Len(messages') = Len(messages) + 1
        /\ accepted' = taken \o messages'
        /\ accepted' \in Seq(1..MaxSent)
    <3>1. messages' = Append(messages, msg[t]) /\ accepted' = Append(taken \o messages, msg[t])
      BY <1>10, <2>3 DEF Write
    <3>2. /\ Append(messages, msg[t]) \in Seq(1..MaxSent)
          /\ Len(Append(messages, msg[t])) = Len(messages) + 1
          /\ Append(taken \o messages, msg[t]) = taken \o Append(messages, msg[t])
          /\ Append(taken \o messages, msg[t]) \in Seq(1..MaxSent)
      BY <2>1, <2>3, WriteQueue
    <3> QED BY <3>1, <3>2
  <2>5. readers' \subseteq Thread
    BY <1>10 DEF Write, NotifyOne, TypeOK
  <2>6. MessageCarried' /\ TypeOK'
    BY <1>10, <2>2, <2>4, <2>5, <1>r DEF Write, TypeOK, flags
  <2>7. FirstInFirstOut'
    BY <1>10, <2>4 DEF Write, FirstInFirstOut
  <2> QED BY <2>6, <2>7
<1>11. CASE Read(t)
  <2>1. queueCount \in 0..Capacity /\ queueCount # 0 /\ queueCount = Len(messages)
    BY <1>11 DEF Read, Blocked, TypeOK, FirstInFirstOut
  <2>2. queueCount - 1 \in 0..Capacity /\ totalCount + 1 \in Nat
    BY <2>1, <1>b DEF TypeOK
  <2>3. messages \in Seq(1..MaxSent) /\ taken \in Seq(1..MaxSent) /\ accepted = taken \o messages
    BY DEF TypeOK, FirstInFirstOut
  <2>4. messages # << >>
    BY <2>1, <2>3, EmptySeq
  <2>5. /\ messages' \in Seq(1..MaxSent)
        /\ Len(messages') = Len(messages) - 1
        /\ taken' \in Seq(1..MaxSent)
        /\ Len(taken') = Len(taken) + 1
        /\ taken' \o messages' = accepted
    BY <2>3, <2>4, ReadQueue, <1>11 DEF Read, Popped
  <2>6. writers' \subseteq Thread
    BY <1>11 DEF Read, WakeWriter, NotifyOne, TypeOK
  <2>7. MessageCarried' /\ TypeOK'
    BY <1>11, <2>2, <2>5, <2>6, <1>r DEF Read, TypeOK, flags
  <2>8. FirstInFirstOut'
    BY <1>11, <2>5 DEF Read, FirstInFirstOut
  <2> QED BY <2>7, <2>8
<1>12. CASE GetMessageInfo(t)
  <2>1. readers' \subseteq Thread
    BY <1>12 DEF GetMessageInfo, PassOn, NotifyOne, TypeOK
  <2>2. MessageCarried' /\ TypeOK'
    BY <1>12, <2>1, <1>r DEF GetMessageInfo, TypeOK, queue, flags
  <2> QED BY <1>12, <2>2, <1>q DEF GetMessageInfo
<1>13. CASE SetFlag(t)
  <2>1. MessageCarried' /\ TypeOK'
    BY <1>13, <1>g, <1>r, <1>p DEF SetFlag, TypeOK, queue, flags, sleepers
  <2> QED BY <1>13, <2>1, <1>q DEF SetFlag
<1>14. CASE NotifyFirst(t)
  <2>1. MessageCarried' /\ TypeOK'
    BY <1>14, <1>g, <1>p DEF NotifyFirst, TypeOK, queue, flags
  <2> QED BY <1>14, <2>1, <1>q DEF NotifyFirst
<1>15. CASE NotifySecond(t)
  <2>1. MessageCarried' /\ TypeOK'
    BY <1>15, <1>r DEF NotifySecond, TypeOK, queue, flags
  <2> QED BY <1>15, <2>1, <1>q DEF NotifySecond
<1> QED
  BY <1>a, <1>1, <1>2, <1>3, <1>4, <1>5, <1>6, <1>7, <1>8, <1>9, <1>10, <1>11,
     <1>12, <1>13, <1>14, <1>15 DEF Start, Worker

-----------------------------------------------------------------------------
\* The queue stays within the capacity given to create_port, and every call
\* and every counter keeps its type.
THEOREM PortTypeCorrect == Spec => []TypeOK
<1>1. PortInductive => TypeOK
  BY DEF PortInductive
<1> QED BY PortInit, PortStep, <1>1, PTL DEF Spec

\* Port::Write, Port::Read and GetMessageInfo make a first-in first-out queue
\* that loses and repeats nothing, and whose counters are right.
THEOREM PortFirstInFirstOut == Spec => []FirstInFirstOut
<1>1. PortInductive => FirstInFirstOut
  BY DEF PortInductive
<1> QED BY PortInit, PortStep, <1>1, PTL DEF Spec

-----------------------------------------------------------------------------
(* Nobody sleeps beside the message or the room it waits for. *)

Queueing == {"write", "read", "info"}
Taking == {"read", "info"}

\* The threads that Coming speaks of.
Comers(C) ==
    {t \in Thread :
        /\ call[t] \in C
        /\ \/ pc[t] \in {"test", "flags", "act"}
           \/ pc[t] = "asleep" /\ t \notin readers \cup writers}

\* Who is where: the critical sections exclude each other, a sleeper is asleep on
\* its own condition variable, and a call between its test and its sleep still
\* has nothing to go on with.
CallsOK ==
    \A t \in Thread :
        /\ pc[t] \in {"test", "sleep", "flags", "act"} => lock = t
        /\ pc[t] \in {"enter", "test", "sleep", "asleep", "flags", "act"} => call[t] \in Queueing
        /\ t \in readers => pc[t] = "asleep" /\ call[t] \in Taking
        /\ t \in writers => pc[t] = "asleep" /\ call[t] = "write"
        /\ pc[t] = "sleep" => Blocked(t)

\* NoSleeper alone is not inductive: the one reader that is up may take the first
\* of two messages.  While a reader sleeps there are as many readers up as there
\* are messages, and while a writer sleeps as many writers as there is room.
MessagesSpokenFor ==
    registered /\ readers # {} => queueCount <= Cardinality(Comers(Taking))
RoomSpokenFor ==
    ~Dead /\ writers # {} => Capacity <= queueCount + Cardinality(Comers({"write"}))

SpokenFor == CallsOK /\ MessagesSpokenFor /\ RoomSpokenFor

\* How many threads are up after one has joined, left or been replaced.
LEMMA ComersCount ==
    ASSUME NEW S, NEW T, S \subseteq Thread, T \subseteq Thread
    PROVE  /\ Cardinality(S) \in Nat /\ Cardinality(T) \in Nat
           /\ S \subseteq T => Cardinality(S) <= Cardinality(T)
           /\ \A t \in Thread : t \notin S /\ T = S \cup {t} => Cardinality(T) = Cardinality(S) + 1
           /\ \A t \in Thread : t \in S /\ T = S \ {t} => Cardinality(T) = Cardinality(S) - 1
           /\ \A t, u \in Thread : t \in S /\ u \notin S /\ T = (S \ {t}) \cup {u}
                                       => Cardinality(T) = Cardinality(S)
<1>1. IsFiniteSet(S) /\ IsFiniteSet(T)
  BY PortAssumption, FS_Subset
<1>2. S \subseteq T => Cardinality(S) <= Cardinality(T)
  BY <1>1, FS_Subset
<1>3. \A t \in Thread : t \notin S /\ T = S \cup {t} => Cardinality(T) = Cardinality(S) + 1
  BY <1>1, FS_AddElement
<1>4. \A t \in Thread : t \in S /\ T = S \ {t} => Cardinality(T) = Cardinality(S) - 1
  BY <1>1, FS_RemoveElement
<1>5. ASSUME NEW t \in Thread, NEW u \in Thread, t \in S, u \notin S, T = (S \ {t}) \cup {u}
      PROVE  Cardinality(T) = Cardinality(S)
  <2>1. IsFiniteSet(S \ {t}) /\ Cardinality(S \ {t}) = Cardinality(S) - 1
    BY <1>1, <1>5, FS_RemoveElement
  <2>2. Cardinality((S \ {t}) \cup {u}) = Cardinality(S \ {t}) + 1
    BY <1>5, <2>1, FS_AddElement
  <2> QED BY <1>1, <1>5, <2>1, <2>2, FS_CardinalityType
<1> QED BY <1>1, <1>2, <1>3, <1>4, <1>5, FS_CardinalityType

\* The places, the lock and the sleepers.
LEMMA PortCalls ==
    ASSUME PortInductive, CallsOK, Next
    PROVE  CallsOK'
<1> USE DEF PortInductive
<1>a. PICK t \in Thread : Start(t) \/ Worker(t) \/ TimeOut(t)
  BY DEF Next
<1>n. None \notin Thread
  BY PortAssumption
<1>l. lock = None => \A u \in Thread : pc[u] \notin {"test", "sleep", "flags", "act"}
  BY <1>n DEF CallsOK
<1>1. ASSUME NEW c \in {"write", "read", "info"}, NEW w \in Timeout, StartCall(t, c, w)
      PROVE  CallsOK'
  BY <1>1 DEF StartCall, CallsOK, Blocked, queue, flags, sleepers, TypeOK, Queueing, Taking
<1>2. ASSUME NEW c \in {"close", "delete"}, StartEnd(t, c) PROVE CallsOK'
  BY <1>2 DEF StartEnd, CallsOK, Blocked, queue, flags, sleepers, TypeOK, Queueing, Taking
<1>3. CASE Enter(t)
  BY <1>3, <1>l DEF Enter, Goto, Return, CallsOK, Blocked, queue, flags, sleepers, TypeOK
<1>4. CASE Test(t)
  BY <1>4 DEF Test, Goto, MayGoOn, CallsOK, Blocked, queue, flags, sleepers, TypeOK
<1>5. CASE Sleep(t)
  BY <1>5 DEF Sleep, Goto, CallsOK, Blocked, queue, flags, TypeOK, Queueing, Taking
<1>6. CASE WakeUp(t)
  BY <1>6, <1>l DEF WakeUp, Goto, CallsOK, Blocked, queue, flags, sleepers, TypeOK
<1>7. CASE TimeOut(t)
  BY <1>7, <1>l DEF TimeOut, TimedOutTo, Goto, CallsOK, Blocked, queue, flags, TypeOK
<1>8. CASE CheckFlags(t)
  BY <1>8 DEF CheckFlags, Goto, Return, CallsOK, Blocked, queue, flags, sleepers, TypeOK
<1>9. CASE GiveUp(t)
  BY <1>9 DEF GiveUp, Return, CallsOK, Blocked, queue, flags, sleepers, TypeOK
<1>10. CASE Write(t)
  <2>1. \A u \in Thread \ {t} : pc[u] # "sleep"
    BY <1>10 DEF Write, CallsOK
  <2> QED BY <1>10, <2>1 DEF Write, NotifyOne, Return, CallsOK, flags, TypeOK
<1>11. CASE Read(t)
  <2>1. \A u \in Thread \ {t} : pc[u] # "sleep"
    BY <1>11 DEF Read, CallsOK
  <2> QED BY <1>11, <2>1 DEF Read, WakeWriter, NotifyOne, Return, CallsOK, flags, TypeOK
<1>12. CASE GetMessageInfo(t)
  BY <1>12 DEF GetMessageInfo, PassOn, NotifyOne, Return, CallsOK, Blocked, queue, flags, TypeOK
<1>13. CASE SetFlag(t)
  BY <1>13 DEF SetFlag, Goto, Return, CallsOK, Blocked, queue, sleepers, TypeOK
<1>14. CASE NotifyFirst(t)
  BY <1>14 DEF NotifyFirst, Goto, CallsOK, Blocked, queue, flags, TypeOK
<1>15. CASE NotifySecond(t)
  BY <1>15 DEF NotifySecond, Return, CallsOK, Blocked, queue, flags, TypeOK
<1> QED
  BY <1>a, <1>1, <1>2, <1>3, <1>4, <1>5, <1>6, <1>7, <1>8, <1>9, <1>10, <1>11,
     <1>12, <1>13, <1>14, <1>15 DEF Start, Worker

\* Every step keeps the messages and the room spoken for.
LEMMA PortSpeaks ==
    ASSUME PortInductive, SpokenFor, Next
    PROVE  SpokenFor'
<1> USE DEF PortInductive
<1>a. PICK t \in Thread : Start(t) \/ Worker(t) \/ TimeOut(t)
  BY DEF Next
<1>c. CallsOK /\ CallsOK'
  BY PortCalls DEF SpokenFor
<1>b. Capacity \in Nat /\ queueCount \in Nat /\ queueCount' \in Nat
  <2>1. PortInductive'
    BY PortStep
  <2> QED BY <2>1, PortAssumption DEF TypeOK
<1> DEFINE R == Comers(Taking)
           W == Comers({"write"})
<1>s. /\ R \subseteq Thread /\ R' \subseteq Thread /\ W \subseteq Thread /\ W' \subseteq Thread
      /\ Cardinality(R) \in Nat /\ Cardinality(R') \in Nat
      /\ Cardinality(W) \in Nat /\ Cardinality(W') \in Nat
  <2>1. /\ R \subseteq Thread /\ R' \subseteq Thread /\ W \subseteq Thread /\ W' \subseteq Thread
    BY DEF Comers
  <2> QED BY <2>1, ComersCount
\* What to show of each side.
<1>m. ASSUME registered' /\ readers' # {} => queueCount' <= Cardinality(R') PROVE MessagesSpokenFor'
  BY <1>m DEF MessagesSpokenFor
<1>w. ASSUME ~Dead' /\ writers' # {} => Capacity <= queueCount' + Cardinality(W') PROVE RoomSpokenFor'
  BY <1>w DEF RoomSpokenFor
<1>o. /\ registered /\ readers # {} => queueCount <= Cardinality(R)
      /\ ~Dead /\ writers # {} => Capacity <= queueCount + Cardinality(W)
  BY DEF SpokenFor, MessagesSpokenFor, RoomSpokenFor
\* A step after which everybody is up on that side who was.
<1>r. ASSUME registered' => registered, readers' # {} => readers # {}, queueCount' = queueCount,
             R \subseteq R'
      PROVE  MessagesSpokenFor'
  <2>1. Cardinality(R) <= Cardinality(R')
    BY <1>r, <1>s, ComersCount
  <2> QED BY <1>r, <2>1, <1>m, <1>o, <1>s, <1>b
<1>q. ASSUME ~Dead' => ~Dead, writers' # {} => writers # {}, queueCount' = queueCount,
             W \subseteq W'
      PROVE  RoomSpokenFor'
  <2>1. Cardinality(W) <= Cardinality(W')
    BY <1>q, <1>s, ComersCount
  <2> QED BY <1>q, <2>1, <1>w, <1>o, <1>s, <1>b
<1>z. queueCount' = 0 => MessagesSpokenFor'
  BY <1>m, <1>s
<1>f. queueCount' = Capacity => RoomSpokenFor'
  BY <1>w, <1>s, <1>b
<1> SUFFICES MessagesSpokenFor' /\ RoomSpokenFor'
  BY <1>c DEF SpokenFor
<1>1. ASSUME NEW c \in {"write", "read", "info"}, NEW x \in Timeout, StartCall(t, c, x)
      PROVE  MessagesSpokenFor' /\ RoomSpokenFor'
  <2>1. R \subseteq R' /\ W \subseteq W' /\ UNCHANGED <<queueCount, closed, registered, readers, writers>>
    BY <1>1 DEF StartCall, Comers, queue, flags, sleepers, TypeOK
  <2> QED BY <2>1, <1>r, <1>q DEF Dead
<1>2. ASSUME NEW c \in {"close", "delete"}, StartEnd(t, c)
      PROVE  MessagesSpokenFor' /\ RoomSpokenFor'
  <2>1. R \subseteq R' /\ W \subseteq W' /\ UNCHANGED <<queueCount, closed, registered, readers, writers>>
    BY <1>2 DEF StartEnd, Comers, queue, flags, sleepers, TypeOK
  <2> QED BY <2>1, <1>r, <1>q DEF Dead
<1>3. CASE Enter(t)
  <2>1. R \subseteq R' /\ W \subseteq W' /\ UNCHANGED <<queueCount, closed, registered, readers, writers>>
    BY <1>3 DEF Enter, Goto, Return, Comers, queue, flags, sleepers, TypeOK
  <2> QED BY <2>1, <1>r, <1>q DEF Dead
<1>4. CASE Test(t)
  <2>1. UNCHANGED <<queueCount, closed, registered, readers, writers>>
    BY <1>4 DEF Test, queue, flags, sleepers
  <2>2. call[t] \in Queueing
    BY <1>4, <1>c DEF Test, CallsOK
  <2>3. CASE MayGoOn(t)
    <3>1. R \subseteq R' /\ W \subseteq W'
      BY <1>4, <2>3 DEF Test, Goto, Comers, sleepers, TypeOK
    <3> QED BY <2>1, <3>1, <1>r, <1>q DEF Dead
  <2>4. CASE ~MayGoOn(t) /\ call[t] = "write"
    <3>1. R \subseteq R' /\ queueCount' = Capacity
      BY <1>4, <2>1, <2>4 DEF Test, Goto, Comers, sleepers, TypeOK, Taking, MayGoOn, Blocked
    <3> QED BY <2>1, <3>1, <1>r, <1>f
  <2>5. CASE ~MayGoOn(t) /\ call[t] # "write"
    <3>1. W \subseteq W' /\ queueCount' = 0
      BY <1>4, <2>1, <2>5 DEF Test, Goto, Comers, sleepers, TypeOK, MayGoOn, Blocked
    <3> QED BY <2>1, <3>1, <1>q, <1>z DEF Dead
  <2> QED BY <2>3, <2>4, <2>5
<1>5. CASE Sleep(t)
  <2>1. UNCHANGED <<queueCount, closed, registered>> /\ Blocked(t)
    BY <1>5, <1>c DEF Sleep, queue, flags, CallsOK
  <2>2. R \subseteq R' /\ W \subseteq W'
    BY <1>5 DEF Sleep, Goto, Comers, TypeOK
  <2>3. CASE call[t] = "write"
    <3>1. UNCHANGED readers /\ queueCount' = Capacity
      BY <1>5, <2>1, <2>3 DEF Sleep, Blocked
    <3> QED BY <2>1, <2>2, <3>1, <1>r, <1>f
  <2>4. CASE call[t] # "write"
    <3>1. UNCHANGED writers /\ queueCount' = 0
      BY <1>5, <2>1, <2>4 DEF Sleep, Blocked
    <3> QED BY <2>1, <2>2, <3>1, <1>q, <1>z DEF Dead
  <2> QED BY <2>3, <2>4
<1>6. CASE WakeUp(t)
  <2>1. R \subseteq R' /\ W \subseteq W' /\ UNCHANGED <<queueCount, closed, registered, readers, writers>>
    BY <1>6 DEF WakeUp, Goto, Comers, queue, flags, sleepers, TypeOK
  <2> QED BY <2>1, <1>r, <1>q DEF Dead
<1>7. CASE TimeOut(t)
  <2>1. R \subseteq R' /\ W \subseteq W' /\ UNCHANGED <<queueCount, closed, registered>>
    BY <1>7 DEF TimeOut, TimedOutTo, Goto, Comers, queue, flags, TypeOK
  <2>2. readers' \subseteq readers /\ writers' \subseteq writers
    BY <1>7 DEF TimeOut
  <2> QED BY <2>1, <2>2, <1>r, <1>q DEF Dead
<1>8. CASE CheckFlags(t)
  <2>1. UNCHANGED <<queueCount, closed, registered, readers, writers>>
    BY <1>8 DEF CheckFlags, queue, flags, sleepers
  <2>2. CASE ~Refused(t)
    <3>1. R \subseteq R' /\ W \subseteq W'
      BY <1>8, <2>2 DEF CheckFlags, Goto, Comers, sleepers, TypeOK
    <3> QED BY <2>1, <3>1, <1>r, <1>q DEF Dead
  <2>3. CASE ~registered
    BY <2>1, <2>3 DEF MessagesSpokenFor, RoomSpokenFor, Dead
  <2>4. CASE registered /\ Refused(t)
    <3>1. call[t] = "write" /\ closed
      BY <2>4 DEF Refused
    <3>2. R \subseteq R'
      BY <1>8, <2>4, <3>1 DEF CheckFlags, Return, Comers, sleepers, TypeOK, Taking
    <3>3. RoomSpokenFor'
      BY <2>1, <3>1 DEF RoomSpokenFor, Dead
    <3> QED BY <2>1, <3>2, <3>3, <1>r
  <2> QED BY <2>2, <2>3, <2>4
<1>9. CASE GiveUp(t)
  <2>1. UNCHANGED <<queueCount, closed, registered, readers, writers>>
    BY <1>9 DEF GiveUp, queue, flags, sleepers
  <2>2. CASE call[t] = "write"
    <3>1. R \subseteq R' /\ queueCount' = Capacity
      BY <1>9, <2>1, <2>2 DEF GiveUp, Return, Comers, sleepers, TypeOK, Taking, Blocked
    <3> QED BY <2>1, <3>1, <1>r, <1>f
  <2>3. CASE call[t] # "write"
    <3>1. W \subseteq W' /\ queueCount' = 0
      BY <1>9, <2>1, <2>3 DEF GiveUp, Return, Comers, sleepers, TypeOK, Blocked
    <3> QED BY <2>1, <3>1, <1>q, <1>z DEF Dead
  <2> QED BY <2>2, <2>3
<1>10. CASE Write(t)
  <2>1. queueCount' = queueCount + 1 /\ UNCHANGED <<closed, registered, writers>> /\ t \notin readers \cup writers
    BY <1>10, <1>c DEF Write, flags, CallsOK
  <2>2. t \in W /\ W' = W \ {t}
    BY <1>10, <1>c DEF Write, NotifyOne, Return, Comers, TypeOK, CallsOK, Taking
  <2>3. RoomSpokenFor'
    <3>1. Cardinality(W') = Cardinality(W) - 1
      BY <2>2, <1>s, ComersCount
    <3>2. ~Dead' => ~Dead
      BY <2>1 DEF Dead
    <3> QED BY <2>1, <3>1, <3>2, <1>w, <1>o, <1>b, <1>s
  <2>4. CASE readers = {}
    BY <1>10, <2>3, <2>4 DEF Write, NotifyOne, MessagesSpokenFor
  <2>5. CASE readers # {}
    <3>1. PICK u \in readers : readers' = readers \ {u}
      BY <1>10, <2>5 DEF Write, NotifyOne
    <3>2. u \in Thread /\ u \notin R /\ R' = R \cup {u}
      BY <1>10, <1>c, <3>1, <2>1 DEF Write, Return, Comers, TypeOK, CallsOK, Taking
    <3>3. Cardinality(R') = Cardinality(R) + 1
      BY <3>2, <1>s, ComersCount
    <3> QED BY <2>1, <2>3, <2>5, <3>3, <1>m, <1>o, <1>b, <1>s
  <2> QED BY <2>4, <2>5
<1>11. CASE Read(t)
  <2>1. queueCount = queueCount' + 1 /\ UNCHANGED <<closed, registered, readers>> /\ t \notin readers \cup writers
    BY <1>11, <1>b, <1>c DEF Read, flags, CallsOK
  <2>2. t \in R /\ R' = R \ {t}
    BY <1>11, <1>c DEF Read, WakeWriter, NotifyOne, Return, Comers, TypeOK, CallsOK, Taking
  <2>3. MessagesSpokenFor'
    <3>1. Cardinality(R') = Cardinality(R) - 1
      BY <2>2, <1>s, ComersCount
    <3> QED BY <2>1, <3>1, <1>m, <1>o, <1>b, <1>s
  <2>4. CASE writers = {}
    BY <1>11, <2>3, <2>4 DEF Read, WakeWriter, NotifyOne, RoomSpokenFor
  <2>5. CASE writers # {}
    <3>1. PICK u \in writers : writers' = writers \ {u}
      BY <1>11, <2>5 DEF Read, WakeWriter, NotifyOne
    <3>2. u \in Thread /\ u \notin W /\ W' = W \cup {u}
      <4>1. u \in Thread /\ u # t /\ call[u] = "write" /\ pc[u] = "asleep" /\ u \notin readers
        BY <1>c, <3>1, <2>1 DEF TypeOK, CallsOK, Taking
      <4>2. /\ pc' = [pc EXCEPT ![t] = "idle"] /\ call' = [call EXCEPT ![t] = None]
            /\ readers' = readers /\ call[t] = "read"
        BY <1>11 DEF Read, Return
      <4> QED BY <4>1, <4>2, <3>1 DEF Comers, TypeOK
    <3>3. Cardinality(W') = Cardinality(W) + 1
      BY <3>2, <1>s, ComersCount
    <3>4. ~Dead' => ~Dead
      BY <2>1 DEF Dead
    <3> QED BY <2>1, <2>3, <2>5, <3>3, <3>4, <1>w, <1>o, <1>b, <1>s
  <2> QED BY <2>4, <2>5
<1>12. CASE GetMessageInfo(t)
  <2>1. UNCHANGED <<queueCount, closed, registered, writers>> /\ t \notin readers \cup writers
    BY <1>12, <1>c DEF GetMessageInfo, queue, flags, CallsOK
  <2>2. W \subseteq W'
    BY <1>12, <1>c DEF GetMessageInfo, PassOn, NotifyOne, Return, Comers, TypeOK, CallsOK, Taking
  <2>3. RoomSpokenFor'
    BY <2>1, <2>2, <1>q DEF Dead
  <2>4. CASE readers = {}
    BY <1>12, <2>3, <2>4 DEF GetMessageInfo, PassOn, NotifyOne, MessagesSpokenFor
  <2>5. CASE readers # {}
    <3>1. PICK u \in readers : readers' = readers \ {u}
      BY <1>12, <2>5 DEF GetMessageInfo, PassOn, NotifyOne
    <3>2. u \in Thread /\ t \in R /\ u \notin R /\ R' = (R \ {t}) \cup {u}
      BY <1>12, <1>c, <3>1, <2>1 DEF GetMessageInfo, Return, Comers, TypeOK, CallsOK, Taking
    <3>3. Cardinality(R') = Cardinality(R)
      BY <3>2, <1>s, ComersCount
    <3> QED BY <2>1, <2>3, <2>5, <3>3, <1>m, <1>o, <1>b, <1>s
  <2> QED BY <2>4, <2>5
<1>13. CASE SetFlag(t)
  <2>1. R \subseteq R' /\ W \subseteq W' /\ UNCHANGED <<queueCount, readers, writers>>
    BY <1>13 DEF SetFlag, Goto, Return, Comers, queue, sleepers, TypeOK
  <2>2. (registered' => registered) /\ (closed => closed')
    BY <1>13 DEF SetFlag, flags
  <2> QED BY <2>1, <2>2, <1>r, <1>q DEF Dead
<1>14. CASE NotifyFirst(t)
  <2>1. R \subseteq R' /\ W \subseteq W' /\ UNCHANGED <<queueCount, closed, registered>>
    BY <1>14 DEF NotifyFirst, Goto, Comers, queue, flags, TypeOK
  <2>2. readers' \subseteq readers /\ writers' \subseteq writers
    BY <1>14 DEF NotifyFirst
  <2> QED BY <2>1, <2>2, <1>r, <1>q DEF Dead
<1>15. CASE NotifySecond(t)
  <2>1. R \subseteq R' /\ W \subseteq W' /\ UNCHANGED <<queueCount, closed, registered>>
    BY <1>15 DEF NotifySecond, Return, Comers, queue, flags, TypeOK
  <2>2. readers' \subseteq readers /\ writers' \subseteq writers
    BY <1>15 DEF NotifySecond
  <2> QED BY <2>1, <2>2, <1>r, <1>q DEF Dead
<1> QED
  BY <1>a, <1>1, <1>2, <1>3, <1>4, <1>5, <1>6, <1>7, <1>8, <1>9, <1>10, <1>11,
     <1>12, <1>13, <1>14, <1>15 DEF Start, Worker

\* The notify_one of Write, Read and GetMessageInfo is enough, whatever timeouts,
\* close_port and delete_port do in between: while a live port has a message no
\* reader sleeps unless another is up that will look at it, and while an open
\* port has room no writer does.
THEOREM PortNoSleeper == Spec => []NoSleeper
<1>1. Init => PortInductive /\ SpokenFor
  BY PortInit DEF Init, SpokenFor, CallsOK, MessagesSpokenFor, RoomSpokenFor
<1>2. PortInductive /\ SpokenFor /\ [Next]_vars => (PortInductive /\ SpokenFor)'
  <2> SUFFICES ASSUME PortInductive, SpokenFor, [Next]_vars PROVE (PortInductive /\ SpokenFor)'
    OBVIOUS
  <2>1. PortInductive'
    BY PortStep
  <2>2. CASE UNCHANGED vars
    BY <2>1, <2>2 DEF vars, SpokenFor, CallsOK, MessagesSpokenFor, RoomSpokenFor, Comers, Dead, Blocked
  <2>3. CASE Next
    BY <2>1, <2>3, PortSpeaks
  <2> QED BY <2>2, <2>3
<1>3. PortInductive /\ SpokenFor => NoSleeper
  <2> SUFFICES ASSUME PortInductive, SpokenFor PROVE NoSleeper
    OBVIOUS
  <2>1. /\ queueCount = Len(messages) /\ queueCount \in Nat /\ Capacity \in Nat
        /\ messages # << >> => queueCount > 0
    BY PortAssumption, EmptySeq DEF PortInductive, FirstInFirstOut, TypeOK
  <2>2. \A C : Comers(C) # {} => Coming(C)
    BY DEF Comers, Coming
  <2>3. \A C : Comers(C) = {} => Cardinality(Comers(C)) = 0
    BY FS_EmptySet
  <2>4. NoSleepingReader
    BY <2>1, <2>2, <2>3 DEF NoSleepingReader, SpokenFor, MessagesSpokenFor, Taking
  <2>5. NoSleepingWriter
    BY <2>1, <2>2, <2>3 DEF NoSleepingWriter, SpokenFor, RoomSpokenFor
  <2> QED BY <2>4, <2>5 DEF NoSleeper
<1> QED BY <1>1, <1>2, <1>3, PTL DEF Spec

-----------------------------------------------------------------------------
(* Notifications: every listener is told as often as he asked. *)

\* A set of numbers has a least one.
LEMMA LeastNumber ==
    ASSUME NEW S \in SUBSET Nat, S # {}
    PROVE  \E x \in S : \A y \in S : x <= y
<1> DEFINE LT == OpToRel(<, Nat)
<1>1. IsWellFoundedOn(LT, Nat)
  BY NatLessThanWellFounded, Zenon
<1>2. \A x, y \in Nat : y < x => <<y, x>> \in LT
  BY DEF OpToRel
<1> HIDE DEF LT
<1>3. \E x \in S : \A y \in S : ~ (<<y, x>> \in LT)
  BY <1>1, WFMin
<1>4. PICK x \in S : \A y \in S : ~ (<<y, x>> \in LT)
  BY <1>3
<1>5. \A y \in S : ~ (y < x)
  BY <1>2, <1>4
<1> QED BY <1>5

Listener == [c : Client, flags : SUBSET (Creation \cup Passing)]

\* A listener of an object is there once, with the flags that he wants.
ListKept(l, w) ==
    /\ l \in Seq(Listener)
    /\ \A i, j \in DOMAIN l : l[i].c = l[j].c => i = j
    /\ \A i \in DOMAIN l : l[i].flags = w[l[i].c]
    /\ \A c \in Client : w[c] # {} => \E i \in DOMAIN l : l[i].c = c
ListsKept ==
    /\ DOMAIN lists = Object
    /\ wants \in [Object -> [Client -> SUBSET (Creation \cup Passing)]]
    /\ \A o \in Object : ListKept(lists[o], wants[o])

NotificationsInductive == ListsKept /\ ListenersTold

\* What is sent if no listener follows.
Sent(s) == IF s.targets = <<>> THEN s.sent ELSE Append(s.sent, s.targets)

Batch == {m \in Seq(Client) : Len(m) <= MaxCount}
Batches == [sent : Seq(Batch), targets : Batch]

\* A target is added at one new place.
LEMMA TargetAdded ==
    ASSUME NEW s \in Batches, NEW x \in Client
    PROVE  /\ AddTargets(s, x) \in Batches
           /\ \E p : \A c \in Client : /\ p \notin TargetsAt(Sent(s), c)
                                       /\ TargetsAt(Sent(AddTargets(s, x)), c) =
                                              TargetsAt(Sent(s), c) \cup (IF c = x THEN {p} ELSE {})
<1> USE NotificationsAssumption
<1> DEFINE n == Len(s.sent)
           k == Len(s.targets)
           u == AddTargets(s, x)
<1>1. s.sent \in Seq(Batch) /\ s.targets \in Seq(Client) /\ s.targets \in Batch /\ n \in Nat /\ k \in Nat /\ k <= MaxCount
  BY DEF Batches, Batch
<1>2. <<x>> \in Batch /\ Len(<<x>>) = 1 /\ <<x>>[1] = x /\ <<x>> # <<>>
  BY DEF Batch
<1>3. CASE k = MaxCount
  <2>1. u = [sent |-> Append(s.sent, s.targets), targets |-> <<x>>]
    BY <1>3 DEF AddTargets
  <2>2. Append(s.sent, s.targets) \in Seq(Batch) /\ Len(Append(s.sent, s.targets)) = n + 1
        /\ s.targets # <<>> /\ Sent(s) = Append(s.sent, s.targets)
    BY <1>1, <1>3, AppendProperties DEF Sent
  <2>3. u \in Batches
    BY <2>1, <2>2, <1>2 DEF Batches
  <2>4. Sent(u) = Append(Sent(s), <<x>>)
    BY <2>1, <2>2, <1>2 DEF Sent
  <2> DEFINE a == Sent(s)
  <2>5. a \in Seq(Batch) /\ Len(a) = n + 1
    BY <2>2
  <2> HIDE DEF a
  <2>6. Len(Append(a, <<x>>)) = n + 2 /\ Append(a, <<x>>)[n + 2] = <<x>>
        /\ \A i \in 1..(n + 1) : Append(a, <<x>>)[i] = a[i]
    BY <2>5, <1>2, AppendProperties
  <2>7. ASSUME NEW c \in Client
        PROVE  /\ <<n + 2, 1>> \notin TargetsAt(a, c)
               /\ TargetsAt(Append(a, <<x>>), c) = TargetsAt(a, c) \cup (IF c = x THEN {<<n + 2, 1>>} ELSE {})
    <3>1. \A i, j : <<i, j>> \in TargetsAt(Append(a, <<x>>), c) <=>
                      <<i, j>> \in TargetsAt(a, c) \/ (i = n + 2 /\ j = 1 /\ c = x)
      BY <2>5, <2>6, <1>1, <1>2 DEF TargetsAt
    <3>2. <<n + 2, 1>> \notin TargetsAt(a, c)
      BY <2>5, <1>1 DEF TargetsAt
    <3> QED BY <3>1, <3>2 DEF TargetsAt
  <2> QED BY <2>3, <2>4, <2>7 DEF a
<1>4. CASE k < MaxCount
  <2> DEFINE w == Append(s.targets, x)
  <2>1. w \in Seq(Client) /\ Len(w) = k + 1 /\ w # <<>> /\ w[k + 1] = x /\ \A j \in 1..k : w[j] = s.targets[j]
    BY <1>1, AppendProperties
  <2>2. w \in Batch
    BY <2>1, <1>1, <1>4 DEF Batch
  <2>3. u = [s EXCEPT !.targets = Append(@, x)]
    BY <1>1, <1>4 DEF AddTargets
  <2> HIDE DEF w
  <2>4. u \in Batches /\ u.sent = s.sent /\ u.targets = w
    BY <2>2, <2>3, <1>1 DEF Batches, w
  <2>5. Sent(u) = Append(s.sent, w)
    BY <2>1, <2>4 DEF Sent
  <2> DEFINE a == Append(s.sent, w)
             b == Sent(s)
  <2>6. a \in Seq(Batch) /\ Len(a) = n + 1 /\ a[n + 1] = w /\ \A i \in 1..n : a[i] = s.sent[i]
    BY <1>1, <2>2, AppendProperties
  <2>7. b \in Seq(Batch) /\ (\A i \in 1..n : b[i] = s.sent[i])
        /\ Len(b) = (IF k = 0 THEN n ELSE n + 1) /\ (k # 0 => b[n + 1] = s.targets)
    <3>1. CASE k = 0
      <4>1. s.targets = <<>>
        BY <1>1, <3>1, EmptySeq
      <4> QED BY <4>1, <1>1, <3>1 DEF Sent
    <3>2. CASE k # 0
      <4>1. s.targets # <<>>
        BY <3>2
      <4> QED BY <4>1, <1>1, <3>2, AppendProperties DEF Sent
    <3> QED BY <3>1, <3>2
  <2> HIDE DEF a, b
  <2>8. ASSUME NEW c \in Client
        PROVE  /\ <<n + 1, k + 1>> \notin TargetsAt(b, c)
               /\ TargetsAt(a, c) = TargetsAt(b, c) \cup (IF c = x THEN {<<n + 1, k + 1>>} ELSE {})
    <3>1. \A i, j : <<i, j>> \in TargetsAt(a, c) <=>
                      <<i, j>> \in TargetsAt(b, c) \/ (i = n + 1 /\ j = k + 1 /\ c = x)
      <4> TAKE i, j
      <4>1. CASE i \in 1..n
        <5>1. a[i] = b[i] /\ i \in 1..Len(a) /\ i \in 1..Len(b) /\ i # n + 1
          BY <4>1, <1>1, <2>6, <2>7
        <5> QED BY <5>1 DEF TargetsAt
      <4>2. CASE i = n + 1 /\ k = 0
        BY <4>2, <1>1, <1>4, <2>1, <2>6, <2>7 DEF TargetsAt
      <4>3. CASE i = n + 1 /\ k # 0
        <5>1. a[i] = w /\ b[i] = s.targets /\ i \in 1..Len(a) /\ i \in 1..Len(b)
          BY <4>3, <1>1, <2>6, <2>7
        <5>2. <<i, j>> \in TargetsAt(a, c) <=> j \in 1..(k + 1) /\ w[j] = c
          BY <5>1, <1>1, <1>4, <2>1 DEF TargetsAt
        <5>3. <<i, j>> \in TargetsAt(b, c) <=> j \in 1..k /\ s.targets[j] = c
          BY <5>1, <1>1 DEF TargetsAt
        <5> QED BY <5>2, <5>3, <4>3, <1>1, <2>1
      <4>4. CASE i \notin 1..(n + 1)
        BY <4>4, <1>1, <2>6, <2>7 DEF TargetsAt
      <4> QED BY <4>1, <4>2, <4>3, <4>4, <1>1
    <3>2. <<n + 1, k + 1>> \notin TargetsAt(b, c)
      BY <2>7, <1>1 DEF TargetsAt
    <3> QED BY <3>1, <3>2 DEF TargetsAt
  <2> QED BY <2>4, <2>5, <2>8 DEF a, b
<1>5. k = MaxCount \/ k < MaxCount
  BY <1>1
<1> QED BY <1>3, <1>4, <1>5, Zenon

\* The targets after one more listener
OneMore(e, l, s) == IF l.flags \cap e.flags = {} THEN s ELSE AddTargets(s, l.c)

\* The walk over the listeners: its states are those the recursion says.
LEMMA ListenersWalk ==
    ASSUME NEW e, NEW all, Len(all) \in Nat
    PROVE  \E g : /\ g[0] = NoTargets /\ AfterListeners(e, all)[Len(all)] = g[Len(all)]
                  /\ \A n \in 1..Len(all) : g[n] = OneMore(e, all[n], g[n - 1])
<1> DEFINE P(g, m) == g = [n \in 0..m |-> IF n = 0 THEN NoTargets
                                          ELSE IF all[n].flags \cap e.flags = {} THEN g[n - 1]
                                          ELSE AddTargets(g[n - 1], all[n].c)]
           bad == {m \in 0..Len(all) : ~ \E g : P(g, m)}
<1>1. bad = {}
  <2> SUFFICES ASSUME bad # {} PROVE FALSE
    OBVIOUS
  <2>1. bad \in SUBSET Nat
    OBVIOUS
  <2> HIDE DEF bad
  <2>2. PICK m \in bad : \A y \in bad : m <= y
    BY <2>1, LeastNumber
  <2>3. m \in 0..Len(all) /\ ~ \E g : P(g, m)
    BY <2>2 DEF bad
  <2>4. m # 0
    <3> SUFFICES ASSUME m = 0 PROVE \E g : P(g, 0)
      BY <2>3
    <3> DEFINE g == [n \in 0..0 |-> NoTargets]
    <3>1. P(g, 0)
      OBVIOUS
    <3> QED BY <3>1
  <2>5. m - 1 \in 0..Len(all) /\ m - 1 < m /\ m \in Nat
    BY <2>3, <2>4
  <2>6. m - 1 \notin bad
    BY <2>2, <2>5
  <2>7. PICK g : P(g, m - 1)
    BY <2>5, <2>6 DEF bad
  <2> DEFINE last == IF all[m].flags \cap e.flags = {} THEN g[m - 1] ELSE AddTargets(g[m - 1], all[m].c)
             h == [n \in 0..m |-> IF n < m THEN g[n] ELSE last]
  <2>8. P(h, m)
    <3>1. \A n \in 0..m : n # 0 => n - 1 \in 0..(m - 1) /\ h[n - 1] = g[n - 1]
      BY <2>5
    <3>2. \A n \in 0..m : h[n] = IF n = 0 THEN NoTargets
                                 ELSE IF all[n].flags \cap e.flags = {} THEN h[n - 1]
                                 ELSE AddTargets(h[n - 1], all[n].c)
      <4> TAKE n \in 0..m
      <4>1. CASE n < m
        <5>1. n \in 0..(m - 1) /\ h[n] = g[n]
          BY <4>1, <2>5
        <5>2. g[n] = IF n = 0 THEN NoTargets
                     ELSE IF all[n].flags \cap e.flags = {} THEN g[n - 1]
                     ELSE AddTargets(g[n - 1], all[n].c)
          BY <5>1, <2>7
        <5> QED BY <5>1, <5>2, <3>1
      <4>2. CASE ~(n < m)
        <5>1. n = m
          BY <4>2, <2>5
        <5> QED BY <5>1, <3>1, <2>4, <2>5
      <4> QED BY <4>1, <4>2
    <3> HIDE DEF h
    <3>3. h = [n \in 0..m |-> h[n]]
      BY DEF h
    <3> QED BY <3>2, <3>3
  <2> QED BY <2>3, <2>8
<1>2. \E g : P(g, Len(all))
  BY <1>1
<1> DEFINE after == CHOOSE g : P(g, Len(all))
<1>3. AfterListeners(e, all)[Len(all)] = after[Len(all)]
  BY Zenon DEF AfterListeners
<1>4. P(after, Len(all))
  BY <1>2, Zenon
<1> HIDE DEF after
<1>5. after[0] = NoTargets
  BY <1>4
<1>6. \A n \in 1..Len(all) : after[n] = OneMore(e, all[n], after[n - 1])
  BY <1>4 DEF OneMore
<1> QED BY <1>3, <1>5, <1>6

\* The listeners among the first n that are c and asked for the event
Asking(e, all, c, n) == {k \in 1..n : all[k].flags \cap e.flags # {} /\ all[k].c = c}

\* c has as many places among the targets as it is there with flags of the event.
LEMMA TargetsCounted ==
    ASSUME NEW e, NEW all \in Seq(Listener), NEW c \in Client
    PROVE  LET s == AfterListeners(e, all)[Len(all)]
           IN  /\ s \in Batches
               /\ IsFiniteSet(TargetsAt(Sent(s), c))
               /\ Cardinality(TargetsAt(Sent(s), c)) = Cardinality(Asking(e, all, c, Len(all)))
<1> USE NotificationsAssumption
<1> DEFINE N == Len(all)
<1>1. N \in Nat
  OBVIOUS
<1>2. PICK g : /\ g[0] = NoTargets /\ AfterListeners(e, all)[N] = g[N]
               /\ \A n \in 1..N : g[n] = OneMore(e, all[n], g[n - 1])
  BY <1>1, ListenersWalk
<1> DEFINE T(n) == TargetsAt(Sent(g[n]), c)
           A(n) == Asking(e, all, c, n)
           Good(n) == /\ g[n] \in Batches /\ IsFiniteSet(T(n)) /\ IsFiniteSet(A(n))
                      /\ Cardinality(T(n)) = Cardinality(A(n))
           bad == {n \in 0..N : ~ Good(n)}
<1>3. Good(0)
  <2>1. NoTargets \in Batches
    BY DEF NoTargets, Batches, Batch
  <2>2. T(0) = {} /\ A(0) = {}
    BY <1>2 DEF NoTargets, Sent, TargetsAt, Asking
  <2> QED BY <1>2, <2>1, <2>2, FS_EmptySet
<1>4. ASSUME NEW n \in 1..N, Good(n - 1)
      PROVE  Good(n)
  <2>0. all[n] \in Listener
    BY <1>1
  <2>1. all[n] \in Listener /\ all[n].c \in Client
    BY <2>0 DEF Listener
  <2>2. g[n] = OneMore(e, all[n], g[n - 1])
    BY <1>2
  <2> DEFINE hit == all[n].flags \cap e.flags # {}
  <2>3. A(n) = A(n - 1) \cup (IF hit /\ all[n].c = c THEN {n} ELSE {}) /\ n \notin A(n - 1)
    BY <1>1 DEF Asking
  <2> HIDE DEF Good, A
  <2>4. CASE ~hit
    BY <2>2, <2>3, <2>4, <1>4 DEF OneMore, Good
  <2>5. CASE hit
    <3>1. g[n] = AddTargets(g[n - 1], all[n].c) /\ g[n - 1] \in Batches
      BY <2>2, <2>5, <1>4 DEF OneMore, Good
    <3>2. PICK p : p \notin T(n - 1) /\ T(n) = T(n - 1) \cup (IF c = all[n].c THEN {p} ELSE {})
      BY <3>1, <2>1, TargetAdded
    <3>3. g[n] \in Batches
      BY <3>1, <2>1, TargetAdded
    <3> HIDE DEF T
    <3>4. CASE c = all[n].c
      <4>1. T(n) = T(n - 1) \cup {p} /\ A(n) = A(n - 1) \cup {n}
        BY <3>2, <3>4, <2>3, <2>5
      <4>2. IsFiniteSet(T(n)) /\ Cardinality(T(n)) = Cardinality(T(n - 1)) + 1
        BY <4>1, <3>2, <1>4, FS_AddElement DEF Good
      <4>3. IsFiniteSet(A(n)) /\ Cardinality(A(n)) = Cardinality(A(n - 1)) + 1
        BY <4>1, <2>3, <1>4, FS_AddElement DEF Good
      <4> QED BY <4>2, <4>3, <3>3, <1>4 DEF Good
    <3>5. CASE c # all[n].c
      <4>1. T(n) = T(n - 1) /\ A(n) = A(n - 1)
        BY <3>2, <3>5, <2>3
      <4> QED BY <4>1, <3>3, <1>4 DEF Good
    <3> QED BY <3>4, <3>5
  <2> QED BY <2>4, <2>5
<1> HIDE DEF Good
<1>5. bad = {}
  <2> SUFFICES ASSUME bad # {} PROVE FALSE
    OBVIOUS
  <2>1. bad \in SUBSET Nat
    OBVIOUS
  <2> HIDE DEF bad
  <2>2. PICK m \in bad : \A y \in bad : m <= y
    BY <2>1, LeastNumber
  <2>3. m \in 1..N /\ ~ Good(m)
    BY <2>2, <1>3 DEF bad
  <2>4. m - 1 \in 0..N /\ m - 1 < m
    BY <2>3, <1>1
  <2>5. Good(m - 1)
    BY <2>2, <2>4 DEF bad
  <2> QED BY <2>3, <2>5, <1>4
<1>6. Good(N)
  BY <1>5, <1>1
<1> QED BY <1>6, <1>2 DEF Good

\* What is sent twice is told twice.
LEMMA ToldTwice ==
    ASSUME NEW m \in Seq(Batch), NEW c \in Client, IsFiniteSet(TargetsAt(m, c))
    PROVE  Cardinality(TargetsAt(m \o m, c)) = 2 * Cardinality(TargetsAt(m, c))
<1> USE NotificationsAssumption
<1> DEFINE n == Len(m)
           E == TargetsAt(m, c)
           F == {p \in ((n + 1)..(2 * n)) \X (1..MaxCount) : <<p[1] - n, p[2]>> \in E}
           f == [p \in E |-> <<p[1] + n, p[2]>>]
<1>1. n \in Nat /\ Len(m \o m) = 2 * n
      /\ \A i \in 1..(2 * n) : (m \o m)[i] = IF i <= n THEN m[i] ELSE m[i - n]
  BY ConcatProperties
<1>2. TargetsAt(m \o m, c) = E \cup F
  <2>1. ASSUME NEW i, NEW j
        PROVE  <<i, j>> \in TargetsAt(m \o m, c) <=> <<i, j>> \in E \cup F
    <3>1. CASE i \in 1..n
      BY <3>1, <1>1 DEF TargetsAt
    <3>2. CASE i \in (n + 1)..(2 * n)
      <4>1. i \in 1..(2 * n) /\ (m \o m)[i] = m[i - n] /\ i - n \in 1..n /\ i \notin 1..n
        BY <3>2, <1>1
      <4> QED BY <4>1, <3>2, <1>1 DEF TargetsAt
    <3>3. CASE i \notin 1..(2 * n)
      BY <3>3, <1>1 DEF TargetsAt
    <3> QED BY <3>1, <3>2, <3>3, <1>1
  <2>2. \A p \in TargetsAt(m \o m, c) \cup E \cup F : p = <<p[1], p[2]>>
    BY DEF TargetsAt
  <2> QED BY <2>1, <2>2
<1>3. E \cap F = {}
  BY <1>1 DEF TargetsAt
<1>4. f \in Bijection(E, F)
  <2>1. \A p \in E : p = <<p[1], p[2]>> /\ p[1] \in 1..n /\ p[2] \in 1..MaxCount
    BY DEF TargetsAt
  <2> HIDE DEF E
  <2>2. ASSUME NEW p \in E PROVE f[p] = <<p[1] + n, p[2]>> /\ f[p] \in F
    <3>1. p[1] + n \in (n + 1)..(2 * n) /\ (p[1] + n) - n = p[1] /\ p[2] \in 1..MaxCount
      BY <2>1, <1>1
    <3>2. f[p] = <<p[1] + n, p[2]>> /\ p = <<p[1], p[2]>>
      BY <2>1
    <3> QED BY <3>1, <3>2
  <2>3. ASSUME NEW p \in E, NEW q \in E, f[p] = f[q] PROVE p = q
    <3> HIDE DEF f, F
    <3>1. p[1] \in 1..n /\ q[1] \in 1..n /\ p[1] + n = q[1] + n /\ p[2] = q[2]
      BY <2>1, <2>2, <2>3
    <3>2. p[1] = q[1]
      BY <3>1, <1>1
    <3> QED BY <2>1, <3>1, <3>2
  <2>4. \A q \in F : \E p \in E : f[p] = q
    <3> TAKE q \in F
    <3>1. <<q[1] - n, q[2]>> \in E /\ q = <<q[1], q[2]>> /\ q[1] \in Nat
      BY <1>1
    <3>2. f[<<q[1] - n, q[2]>>] = q
      BY <3>1, <2>2, <1>1
    <3> QED BY <3>1, <3>2
  <2> HIDE DEF f, F
  <2>5. f \in [E -> F]
    BY <2>2 DEF f
  <2> QED BY <2>3, <2>4, <2>5, Fun_IsBij
<1> HIDE DEF E, F, f
<1>5. IsFiniteSet(F) /\ Cardinality(F) = Cardinality(E)
  <2>1. ExistsBijection(E, F)
    BY <1>4 DEF ExistsBijection
  <2> QED BY <2>1, FS_Bijection DEF E
<1>6. Cardinality(E \cup F) = Cardinality(E) + Cardinality(F) - Cardinality({})
  BY <1>3, <1>5, FS_Union DEF E
<1>7. Cardinality(E) \in Nat
  BY FS_CardinalityType DEF E
<1> QED BY <1>2, <1>5, <1>6, <1>7, FS_EmptySet DEF E

\* Who asked for the event is as often in the lists as there are objects that he asked for.
LEMMA AskingCounted ==
    ASSUME ListsKept, NEW e, e.team # All, NEW c \in Client
    PROVE  LET all == Listeners(e.team) \o Listeners(All)
           IN  /\ all \in Seq(Listener)
               /\ Cardinality(Asking(e, all, c, Len(all))) =
                      Cardinality({o \in {e.team, All} \cap Object : wants[o][c] \cap e.flags # {}})
<1> DEFINE A == Listeners(e.team)
           B == Listeners(All)
           O == {o \in {e.team, All} \cap Object : wants[o][c] \cap e.flags # {}}
           at(o) == CHOOSE i \in DOMAIN lists[o] : lists[o][i].c = c
           f == [o \in O |-> IF o = All THEN Len(A) + at(o) ELSE at(o)]
           all == A \o B
           K == Asking(e, all, c, Len(all))
<1>1. /\ \A o \in Object : lists[o] \in Seq(Listener)
      /\ \A o \in Object : \A i, j \in DOMAIN lists[o] : lists[o][i].c = lists[o][j].c => i = j
      /\ \A o \in Object : \A i \in DOMAIN lists[o] : lists[o][i].flags = wants[o][lists[o][i].c]
      /\ \A o \in Object : wants[o][c] # {} => \E i \in DOMAIN lists[o] : lists[o][i].c = c
  BY DEF ListsKept, ListKept
<1>2. All \in Object /\ B = lists[All] /\ (e.team \in Object => A = lists[e.team]) /\ (e.team \notin Object => A = <<>>)
  BY DEF Object, Listeners
<1>3. A \in Seq(Listener) /\ B \in Seq(Listener)
  <2>1. <<>> \in Seq(Listener)
    BY EmptySeq
  <2> HIDE DEF A, B
  <2>2. B \in Seq(Listener)
    BY <1>1, <1>2
  <2>3. CASE e.team \in Object
    BY <1>1, <1>2, <2>2, <2>3
  <2>4. CASE e.team \notin Object
    BY <1>2, <2>1, <2>2, <2>4
  <2> QED BY <2>3, <2>4
<1>4. /\ all \in Seq(Listener) /\ Len(all) = Len(A) + Len(B) /\ Len(A) \in Nat /\ Len(B) \in Nat
      /\ \A i \in 1..(Len(A) + Len(B)) : all[i] = IF i <= Len(A) THEN A[i] ELSE B[i - Len(A)]
  BY <1>3, ConcatProperties
<1>5. ASSUME NEW o \in O
      PROVE  /\ o \in Object /\ at(o) \in 1..Len(lists[o]) /\ lists[o][at(o)].c = c
             /\ lists[o][at(o)].flags \cap e.flags # {}
             /\ o = All \/ (o = e.team /\ A = lists[o])
  <2>1. o \in Object /\ wants[o][c] \cap e.flags # {} /\ wants[o][c] # {} /\ (o = e.team \/ o = All)
    OBVIOUS
  <2>2. at(o) \in DOMAIN lists[o] /\ lists[o][at(o)].c = c
    BY <1>1, <2>1
  <2> HIDE DEF at
  <2> QED BY <2>1, <2>2, <1>1, <1>2
<1>6. ASSUME NEW o \in Object, NEW k \in DOMAIN lists[o], lists[o][k].c = c,
             lists[o][k].flags \cap e.flags # {}, o \in {e.team, All}
      PROVE  o \in O /\ at(o) = k
  <2>1. wants[o][c] \cap e.flags # {}
    BY <1>1, <1>6
  <2>2. at(o) \in DOMAIN lists[o] /\ lists[o][at(o)].c = c
    BY <1>6
  <2> HIDE DEF at
  <2> QED BY <2>1, <2>2, <1>1, <1>6
<1> HIDE DEF O, at, all, A, B
<1>7. ASSUME NEW o \in O PROVE f[o] \in K
  <2>1. CASE o = All
    <3>1. f[o] = Len(A) + at(o) /\ at(o) \in 1..Len(B)
      BY <1>2, <1>5, <2>1
    <3>2. f[o] \in 1..Len(all) /\ all[f[o]] = B[at(o)]
      BY <3>1, <1>4
    <3> QED BY <3>2, <1>2, <1>5, <2>1 DEF Asking
  <2>2. CASE o # All
    <3>1. f[o] = at(o) /\ at(o) \in 1..Len(A) /\ A = lists[o]
      BY <1>5, <2>2
    <3>2. f[o] \in 1..Len(all) /\ all[f[o]] = A[at(o)]
      BY <3>1, <1>4
    <3> QED BY <3>1, <3>2, <1>5 DEF Asking
  <2> QED BY <2>1, <2>2
<1>8. \A o, p \in O : f[o] = f[p] => o = p
  <2> SUFFICES ASSUME NEW o \in O, NEW p \in O, o = All, p # All, f[o] = f[p] PROVE FALSE
    BY <1>5
  <2>1. f[o] = Len(A) + at(o) /\ at(o) \in 1..Len(B) /\ f[p] = at(p) /\ at(p) \in 1..Len(A)
    BY <1>2, <1>5
  <2> QED BY <2>1, <1>4
<1>9. \A k \in K : \E o \in O : f[o] = k
  <2> SUFFICES ASSUME NEW k \in K PROVE \E o \in O : f[o] = k
    OBVIOUS
  <2>1. k \in 1..(Len(A) + Len(B)) /\ all[k].c = c /\ all[k].flags \cap e.flags # {}
    BY <1>4 DEF Asking
  <2>2. CASE k <= Len(A)
    <3>1. k \in 1..Len(A) /\ all[k] = A[k] /\ e.team \in Object /\ A = lists[e.team]
      BY <2>1, <2>2, <1>2, <1>4
    <3>2. e.team \in O /\ at(e.team) = k
      BY <3>1, <2>1, <1>1, <1>6
    <3> QED BY <3>2
  <2>3. CASE k > Len(A)
    <3>1. k - Len(A) \in 1..Len(B) /\ all[k] = B[k - Len(A)]
      BY <2>1, <2>3, <1>4
    <3>2. All \in O /\ at(All) = k - Len(A)
      BY <3>1, <2>1, <1>1, <1>2, <1>6
    <3>3. f[All] = k
      BY <3>1, <3>2, <1>4, <2>1
    <3> QED BY <3>2, <3>3
  <2> QED BY <2>1, <2>2, <2>3, <1>4
<1>10. f \in [O -> K]
  BY <1>7
<1> HIDE DEF f, K
<1>11. ExistsBijection(O, K)
  BY <1>8, <1>9, <1>10, Fun_IsBij DEF ExistsBijection
<1>12. IsFiniteSet(O)
  <2>1. IsFiniteSet({} \cup {All})
    BY FS_EmptySet, FS_AddElement
  <2>2. IsFiniteSet(({} \cup {All}) \cup {e.team})
    BY <2>1, FS_AddElement
  <2>3. O \subseteq ({} \cup {All}) \cup {e.team}
    BY DEF O
  <2> QED BY <2>2, <2>3, FS_Subset
<1>13. Cardinality(K) = Cardinality(O)
  BY <1>11, <1>12, FS_Bijection
<1> QED BY <1>4, <1>13 DEF O, K, all, A, B

\* Every event that is reported is told as it should be.
LEMMA EventTold ==
    ASSUME ListsKept, NEW e, e.team # All, Reaches(e), NEW c \in Client
    PROVE  Cardinality(TargetsAt(NotifyLocked(e), c)) =
               2 * Cardinality({o \in {e.team, All} \cap Object : wants[o][c] \cap e.flags # {}})
<1> DEFINE all == Listeners(e.team) \o Listeners(All)
           s == AfterListeners(e, all)[Len(all)]
           m == EventOccurred(e)
<1>1. all \in Seq(Listener) /\ Cardinality(Asking(e, all, c, Len(all))) =
          Cardinality({o \in {e.team, All} \cap Object : wants[o][c] \cap e.flags # {}})
  BY AskingCounted
<1>2. m = Sent(s)
  BY DEF EventOccurred, Sent
<1> HIDE DEF all
<1>3. /\ s \in Batches /\ IsFiniteSet(TargetsAt(Sent(s), c))
      /\ Cardinality(TargetsAt(Sent(s), c)) = Cardinality(Asking(e, all, c, Len(all)))
  BY <1>1, TargetsCounted
<1> HIDE DEF s, m
<1>4. m \in Seq(Batch)
  <2>1. s.sent \in Seq(Batch) /\ s.targets \in Batch
    BY <1>3 DEF Batches
  <2> QED BY <1>2, <2>1, AppendProperties DEF Sent
<1>5. NotifyLocked(e) = m \o m
  BY DEF NotifyLocked, m
<1> QED BY <1>1, <1>2, <1>3, <1>4, <1>5, ToldTwice

\* No client is told of an event by what its lists were before or after it.
LEMMA TellKept ==
    ASSUME NotificationsInductive, UNCHANGED <<lists, wants>>,
           NEW e, e.team # All, Reaches(e), Tell(e)
    PROVE  NotificationsInductive'
<1>1. ListsKept'
  <2>1. lists' = lists /\ wants' = wants /\ ListsKept
    BY DEF NotificationsInductive
  <2> QED BY <2>1 DEF ListsKept, Object
<1>2. ListenersTold'
  <2>1. event' = e /\ posts' = NotifyLocked(e) /\ ListsKept
    BY DEF Tell, NotificationsInductive
  <2>2. ASSUME NEW c \in Client
        PROVE  Told(c)' = 2 * Cardinality({o \in {event'.team, All} \cap Object :
                                             wants'[o][c] \cap event'.flags # {}})
    <3>1. Told(c)' = Cardinality(TargetsAt(NotifyLocked(e), c))
      BY <2>1 DEF Told, TargetsAt
    <3>2. Cardinality(TargetsAt(NotifyLocked(e), c)) =
              2 * Cardinality({o \in {e.team, All} \cap Object : wants[o][c] \cap e.flags # {}})
      BY <2>1, EventTold
    <3> QED BY <2>1, <3>1, <3>2
  <2> QED BY <2>2 DEF ListenersTold, Object
<1> QED BY <1>1, <1>2 DEF NotificationsInductive

LEMMA TeamReportsReach ==
    ASSUME NEW code, code \in {CodeAdded, CodeRemoved, TeamExec}, NEW what, NEW t \in Guest
    PROVE  Reaches(TeamEvent(code, what, t)) /\ TeamEvent(code, what, t).team # All
BY NotificationsAssumption DEF Reaches, Subscribed, TeamEvent, Event

LEMMA ThreadReportsReach ==
    ASSUME NEW code, code \in {CodeAdded, CodeRemoved, NameChanged}, NEW what, NEW th \in AnyThread
    PROVE  Reaches(ThreadEvent(code, what, th)) /\ ThreadEvent(code, what, th).team # All
BY NotificationsAssumption DEF Reaches, Subscribed, ThreadEvent, Event, AnyThread,
   CodeAdded, CodeRemoved, TeamExec, NameChanged

LEMMA NoEventKept ==
    ASSUME event' = NoEvent
    PROVE  ListenersTold'
BY DEF ListenersTold, NoEvent, Event

LEMMA StartListeningKept ==
    ASSUME NotificationsInductive, NEW t \in Guest, NEW o \in Object, NEW c \in Client,
           NEW f \in Flag, StartListening(t, o, c, f)
    PROVE  NotificationsInductive'
<1> DEFINE found == FindListener(o, c)
           all == lists[o]
           new == lists'[o]
<1>1. /\ DOMAIN lists' = Object /\ \A x \in Object : x # o => lists'[x] = lists[x]
      /\ new = IF found # {}
               THEN [i \in DOMAIN all |-> IF i \in found
                       THEN Widened(all[i], f) ELSE all[i]]
               ELSE Append(all, [c |-> c, flags |-> f])
      /\ wants' = [wants EXCEPT ![o][c] = @ \cup f] /\ event' = NoEvent
  <2>1. DOMAIN lists = Object
    BY DEF NotificationsInductive, ListsKept
  <2> DEFINE n == IF found # {}
                  THEN [i \in DOMAIN all |-> IF i \in found
                          THEN Widened(all[i], f) ELSE all[i]]
                  ELSE Append(all, [c |-> c, flags |-> f])
  <2>2. lists' = [lists EXCEPT ![o] = n]
    BY DEF StartListening
  <2>3. wants' = [wants EXCEPT ![o][c] = @ \cup f] /\ event' = NoEvent
    BY DEF StartListening
  <2> HIDE DEF n
  <2>4. new = n /\ DOMAIN lists' = Object /\ \A x \in Object : x # o => lists'[x] = lists[x]
    BY <2>1, <2>2
  <2> QED BY <2>3, <2>4 DEF n
<1>2. /\ all \in Seq(Listener)
      /\ \A i, j \in DOMAIN all : all[i].c = all[j].c => i = j
      /\ \A i \in DOMAIN all : all[i].flags = wants[o][all[i].c]
      /\ \A x \in Client : wants[o][x] # {} => \E i \in DOMAIN all : all[i].c = x
      /\ \A x \in Object : \A y \in Client : wants[x][y] \subseteq Creation \cup Passing
      /\ f \subseteq Creation \cup Passing /\ f # {}
  <2>1. f \subseteq Creation \cup Passing /\ f # {}
    BY DEF Flag, Creation, Passing
  <2>2. ListsKept
    BY DEF NotificationsInductive
  <2>3. \A x \in Object : \A y \in Client : wants[x][y] \subseteq Creation \cup Passing
    BY <2>2 DEF ListsKept
  <2>4. ListKept(all, wants[o])
    BY <2>2 DEF ListsKept
  <2> QED BY <2>1, <2>3, <2>4, Zenon DEF ListKept
<1>3. /\ wants' \in [Object -> [Client -> SUBSET (Creation \cup Passing)]]
      /\ \A x \in Object : x # o => wants'[x] = wants[x]
      /\ wants'[o][c] = wants[o][c] \cup f
      /\ \A y \in Client : y # c => wants'[o][y] = wants[o][y]
  <2>1. wants \in [Object -> [Client -> SUBSET (Creation \cup Passing)]]
    BY DEF NotificationsInductive, ListsKept
  <2> QED BY <1>1, <1>2, <2>1
<1>4. found = {i \in DOMAIN all : all[i].c = c} /\ DOMAIN all = 1..Len(all) /\ Len(all) \in Nat
  BY <1>2 DEF FindListener
<1> HIDE DEF all, new, found
<1>5. \A i \in DOMAIN all : all[i] \in Listener /\ all[i].c \in Client /\ all[i].flags \subseteq Creation \cup Passing
  <2>1. \A i \in DOMAIN all : all[i] \in Listener
    BY <1>2
  <2> QED BY <2>1 DEF Listener
<1>6. /\ new \in Seq(Listener)
      /\ \A i, j \in DOMAIN new : new[i].c = new[j].c => i = j
      /\ \A i \in DOMAIN new : new[i].flags = wants'[o][new[i].c]
      /\ \A x \in Client : wants'[o][x] # {} => \E i \in DOMAIN new : new[i].c = x
  <2>1. CASE found # {}
    <3>1. DOMAIN new = DOMAIN all
      BY <2>1, <1>1
    <3>2. ASSUME NEW i \in DOMAIN all
          PROVE  /\ new[i] \in Listener /\ new[i].c = all[i].c
                 /\ new[i].flags = IF i \in found THEN all[i].flags \cup f ELSE all[i].flags
      <4>1. all[i] \in Listener
        BY <1>5
      <4>2. CASE i \in found
        <5>1. new[i] = [all[i] EXCEPT !.flags = @ \cup f]
          BY <1>1, <2>1, <4>2 DEF Widened
        <5> QED BY <5>1, <4>1, <4>2, <1>2 DEF Listener
      <4>3. CASE i \notin found
        BY <1>1, <2>1, <4>1, <4>3
      <4> QED BY <4>2, <4>3
    <3>3. new = [i \in 1..Len(all) |-> new[i]]
      BY <2>1, <1>1, <1>4
    <3>4. new \in Seq(Listener)
      <4>1. \A i \in 1..Len(all) : new[i] \in Listener
        BY <3>2, <1>4
      <4> HIDE DEF new
      <4> QED BY <3>3, <4>1, <1>4, IsASeq
    <3>5. \A i \in DOMAIN new : new[i].flags = wants'[o][new[i].c]
      <4> TAKE i \in DOMAIN new
      <4>1. new[i].c = all[i].c /\ all[i].c \in Client /\ all[i].flags = wants[o][all[i].c] /\ i \in DOMAIN all
        BY <3>1, <3>2, <1>2, <1>5
      <4>2. CASE i \in found
        BY <4>1, <4>2, <3>2, <1>3, <1>4
      <4>3. CASE i \notin found
        BY <4>1, <4>3, <3>2, <1>3, <1>4
      <4> QED BY <4>2, <4>3
    <3>6. \A x \in Client : wants'[o][x] # {} => \E i \in DOMAIN new : new[i].c = x
      <4> SUFFICES ASSUME NEW x \in Client, wants'[o][x] # {} PROVE \E i \in DOMAIN new : new[i].c = x
        OBVIOUS
      <4>1. CASE x = c
        BY <4>1, <2>1, <3>1, <3>2, <1>4
      <4>2. CASE x # c
        <5>1. wants[o][x] # {}
          BY <4>2, <1>3
        <5>2. PICK i \in DOMAIN all : all[i].c = x
          BY <5>1, <1>2
        <5> QED BY <5>2, <3>1, <3>2
      <4> QED BY <4>1, <4>2
    <3> QED BY <3>1, <3>2, <3>4, <3>5, <3>6, <1>2
  <2>2. CASE found = {}
    <3> DEFINE l == [c |-> c, flags |-> f]
    <3>1. l \in Listener /\ l.c = c /\ l.flags = f
      BY <1>2 DEF Listener
    <3> HIDE DEF l
    <3>2. new = Append(all, l)
      BY <2>2, <1>1 DEF l
    <3>3. /\ new \in Seq(Listener) /\ Len(new) = Len(all) + 1 /\ DOMAIN new = 1..(Len(all) + 1)
          /\ new[Len(all) + 1] = l /\ \A i \in 1..Len(all) : new[i] = all[i]
      BY <3>1, <3>2, <1>2, AppendProperties
    <3>4. wants[o][c] = {}
      BY <2>2, <1>2, <1>4
    <3>5. wants'[o][c] = f /\ \A i \in DOMAIN all : all[i].c # c
      BY <3>4, <1>3, <2>2, <1>4
    <3>6. \A i, j \in DOMAIN new : new[i].c = new[j].c => i = j
      BY <3>1, <3>3, <3>5, <1>2, <1>4
    <3>7. \A i \in DOMAIN new : new[i].flags = wants'[o][new[i].c]
      <4> TAKE i \in DOMAIN new
      <4>1. CASE i = Len(all) + 1
        BY <4>1, <3>1, <3>3, <3>5
      <4>2. CASE i # Len(all) + 1
        <5>1. i \in DOMAIN all /\ new[i] = all[i] /\ all[i].c \in Client /\ all[i].c # c
          BY <4>2, <3>3, <3>5, <1>4, <1>5
        <5> QED BY <5>1, <1>2, <1>3
      <4> QED BY <4>1, <4>2
    <3>8. \A x \in Client : wants'[o][x] # {} => \E i \in DOMAIN new : new[i].c = x
      BY <3>1, <3>3, <3>5, <1>2, <1>3, <1>4
    <3> QED BY <3>3, <3>6, <3>7, <3>8
  <2> QED BY <2>1, <2>2
<1>7. ListsKept'
  <2>1. ListsKept
    BY DEF NotificationsInductive
  <2>2. ASSUME NEW x \in Object
        PROVE  ListKept(lists'[x], wants'[x])
    <3>1. CASE x = o
      BY <3>1, <1>6, Zenon DEF new, ListKept
    <3>2. CASE x # o
      <4>1. lists'[x] = lists[x] /\ wants'[x] = wants[x]
        BY <3>2, <1>1, <1>3
      <4> QED BY <4>1, <2>1 DEF ListsKept
    <3> QED BY <3>1, <3>2
  <2> QED BY <2>2, <1>1, <1>3 DEF ListsKept, Object
<1> QED BY <1>1, <1>7, NoEventKept DEF NotificationsInductive

LEMMA StopListeningKept ==
    ASSUME NotificationsInductive, NEW t \in Guest, NEW o \in Object, NEW c \in Client,
           NEW f \in Flag, StopListening(t, o, c, f)
    PROVE  NotificationsInductive'
<1> DEFINE found == FindListener(o, c)
           all == lists[o]
           i == CHOOSE k \in found : TRUE
           rest == all[i].flags \ f
           new == lists'[o]
<1>1. /\ ListKept(all, wants[o]) /\ DOMAIN lists = Object
      /\ wants \in [Object -> [Client -> SUBSET (Creation \cup Passing)]]
  BY DEF NotificationsInductive, ListsKept
<1>2. /\ all \in Seq(Listener)
      /\ \A k, j \in DOMAIN all : all[k].c = all[j].c => k = j
      /\ \A k \in DOMAIN all : all[k].flags = wants[o][all[k].c]
      /\ \A x \in Client : wants[o][x] # {} => \E k \in DOMAIN all : all[k].c = x
  BY <1>1, Zenon DEF ListKept
<1>3. /\ found # {} /\ wants' = [wants EXCEPT ![o][c] = @ \ f] /\ event' = NoEvent
      /\ IF rest # {} THEN lists' = [lists EXCEPT ![o][i].flags = rest]
                      ELSE lists' = RemoveListener(o, i)
  BY DEF StopListening
<1>4. i \in DOMAIN all /\ all[i].c = c /\ all[i].flags = wants[o][c]
  BY <1>2, <1>3 DEF FindListener
<1>5. /\ wants' \in [Object -> [Client -> SUBSET (Creation \cup Passing)]]
      /\ \A x \in Object : x # o => wants'[x] = wants[x]
      /\ wants'[o][c] = wants[o][c] \ f
      /\ \A y \in Client : y # c => wants'[o][y] = wants[o][y]
  BY <1>1, <1>3
<1> HIDE DEF i, rest
<1>6. ASSUME rest # {}
      PROVE  /\ DOMAIN lists' = Object /\ \A x \in Object : x # o => lists'[x] = lists[x]
             /\ ListKept(lists'[o], wants'[o])
  <2>1. lists' = [lists EXCEPT ![o][i].flags = rest]
    BY <1>3, <1>6
  <2>2. /\ DOMAIN lists' = Object /\ \A x \in Object : x # o => lists'[x] = lists[x]
        /\ new = [all EXCEPT ![i].flags = rest]
    BY <2>1, <1>1
  <2> HIDE DEF all, new
  <2>3. \A k \in DOMAIN all : all[k] \in Listener
    BY <1>2
  <2>4. new = [all EXCEPT ![i] = [all[i] EXCEPT !.flags = rest]]
    BY <2>2
  <2> DEFINE l == [all[i] EXCEPT !.flags = rest]
  <2>5. l \in Listener /\ l.c = c /\ l.flags = rest
    BY <2>3, <1>4 DEF Listener, rest
  <2> HIDE DEF l
  <2>6. new \in Seq(Listener) /\ DOMAIN new = DOMAIN all /\ new[i] = l /\ \A k \in DOMAIN all : k # i => new[k] = all[k]
    BY <2>4, <2>5, <1>2, <1>4 DEF l
  <2>7. \A k \in DOMAIN all : new[k].c = all[k].c
    BY <2>5, <2>6, <1>4
  <2>8. \A k \in DOMAIN new : new[k].flags = wants'[o][new[k].c]
    <3> TAKE k \in DOMAIN new
    <3>1. CASE k = i
      BY <3>1, <2>5, <2>6, <1>4, <1>5 DEF rest
    <3>2. CASE k # i
      <4>1. all[k] \in Listener /\ all[k].c # c /\ new[k] = all[k]
        BY <3>2, <2>3, <2>6, <1>2, <1>4
      <4>2. all[k].c \in Client
        BY <4>1 DEF Listener
      <4> QED BY <4>1, <4>2, <2>6, <1>2, <1>5
    <3> QED BY <3>1, <3>2
  <2>9. \A x \in Client : wants'[o][x] # {} => \E k \in DOMAIN new : new[k].c = x
    <3> SUFFICES ASSUME NEW x \in Client, wants'[o][x] # {} PROVE \E k \in DOMAIN new : new[k].c = x
      OBVIOUS
    <3>1. CASE x = c
      BY <3>1, <2>5, <2>6, <1>4
    <3>2. CASE x # c
      <4>1. PICK k \in DOMAIN all : all[k].c = x
        BY <3>2, <1>2, <1>5
      <4> QED BY <4>1, <2>6, <2>7
    <3> QED BY <3>1, <3>2
  <2>10. ListKept(new, wants'[o])
    <3>1. \A k, j \in DOMAIN new : new[k].c = new[j].c => k = j
      BY <2>6, <2>7, <1>2
    <3> QED BY <2>6, <2>8, <2>9, <3>1, Zenon DEF ListKept
  <2> QED BY <2>2, <2>10 DEF new
<1>7. ASSUME rest = {}
      PROVE  /\ DOMAIN lists' = Object /\ \A x \in Object : x # o => lists'[x] = lists[x]
             /\ ListKept(lists'[o], wants'[o])
  <2> DEFINE n == [j \in 1..(Len(all) - 1) |-> IF j < i THEN all[j] ELSE all[j + 1]]
  <2>1. lists' = RemoveListener(o, i)
    BY <1>3, <1>7
  <2>2. /\ DOMAIN lists' = Object /\ \A x \in Object : x # o => lists'[x] = lists[x]
        /\ new = n
    BY <2>1, <1>1 DEF RemoveListener
  <2> HIDE DEF all, new
  <2>3. \A k \in DOMAIN all : all[k] \in Listener
    BY <1>2
  <2>4. DOMAIN all = 1..Len(all) /\ Len(all) \in Nat /\ DOMAIN n = 1..(Len(all) - 1)
    BY <1>2
  <2>5. \A j \in DOMAIN n : \E k \in DOMAIN all : k # i /\ n[j] = all[k] /\ k = (IF j < i THEN j ELSE j + 1)
    BY <2>4, <1>4
  <2>6. \A k \in DOMAIN all : k # i => \E j \in DOMAIN n : n[j] = all[k]
    <3> SUFFICES ASSUME NEW k \in DOMAIN all, k # i PROVE \E j \in DOMAIN n : n[j] = all[k]
      OBVIOUS
    <3>1. CASE k < i
      <4>1. k \in DOMAIN n /\ n[k] = all[k]
        BY <3>1, <2>4, <1>4
      <4> QED BY <4>1
    <3>2. CASE k > i
      <4>1. k - 1 \in DOMAIN n /\ n[k - 1] = all[k]
        BY <3>2, <2>4, <1>4
      <4> QED BY <4>1
    <3> QED BY <3>1, <3>2, <2>4, <1>4
  <2>7. n \in Seq(Listener)
    BY <2>3, <2>4, <2>5, IsASeq
  <2> HIDE DEF n
  <2>8. \A k, j \in DOMAIN n : n[k].c = n[j].c => k = j
    <3> SUFFICES ASSUME NEW k \in DOMAIN n, NEW j \in DOMAIN n, n[k].c = n[j].c PROVE k = j
      OBVIOUS
    <3>1. PICK p \in DOMAIN all : p # i /\ n[k] = all[p] /\ p = (IF k < i THEN k ELSE k + 1)
      BY <2>5
    <3>2. PICK q \in DOMAIN all : q # i /\ n[j] = all[q] /\ q = (IF j < i THEN j ELSE j + 1)
      BY <2>5
    <3>3. p = q
      BY <3>1, <3>2, <1>2
    <3> QED BY <3>1, <3>2, <3>3, <2>4, <1>4
  <2>9. \A j \in DOMAIN n : n[j].flags = wants'[o][n[j].c]
    <3> TAKE j \in DOMAIN n
    <3>1. PICK k \in DOMAIN all : k # i /\ n[j] = all[k]
      BY <2>5
    <3>2. all[k] \in Listener /\ all[k].c # c
      BY <3>1, <2>3, <1>2, <1>4
    <3>3. all[k].c \in Client
      BY <3>2 DEF Listener
    <3> QED BY <3>1, <3>2, <3>3, <1>2, <1>5
  <2>10. \A x \in Client : wants'[o][x] # {} => \E j \in DOMAIN n : n[j].c = x
    <3> SUFFICES ASSUME NEW x \in Client, wants'[o][x] # {} PROVE \E j \in DOMAIN n : n[j].c = x
      OBVIOUS
    <3>1. x # c
      BY <1>4, <1>5, <1>7 DEF rest
    <3>2. PICK k \in DOMAIN all : all[k].c = x
      BY <3>1, <1>2, <1>5
    <3>3. k # i
      BY <3>1, <3>2, <1>4
    <3> QED BY <3>2, <3>3, <2>6
  <2>11. ListKept(n, wants'[o])
    BY <2>7, <2>8, <2>9, <2>10, Zenon DEF ListKept
  <2> QED BY <2>2, <2>11 DEF new
<1>8. /\ DOMAIN lists' = Object /\ \A x \in Object : x # o => lists'[x] = lists[x]
      /\ ListKept(lists'[o], wants'[o])
  BY <1>6, <1>7
<1>9. ListsKept'
  <2>1. ASSUME NEW x \in Object PROVE ListKept(lists'[x], wants'[x])
    <3>1. CASE x = o
      BY <3>1, <1>8
    <3>2. CASE x # o
      <4>1. lists'[x] = lists[x] /\ wants'[x] = wants[x]
        BY <3>2, <1>5, <1>8
      <4> QED BY <4>1 DEF NotificationsInductive, ListsKept
    <3> QED BY <3>1, <3>2
  <2> QED BY <2>1, <1>5, <1>8 DEF ListsKept, Object
<1> QED BY <1>3, <1>9, NoEventKept DEF NotificationsInductive

LEMMA NotificationsInitOK == NotificationsInit => NotificationsInductive
<1> SUFFICES ASSUME NotificationsInit PROVE NotificationsInductive
  OBVIOUS
<1> USE DEF NotificationsInit
<1>1. DOMAIN lists = Object /\ \A o \in Object : lists[o] = <<>> /\ wants[o] = [c \in Client |-> {}]
  OBVIOUS
<1>2. wants \in [Object -> [Client -> SUBSET (Creation \cup Passing)]]
  OBVIOUS
<1>3. ASSUME NEW o \in Object PROVE ListKept(lists[o], wants[o])
  <2>1. lists[o] = <<>> /\ \A c \in Client : wants[o][c] = {}
    BY <1>1
  <2>2. <<>> \in Seq(Listener) /\ DOMAIN <<>> = {}
    OBVIOUS
  <2> QED BY <2>1, <2>2, Zenon DEF ListKept
<1>4. ListenersTold
  BY DEF ListenersTold
<1> QED BY <1>1, <1>2, <1>3, <1>4 DEF NotificationsInductive, ListsKept

LEMMA NotificationsStepKept ==
    NotificationsInductive /\ [NotificationsStep]_notificationVars => NotificationsInductive'
<1> SUFFICES ASSUME NotificationsInductive, [NotificationsStep]_notificationVars
             PROVE  NotificationsInductive'
  OBVIOUS
<1>1. ASSUME NEW t \in Guest, NEW o \in Object, NEW c \in Client, NEW f \in Flag,
             StartListening(t, o, c, f) \/ StopListening(t, o, c, f)
      PROVE  NotificationsInductive'
  BY <1>1, StartListeningKept, StopListeningKept
<1>2. ASSUME NEW th \in AnyThread, Connect(th)
      PROVE  NotificationsInductive'
  <2>1. UNCHANGED <<lists, wants>>
    BY <1>2 DEF Connect
  <2>2. Whose(th) \in Guest
    BY NotificationsAssumption DEF Whose, AnyThread
  <2>3. CASE Tell(TeamEvent(CodeAdded, {"team created"}, Whose(th)))
    <3>1. Reaches(TeamEvent(CodeAdded, {"team created"}, Whose(th))) /\ TeamEvent(CodeAdded, {"team created"}, Whose(th)).team # All
      BY <2>2, TeamReportsReach
    <3> QED BY <2>1, <2>3, <3>1, TellKept
  <2>4. CASE Tell(ThreadEvent(CodeAdded, "thread created", th))
    <3>1. Reaches(ThreadEvent(CodeAdded, "thread created", th)) /\ ThreadEvent(CodeAdded, "thread created", th).team # All
      BY <2>2, ThreadReportsReach
    <3> QED BY <2>1, <2>4, <3>1, TellKept
  <2> QED BY <1>2, <2>3, <2>4 DEF Connect
<1>3. ASSUME NEW th \in AnyThread, Disconnect(th)
      PROVE  NotificationsInductive'
  <2>1. UNCHANGED <<lists, wants>>
    BY <1>3 DEF Disconnect
  <2>2. Whose(th) \in Guest
    BY NotificationsAssumption DEF Whose, AnyThread
  <2>3. CASE Tell(TeamEvent(CodeRemoved, {"team deleted"}, Whose(th)))
    <3>1. Reaches(TeamEvent(CodeRemoved, {"team deleted"}, Whose(th))) /\ TeamEvent(CodeRemoved, {"team deleted"}, Whose(th)).team # All
      BY <2>2, TeamReportsReach
    <3> QED BY <2>1, <2>3, <3>1, TellKept
  <2>4. CASE Tell(ThreadEvent(CodeRemoved, "thread deleted", th))
    <3>1. Reaches(ThreadEvent(CodeRemoved, "thread deleted", th)) /\ ThreadEvent(CodeRemoved, "thread deleted", th).team # All
      BY <2>2, ThreadReportsReach
    <3> QED BY <2>1, <2>4, <3>1, TellKept
  <2> QED BY <1>3, <2>3, <2>4 DEF Disconnect
<1>4. ASSUME NEW th \in AnyThread, Exec(th)
      PROVE  NotificationsInductive'
  <2>1. UNCHANGED <<lists, wants>> /\ th \in Guest
        /\ Tell(TeamEvent(TeamExec, {"team created", "team deleted"}, th))
    BY <1>4 DEF Exec
  <2>2. Reaches(TeamEvent(TeamExec, {"team created", "team deleted"}, th)) /\ TeamEvent(TeamExec, {"team created", "team deleted"}, th).team # All
    BY <2>1, TeamReportsReach
  <2> QED BY <2>1, <2>2, TellKept
<1>5. ASSUME NEW th \in AnyThread, Rename(th)
      PROVE  NotificationsInductive'
  <2>1. UNCHANGED <<lists, wants>> /\ Tell(ThreadEvent(NameChanged, "thread properties", th))
    BY <1>5 DEF Rename
  <2>2. Reaches(ThreadEvent(NameChanged, "thread properties", th)) /\ ThreadEvent(NameChanged, "thread properties", th).team # All
    BY <2>1, ThreadReportsReach
  <2> QED BY <2>1, <2>2, TellKept
<1>6. ASSUME UNCHANGED notificationVars
      PROVE  NotificationsInductive'
  <2>1. lists' = lists /\ wants' = wants /\ event' = event /\ posts' = posts
    BY <1>6 DEF notificationVars
  <2>2. ListsKept'
    BY <2>1 DEF NotificationsInductive, ListsKept, Object
  <2>3. \A c \in Client : Told(c)' = Told(c)
    BY <2>1 DEF Told, TargetsAt
  <2> QED BY <2>1, <2>2, <2>3 DEF NotificationsInductive, ListenersTold, Object
<1> QED BY <1>1, <1>2, <1>3, <1>4, <1>5, <1>6 DEF NotificationsStep

\* Every event is told to those who asked for it, twice for each object that they asked
\* for: whatever was asked and given up before, however many messages it takes, and
\* whether or not the team of a listener is still there.
THEOREM ListenersAreTold == NotificationsSpec => []ListenersTold
<1>1. NotificationsInductive => ListenersTold
  BY DEF NotificationsInductive
<1> QED BY <1>1, NotificationsInitOK, NotificationsStepKept, PTL DEF NotificationsSpec
=============================================================================
