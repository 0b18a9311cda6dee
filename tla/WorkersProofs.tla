--------------------------- MODULE WorkersProofs ---------------------------
(***************************************************************************)
(* Proofs about two services that hand out what callers wait for.          *)
(*                                                                         *)
(* Workers: no slot of the pool is lost or made up, and none stays free    *)
(* while a thread is parked and nobody is up to take it, for every number  *)
(* of calls and every size of the pool.                                    *)
(*                                                                         *)
(* Messaging: what SendMessage accepted is read once and in order, and the *)
(* reader does not sleep over it, for every number and size of areas and   *)
(* of commands.                                                            *)
(***************************************************************************)
EXTENDS Workers, Messaging, TLAPS, FiniteSetTheorems, SequenceTheorems,
    FunctionTheorems, WellFoundedInduction, NaturalsInduction

\* Where a call goes on after the gate it holds a slot; after giving one back
\* it does not.
Heading ==
    \A t \in Task :
        /\ pc[t] = "new" => then[t] = "run"
        /\ pc[t] \in {"gate", "take"} => then[t] \in {"run", "woken", "finish"}
        /\ pc[t] \in {"giveBack", "notify"} => then[t] \in {"sleep", "nap", "done"}

\* A call that has been woken up with the mutex finds a permit: nobody else
\* can take one meanwhile.
PermitKept ==
    /\ \A t \in Task :
        (pc[t] = "woken" \/ (pc[t] \in {"gate", "take"} /\ then[t] = "woken"))
            => lock = t /\ permits > 0
    /\ \A t \in Task :
        pc[t] = "sleep" \/ (pc[t] \in {"giveBack", "notify"} /\ then[t] = "sleep")
            => lock = t

Holders == {t \in Task : Holding(t)}

WorkersInductive == TypeOK /\ Heading /\ PermitKept /\ SlotsConserved

\* One more holder and one off the counter leave the sum alone.
LEMMA HoldersGrow ==
    ASSUME NEW t \in Task, Holders' = Holders \cup {t}, t \notin Holders,
           remaining \in Int, SlotsConserved, remaining' = remaining - 1
    PROVE  SlotsConserved'
<1>1. IsFiniteSet(Holders)
  BY WorkersAssumption, FS_Subset DEF Holders
<1>2. Cardinality(Holders \cup {t}) = Cardinality(Holders) + 1 /\ Cardinality(Holders) \in Nat
  BY <1>1, FS_AddElement, FS_CardinalityType
<1>3. remaining + Cardinality(Holders) = Slots
  BY DEF SlotsConserved, Holders
<1>4. remaining' + Cardinality(Holders') = Slots
  BY <1>2, <1>3
<1> QED BY <1>4 DEF SlotsConserved, Holders

\* One holder less and one on the counter as well.
LEMMA HoldersShrink ==
    ASSUME NEW t \in Task, Holders' = Holders \ {t}, t \in Holders,
           remaining \in Int, SlotsConserved, remaining' = remaining + 1
    PROVE  SlotsConserved'
<1>1. IsFiniteSet(Holders)
  BY WorkersAssumption, FS_Subset DEF Holders
<1>2. Cardinality(Holders \ {t}) = Cardinality(Holders) - 1 /\ Cardinality(Holders) \in Nat
  BY <1>1, FS_RemoveElement, FS_CardinalityType
<1>3. remaining + Cardinality(Holders) = Slots
  BY DEF SlotsConserved, Holders
<1>4. remaining' + Cardinality(Holders') = Slots
  BY <1>2, <1>3
<1> QED BY <1>4 DEF SlotsConserved, Holders

\* And so does a step that changes neither.
LEMMA HoldersSame ==
    ASSUME Holders' = Holders, SlotsConserved, UNCHANGED remaining
    PROVE  SlotsConserved'
  BY DEF SlotsConserved, Holders

\* At the start nobody holds a slot.
LEMMA WorkersInit == Init => WorkersInductive
<1> SUFFICES ASSUME Init PROVE WorkersInductive
  OBVIOUS
<1>1. TypeOK
  BY WorkersAssumption DEF Init, TypeOK, PC
<1>2. Heading /\ PermitKept
  BY DEF Init, Heading, PermitKept
<1>3. {t \in Task : Holding(t)} = {}
  BY DEF Init, Holding
<1>4. SlotsConserved
  BY <1>3, FS_EmptySet, WorkersAssumption DEF Init, SlotsConserved
<1> QED BY <1>1, <1>2, <1>4 DEF WorkersInductive

\* The types and the control facts.
LEMMA WorkersControl ==
    ASSUME TypeOK, Heading, PermitKept, Next
    PROVE  TypeOK' /\ Heading' /\ PermitKept'
<1>a. PICK t \in Task : (\E k \in Kinds : Spawn(t, k)) \/ Worker(t)
  BY DEF Next
<1>n. None \notin Task /\ Kinds \subseteq Kind
  BY WorkersAssumption
<1> USE DEF TypeOK, Heading, PermitKept, PC, Goto, Via, pool, monitor
<1>1. ASSUME NEW k \in Kinds, Spawn(t, k) PROVE TypeOK' /\ Heading' /\ PermitKept'
  BY <1>1, <1>n DEF Spawn
<1>2. CASE Gate(t)
  BY <1>2 DEF Gate
<1>3. CASE Take(t)
  BY <1>3 DEF Take
<1>4. CASE GiveBack(t)
  BY <1>4 DEF GiveBack, AfterGiven
<1>5. CASE Notify(t)
  BY <1>5 DEF Notify, WakeOne
<1>6. CASE Plain(t)
  BY <1>6 DEF Plain
<1>7. CASE Nap(t)
  BY <1>7 DEF Nap
<1>8. CASE NapOver(t)
  BY <1>8 DEF NapOver
<1>9. CASE Release(t)
  BY <1>9, <1>n DEF Release
<1>10. CASE AcquireNow(t)
  BY <1>10, <1>n DEF AcquireNow
<1>11. CASE AcquireWait(t)
  BY <1>11, <1>n DEF AcquireWait
<1>12. CASE Sleep(t)
  BY <1>12, <1>n DEF Sleep
<1>13. CASE WakeUp(t)
  BY <1>13, <1>n DEF WakeUp, Tested
<1>14. CASE Woken(t)
  BY <1>14, <1>n DEF Woken
<1>15. CASE Finish(t)
  BY <1>15 DEF Finish
<1> QED
  BY <1>a, <1>1, <1>2, <1>3, <1>4, <1>5, <1>6, <1>7, <1>8, <1>9, <1>10, <1>11,
     <1>12, <1>13, <1>14, <1>15 DEF Worker

\* Only Take and GiveBack change the counter, and the set of calls that hold
\* a slot with it.
LEMMA WorkersConserve ==
    ASSUME TypeOK, Heading, SlotsConserved, Next
    PROVE  SlotsConserved'
<1>a. PICK t \in Task : (\E k \in Kinds : Spawn(t, k)) \/ Worker(t)
  BY DEF Next
<1>r. remaining \in Int
  BY DEF TypeOK
<1>1. CASE Take(t)
  <2>1. Holders' = Holders \cup {t} /\ t \notin Holders
    BY <1>1 DEF Take, Goto, Heading, Holders, Holding, TypeOK
  <2> QED BY <1>1, <1>r, <2>1, HoldersGrow DEF Take
<1>2. CASE GiveBack(t)
  <2>1. Holders' = Holders \ {t} /\ t \in Holders
    BY <1>2 DEF GiveBack, Goto, Holders, Holding, TypeOK
  <2> QED BY <1>2, <1>r, <2>1, HoldersShrink DEF GiveBack, AfterGiven
<1>3. ASSUME NEW k \in Kinds, Spawn(t, k) PROVE SlotsConserved'
  <2>1. Holders' = Holders
    BY <1>3 DEF Spawn, Holders, Holding, TypeOK
  <2> QED BY <1>3, <2>1, HoldersSame DEF Spawn, pool
<1>4. CASE Gate(t)
  <2>1. Holders' = Holders
    BY <1>4 DEF Gate, Goto, Holders, Holding, TypeOK
  <2> QED BY <1>4, <2>1, HoldersSame DEF Gate
<1>5. CASE Notify(t)
  <2>1. Holders' = Holders
    BY <1>5 DEF Notify, Goto, Heading, Holders, Holding, TypeOK
  <2> QED BY <1>5, <2>1, HoldersSame DEF Notify
<1>6. CASE Plain(t) \/ Nap(t) \/ NapOver(t) \/ Finish(t)
  <2>1. Holders' = Holders
    BY <1>6 DEF Plain, Nap, NapOver, Finish, Via, Holders, Holding, TypeOK
  <2> QED BY <1>6, <2>1, HoldersSame DEF Plain, Nap, NapOver, Finish, pool
<1>7. CASE Release(t) \/ AcquireNow(t) \/ AcquireWait(t) \/ Woken(t)
  <2>1. Holders' = Holders
    BY <1>7 DEF Release, AcquireNow, AcquireWait, Woken, Via, Holders, Holding, TypeOK
  <2> QED BY <1>7, <2>1, HoldersSame DEF Release, AcquireNow, AcquireWait, Woken, pool
<1>8. CASE Sleep(t) \/ WakeUp(t)
  <2>1. Holders' = Holders
    BY <1>8 DEF Sleep, WakeUp, Goto, Via, Holders, Holding, TypeOK
  <2> QED BY <1>8, <2>1, HoldersSame DEF Sleep, WakeUp, pool
<1> QED
  BY <1>a, <1>1, <1>2, <1>3, <1>4, <1>5, <1>6, <1>7, <1>8 DEF Worker

\* The invariant is inductive.
LEMMA WorkersStep ==
    ASSUME WorkersInductive, [Next]_vars
    PROVE  WorkersInductive'
<1>1. CASE UNCHANGED vars
  <2>1. TypeOK' /\ Heading' /\ PermitKept'
    BY <1>1 DEF WorkersInductive, vars, TypeOK, Heading, PermitKept
  <2>2. Holders' = Holders
    BY <1>1 DEF vars, Holders, Holding
  <2>3. SlotsConserved'
    BY <1>1, <2>2, HoldersSame DEF WorkersInductive, vars
  <2> QED BY <2>1, <2>3 DEF WorkersInductive
<1>2. CASE Next
  BY <1>2, WorkersControl, WorkersConserve DEF WorkersInductive
<1> QED BY <1>1, <1>2

-----------------------------------------------------------------------------
\* The counter of the pool, the calls and the monitor keep their types; a
\* call that was woken up never drives the permits below 0.
THEOREM WorkersTypeCorrect == Spec => []TypeOK
<1>1. WorkersInductive => TypeOK
  BY DEF WorkersInductive
<1> QED BY WorkersInit, WorkersStep, <1>1, PTL DEF Spec

\* server_remaining_workers and the calls that hold a slot always add up to
\* the size of the pool.
THEOREM WorkersConserveSlots == Spec => []SlotsConserved
<1>1. WorkersInductive => SlotsConserved
  BY DEF WorkersInductive
<1> QED BY WorkersInit, WorkersStep, <1>1, PTL DEF Spec

-----------------------------------------------------------------------------
(* No slot is idle while a thread is parked. *)

\* The threads that are up at the pool: they will take a slot, or wake one of
\* the parked ones.
Up == {t \in Task : pc[t] \in {"take", "notify"} \/ (pc[t] = "gate" /\ t \notin parked)}

\* NoIdleSlot alone is not inductive: one of two free slots may be taken by the
\* only thread that is up.  What the pool keeps is stronger: while somebody is
\* parked there are as many threads up as there are free slots.
ParkedAtGate == \A t \in parked : pc[t] = "gate"
SlotsSpokenFor == parked # {} => remaining <= Cardinality(Up)

\* What a step does to the number of threads that are up.
LEMMA UpCounts ==
    /\ IsFiniteSet(Up) /\ Cardinality(Up) \in Nat
    /\ IsFiniteSet(Up') /\ Cardinality(Up') \in Nat
    /\ Up \subseteq Up' => Cardinality(Up) <= Cardinality(Up')
    /\ \A t : t \notin Up /\ Up' = Up \cup {t} => Cardinality(Up') = Cardinality(Up) + 1
    /\ \A t : t \in Up /\ Up' = Up \ {t} => Cardinality(Up') = Cardinality(Up) - 1
<1>1. IsFiniteSet(Up)
  BY WorkersAssumption, FS_Subset DEF Up
<1>2. IsFiniteSet(Up')
  BY WorkersAssumption, FS_Subset DEF Up
<1>3. Up \subseteq Up' => Cardinality(Up) <= Cardinality(Up')
  BY <1>2, FS_Subset
<1>4. \A t : t \notin Up /\ Up' = Up \cup {t} => Cardinality(Up') = Cardinality(Up) + 1
  BY <1>1, FS_AddElement
<1>5. \A t : t \in Up /\ Up' = Up \ {t} => Cardinality(Up') = Cardinality(Up) - 1
  BY <1>1, FS_RemoveElement
<1> QED BY <1>1, <1>2, <1>3, <1>4, <1>5, FS_CardinalityType

\* notify_one puts a parked thread in the place of the one that notifies.
LEMMA UpPassedOn ==
    ASSUME NEW t \in Up, NEW u, u \notin Up, Up' = (Up \ {t}) \cup {u}
    PROVE  Cardinality(Up') = Cardinality(Up)
<1>1. IsFiniteSet(Up)
  BY WorkersAssumption, FS_Subset DEF Up
<1>2. IsFiniteSet(Up \ {t}) /\ Cardinality(Up \ {t}) = Cardinality(Up) - 1
  BY <1>1, FS_RemoveElement
<1>3. u \notin Up \ {t}
  OBVIOUS
<1>4. Cardinality((Up \ {t}) \cup {u}) = Cardinality(Up \ {t}) + 1
  BY <1>2, <1>3, FS_AddElement
<1> QED BY <1>1, <1>2, <1>4, FS_CardinalityType

\* Every step keeps the slots spoken for.
LEMMA WorkersSpeak ==
    ASSUME TypeOK, Heading, ParkedAtGate, SlotsSpokenFor, Next
    PROVE  ParkedAtGate' /\ SlotsSpokenFor'
<1>a. PICK t \in Task : (\E k \in Kinds : Spawn(t, k)) \/ Worker(t)
  BY DEF Next
<1>r. remaining \in Int
  BY DEF TypeOK
\* A step that leaves the counter and the parked threads alone, and everybody up
\* who was.
<1>q. ASSUME UNCHANGED pool, Up \subseteq Up' PROVE SlotsSpokenFor'
  BY <1>q, <1>r, UpCounts DEF pool, SlotsSpokenFor
<1>1. ASSUME NEW k \in Kinds, Spawn(t, k) PROVE ParkedAtGate' /\ SlotsSpokenFor'
  <2>1. ParkedAtGate' /\ Up \subseteq Up' /\ UNCHANGED pool
    BY <1>1 DEF Spawn, pool, ParkedAtGate, Up, TypeOK
  <2> QED BY <2>1, <1>q
<1>2. CASE Gate(t)
  <2>1. ParkedAtGate'
    BY <1>2 DEF Gate, Goto, ParkedAtGate, TypeOK
  <2>2. CASE remaining = 0
    <3>1. remaining' = 0 /\ Cardinality(Up') \in Nat
      BY <1>2, <2>2, UpCounts DEF Gate
    <3> QED BY <2>1, <3>1 DEF SlotsSpokenFor
  <2>3. CASE remaining # 0
    <3>1. Up \subseteq Up' /\ UNCHANGED pool
      BY <1>2, <2>3 DEF Gate, Goto, pool, Up, TypeOK
    <3> QED BY <3>1, <1>q, <2>1
  <2> QED BY <2>1, <2>2, <2>3
<1>3. CASE Take(t)
  <2>1. ParkedAtGate' /\ t \in Up /\ Up' = Up \ {t} /\ UNCHANGED parked
    BY <1>3 DEF Take, Goto, Heading, ParkedAtGate, Up, TypeOK
  <2>2. Cardinality(Up') = Cardinality(Up) - 1 /\ Cardinality(Up) \in Nat
    BY <2>1, UpCounts
  <2>3. remaining' = remaining - 1
    BY <1>3 DEF Take
  <2> QED BY <1>r, <2>1, <2>2, <2>3 DEF SlotsSpokenFor
<1>4. CASE GiveBack(t)
  <2>1. ParkedAtGate' /\ t \notin Up /\ Up' = Up \cup {t} /\ UNCHANGED parked
    BY <1>4 DEF GiveBack, Goto, ParkedAtGate, Up, TypeOK
  <2>2. Cardinality(Up') = Cardinality(Up) + 1 /\ Cardinality(Up) \in Nat
    BY <2>1, UpCounts
  <2>3. remaining' = remaining + 1
    BY <1>4 DEF GiveBack, AfterGiven
  <2> QED BY <1>r, <2>1, <2>2, <2>3 DEF SlotsSpokenFor
<1>5. CASE Notify(t)
  <2>1. ParkedAtGate'
    BY <1>5 DEF Notify, WakeOne, Goto, ParkedAtGate, TypeOK
  <2>2. CASE parked = {}
    BY <1>5, <2>1, <2>2 DEF Notify, WakeOne, SlotsSpokenFor
  <2>3. CASE parked # {}
    <3>1. PICK u \in parked : parked' = parked \ {u}
      BY <1>5, <2>3 DEF Notify, WakeOne
    <3>2. t \in Up /\ u \notin Up /\ Up' = (Up \ {t}) \cup {u}
      BY <1>5, <3>1 DEF Notify, Goto, Heading, ParkedAtGate, Up, TypeOK
    <3>3. Cardinality(Up') = Cardinality(Up)
      BY <3>2, UpPassedOn
    <3> QED BY <1>5, <2>1, <3>1, <3>3 DEF Notify, SlotsSpokenFor
  <2> QED BY <2>2, <2>3
<1>6. CASE Plain(t) \/ Nap(t) \/ NapOver(t) \/ Finish(t)
  <2>1. ParkedAtGate' /\ Up \subseteq Up' /\ UNCHANGED pool
    BY <1>6 DEF Plain, Nap, NapOver, Finish, Via, pool, ParkedAtGate, Up, TypeOK
  <2> QED BY <2>1, <1>q
<1>7. CASE Release(t) \/ AcquireNow(t) \/ AcquireWait(t) \/ Woken(t)
  <2>1. ParkedAtGate' /\ Up \subseteq Up' /\ UNCHANGED pool
    BY <1>7 DEF Release, AcquireNow, AcquireWait, Woken, Via, pool, ParkedAtGate, Up, TypeOK
  <2> QED BY <2>1, <1>q
<1>8. CASE Sleep(t) \/ WakeUp(t)
  <2>1. ParkedAtGate' /\ Up \subseteq Up' /\ UNCHANGED pool
    BY <1>8 DEF Sleep, WakeUp, Goto, Via, pool, ParkedAtGate, Up, TypeOK
  <2> QED BY <2>1, <1>q
<1> QED
  BY <1>a, <1>1, <1>2, <1>3, <1>4, <1>5, <1>6, <1>7, <1>8 DEF Worker

PoolInductive == WorkersInductive /\ ParkedAtGate /\ SlotsSpokenFor

\* server_remaining_workers.wait(0) and notify_one lose no wake-up: as long as a
\* thread is parked beside a free slot, another is up that will take a slot or
\* notify, for every number of calls and every size of the pool.
THEOREM WorkersNoIdleSlot == Spec => []NoIdleSlot
<1>1. Init => PoolInductive
  BY WorkersInit DEF PoolInductive, Init, ParkedAtGate, SlotsSpokenFor
<1>2. PoolInductive /\ [Next]_vars => PoolInductive'
  <2> SUFFICES ASSUME PoolInductive, [Next]_vars PROVE PoolInductive'
    OBVIOUS
  <2>1. WorkersInductive'
    BY WorkersStep DEF PoolInductive
  <2>2. CASE UNCHANGED vars
    BY <2>1, <2>2 DEF PoolInductive, vars, ParkedAtGate, SlotsSpokenFor, Up
  <2>3. CASE Next
    BY <2>1, <2>3, WorkersSpeak DEF PoolInductive, WorkersInductive
  <2> QED BY <2>2, <2>3
<1>3. PoolInductive => NoIdleSlot
  <2> SUFFICES ASSUME PoolInductive, remaining > 0, parked # {}
               PROVE  Up # {}
    BY DEF NoIdleSlot, Up
  <2>1. remaining <= Cardinality(Up) /\ remaining \in Int
    BY DEF PoolInductive, SlotsSpokenFor, WorkersInductive, TypeOK
  <2>2. Cardinality(Up) # 0
    BY <2>1, UpCounts
  <2> QED BY <2>2, FS_EmptySet
<1> QED BY <1>1, <1>2, <1>3, PTL DEF Spec

-----------------------------------------------------------------------------
(* The messaging service *)

LEMMA LeastNumber ==
    ASSUME NEW S \in SUBSET Nat, S # {}
    PROVE  \E x \in S : \A y \in S : x <= y
<1> DEFINE LT == OpToRel(<, Nat)
<1>1. IsWellFoundedOn(LT, Nat)
  BY NatLessThanWellFounded, Zenon
<1>2. \A x, y \in Nat : y < x => <<y, x>> \in LT
  BY DEF OpToRel
<1> HIDE DEF LT
<1>3. \E x \in S : \A y \in S : ~ (<<y, x>> \in LT)
  BY <1>1, WFMin
<1>4. PICK x \in S : \A y \in S : ~ (<<y, x>> \in LT)
  BY <1>3
<1>5. \A y \in S : ~ (y < x)
  BY <1>2, <1>4
<1> QED BY <1>5

-----------------------------------------------------------------------------
(* One area: the commands b + 1 to b + r.count lie at the places at, in the order of a ring. *)

LEMMA Aligned ==
    ASSUME NEW n \in Nat
    PROVE  /\ Align(n) \in Nat /\ n <= Align(n) /\ Align(n) % 4 = 0
           /\ \A m \in Nat : m % 4 = 0 => (m + Align(n)) % 4 = 0
           /\ \A m \in Nat, l \in Nat : m % 4 = 0 /\ l % 4 = 0 /\ n <= m - l => l + Align(n) <= m
  BY DEF Align

End(at, sz, j) == at[j] + Align(sz[j])

LEMMA EndFacts ==
    ASSUME NEW at \in [Nat -> Nat], NEW sz \in [Nat -> Nat], NEW j \in Nat
    PROVE  /\ End(at, sz, j) \in Nat /\ at[j] \in Nat /\ sz[j] \in Nat /\ at[j] + sz[j] <= End(at, sz, j)
           /\ at[j] % 4 = 0 => End(at, sz, j) % 4 = 0
<1>1. at[j] \in Nat /\ sz[j] \in Nat
  OBVIOUS
<1>2. Align(sz[j]) \in Nat /\ sz[j] <= Align(sz[j])
      /\ (at[j] % 4 = 0 => (at[j] + Align(sz[j])) % 4 = 0)
  BY <1>1, Aligned
<1> QED BY <1>1, <1>2 DEF End

\* Commands l to h lie one after the other, from the place of the first round to it.
Ordered(at, sz, l, h) ==
    \A i, j \in l..h : i < j =>
        IF at[l] <= at[j] THEN at[l] <= at[i] /\ End(at, sz, i) <= at[j]
        ELSE /\ End(at, sz, j) <= at[l]
             /\ at[i] < at[l] => End(at, sz, i) <= at[j]

Command(r, at, sz, j, h) ==
    /\ HeaderSize <= at[j] /\ at[j] % 4 = 0 /\ End(at, sz, j) <= AreaSize
    /\ CommandSize <= sz[j]
    /\ r.cmds[at[j]] = [next |-> IF j = h THEN 0 ELSE at[j + 1], size |-> sz[j], msg |-> j]

Header(r) ==
    /\ DOMAIN r = {"lock", "next", "count", "first", "last", "cmds"}
    /\ r.lock \in Int

RingOK(r, b, at, sz) ==
    /\ r.count \in Nat
    /\ DOMAIN r.cmds = {at[j] : j \in (b + 1)..(b + r.count)}
    /\ r.count = 0 => r.first = 0
    /\ r.count > 0 => r.first = at[b + 1] /\ r.last = at[b + r.count]
    /\ \A j \in (b + 1)..(b + r.count) : Command(r, at, sz, j, b + r.count)
    /\ Ordered(at, sz, b + 1, b + r.count)

\* The first command goes: what follows is in order from the second one on.
LEMMA OrderedRest ==
    ASSUME NEW at \in [Nat -> Nat], NEW sz \in [Nat -> Nat], NEW l \in Nat, NEW h \in Nat,
           Ordered(at, sz, l, h), \A j \in l..h : CommandSize <= sz[j]
    PROVE  Ordered(at, sz, l + 1, h)
<1> DEFINE e == [j \in Nat |-> End(at, sz, j)]
<1>1. \A j \in Nat : e[j] = End(at, sz, j) /\ e[j] \in Nat /\ at[j] + sz[j] <= e[j]
  BY EndFacts
<1>2. \A j \in l..h : at[j] < e[j]
  BY <1>1, MessagingAssumption
<1> HIDE DEF e
<1>3. \A i, j \in l..h : i < j =>
        IF at[l] <= at[j] THEN at[l] <= at[i] /\ e[i] <= at[j]
        ELSE e[j] <= at[l] /\ (at[i] < at[l] => e[i] <= at[j])
  BY <1>1 DEF Ordered
<1>4. ASSUME NEW i \in (l + 1)..h, NEW j \in (l + 1)..h, i < j
      PROVE  IF at[l + 1] <= at[j] THEN at[l + 1] <= at[i] /\ e[i] <= at[j]
             ELSE e[j] <= at[l + 1] /\ (at[i] < at[l + 1] => e[i] <= at[j])
  <2>1. l \in l..h /\ l + 1 \in l..h /\ i \in l..h /\ j \in l..h /\ l < l + 1 /\ l + 1 < j /\ (i = l + 1 \/ l + 1 < i)
    BY <1>4
  <2> DEFINE ok(x, y) == IF at[l] <= at[y] THEN at[l] <= at[x] /\ e[x] <= at[y]
                         ELSE e[y] <= at[l] /\ (at[x] < at[l] => e[x] <= at[y])
  <2>2. ok(l, l + 1) /\ ok(l + 1, j) /\ ok(i, j) /\ (i # l + 1 => ok(l + 1, i)) /\ ok(l, i) /\ ok(l, j)
    BY <2>1, <1>3, <1>4
  <2>3. \A x \in {l, l + 1, i, j} : at[x] \in Nat /\ e[x] \in Nat /\ at[x] < e[x]
    BY <2>1, <1>1, <1>2
  <2>4. \A x \in {l, l + 1, i, j} : at[x] \in Nat
    OBVIOUS
  <2>5. CASE at[l] <= at[l + 1]
    BY <2>1, <2>2, <2>3, <2>5, <1>4
  <2>6. CASE at[l + 1] < at[l]
    BY <2>1, <2>2, <2>3, <2>6, <1>4
  <2> QED BY <2>4, <2>5, <2>6
<1>5. \A j \in (l + 1)..h : j \in Nat
  OBVIOUS
<1> QED BY <1>1, <1>4, <1>5 DEF Ordered

\* Where a command goes: aligned, inside the area, in order after the others, and over none.
LEMMA OffsetFits ==
    ASSUME NEW r, NEW b \in Nat, NEW at \in [Nat -> Nat], NEW sz \in [Nat -> Nat],
           RingOK(r, b, at, sz), NEW size \in Nat, CommandSize <= size, size <= AreaSize - HeaderSize,
           Offset(r, size) # NoRoom
    PROVE  LET o == Offset(r, size)
               h == b + r.count
           IN  /\ o \in Nat /\ HeaderSize <= o /\ o % 4 = 0 /\ o + Align(size) <= AreaSize
               /\ \A j \in (b + 1)..h : End(at, sz, j) <= o \/ o + Align(size) <= at[j]
               /\ \A i \in (b + 1)..h :
                    IF at[b + 1] <= o THEN at[b + 1] <= at[i] /\ End(at, sz, i) <= o
                    ELSE /\ o + Align(size) <= at[b + 1]
                         /\ at[i] < at[b + 1] => End(at, sz, i) <= o
<1>0. AreaSize \in Nat /\ HeaderSize \in Nat /\ HeaderSize > 0 /\ CommandSize \in Nat /\ CommandSize > 0
  BY MessagingAssumption
<1>a. AreaSize % 4 = 0 /\ HeaderSize % 4 = 0
  BY MessagingAssumption
<1> DEFINE o == Offset(r, size)
           h == b + r.count
           A == Align(size)
           e == [j \in Nat |-> End(at, sz, j)]
<1>1. \A j \in Nat : e[j] = End(at, sz, j) /\ e[j] \in Nat /\ at[j] + sz[j] <= e[j] /\ (at[j] % 4 = 0 => e[j] % 4 = 0)
  BY EndFacts
<1>2. A \in Nat /\ size <= A /\ (\A m, l \in Nat : m % 4 = 0 /\ l % 4 = 0 /\ size <= m - l => l + A <= m)
  BY Aligned
<1>b. \A l \in Nat : (l % 4 = 0 /\ size <= AreaSize - l => l + A <= AreaSize)
                   /\ (l % 4 = 0 /\ size <= l - HeaderSize => HeaderSize + A <= l)
  BY <1>0, <1>a, <1>2
<1>3. r.count \in Nat /\ h \in Nat
  BY DEF RingOK
<1>4. CASE r.count = 0
  <2>1. o = HeaderSize
    BY <1>4 DEF Offset
  <2>2. o + A <= AreaSize
    BY <2>1, <1>0, <1>a, <1>b
  <2> QED BY <2>1, <2>2, <1>0, <1>a, <1>3, <1>4
<1>5. CASE r.count # 0
  <2> DEFINE l == b + 1
             end == r.last + Align(r.cmds[r.last].size)
  <2>1. l \in l..h /\ h \in l..h /\ r.first = at[l] /\ r.last = at[h] /\ l \in Nat
    BY <1>3, <1>5 DEF RingOK
  <2> HIDE DEF e
  <2>2. \A j \in l..h : /\ HeaderSize <= at[j] /\ at[j] % 4 = 0 /\ e[j] <= AreaSize /\ at[j] < e[j]
                        /\ r.cmds[at[j]].size = sz[j] /\ j \in Nat
    <3> TAKE j \in l..h
    <3>1. j \in Nat /\ Command(r, at, sz, j, h)
      BY <1>3 DEF RingOK
    <3>2. r.cmds[at[j]].size = sz[j]
      BY <3>1 DEF Command
    <3>3. e[j] = End(at, sz, j) /\ e[j] \in Nat /\ at[j] + sz[j] <= e[j] /\ at[j] \in Nat /\ sz[j] \in Nat
      <4>1. j \in Nat
        BY <3>1
      <4> QED BY <4>1, <1>1
    <3> QED BY <3>1, <3>2, <3>3, <1>0 DEF Command
  <2>3. end = e[h]
    BY <2>1, <2>2, <1>1 DEF End
  <2>4. o = IF at[l] <= at[h]
            THEN IF size <= AreaSize - e[h] THEN e[h]
                 ELSE IF size <= at[l] - HeaderSize THEN HeaderSize ELSE NoRoom
            ELSE IF size <= at[l] - e[h] THEN e[h] ELSE NoRoom
    BY <2>1, <2>3, <1>5 DEF Offset, NoRoom
  <2>5. \A i, j \in l..h : i < j =>
        IF at[l] <= at[j] THEN at[l] <= at[i] /\ e[i] <= at[j]
        ELSE e[j] <= at[l] /\ (at[i] < at[l] => e[i] <= at[j])
    <3>1. Ordered(at, sz, l, h)
      BY DEF RingOK
    <3>2. \A j \in l..h : j \in Nat
      BY <1>3
    <3> QED BY <3>1, <3>2, <1>1 DEF Ordered
  <2>6. at[l] \in Nat /\ at[h] \in Nat /\ e[h] \in Nat /\ at[l] % 4 = 0 /\ e[h] % 4 = 0 /\ HeaderSize <= at[l]
    BY <2>1, <2>2, <1>1, <1>3
  <2>c. at[l] \in Nat /\ at[h] \in Nat /\ e[h] \in Nat /\ e[l] \in Nat /\ HeaderSize <= at[l] /\ HeaderSize <= at[h]
        /\ at[l] < e[l] /\ at[h] < e[h] /\ e[l] <= AreaSize
    BY <2>1, <2>2, <1>1, <1>3
  <2> HIDE DEF o, e, A, h, l, end
  <2>7. \/ at[l] <= at[h] /\ o = e[h] /\ o + A <= AreaSize
        \/ at[l] <= at[h] /\ o = HeaderSize /\ o + A <= at[l]
        \/ at[h] < at[l] /\ o = e[h] /\ o + A <= at[l]
    <3>1. CASE at[l] <= at[h] /\ size <= AreaSize - e[h]
      BY <3>1, <2>4, <2>6, <1>b
    <3>2. CASE at[l] <= at[h] /\ ~(size <= AreaSize - e[h]) /\ size <= at[l] - HeaderSize
      BY <3>2, <2>4, <2>6, <1>b
    <3>3. CASE ~(at[l] <= at[h]) /\ size <= at[l] - e[h]
      <4>1. o = e[h]
        BY <3>3, <2>4
      <4>2. e[h] + A <= at[l]
        BY <3>3, <2>6, <1>2
      <4> QED BY <4>1, <4>2, <3>3, <2>c
    <3>4. o # NoRoom
      BY DEF o
    <3> QED BY <3>1, <3>2, <3>3, <3>4, <2>4
  <2>8. o \in Nat /\ HeaderSize <= o /\ o % 4 = 0 /\ o + A <= AreaSize
    <3>1. o \in Nat /\ HeaderSize <= o /\ o + A <= AreaSize
      BY <2>c, <2>7, <1>2, <1>0
    <3>2. o % 4 = 0
      BY <2>7, <2>6, <1>a
    <3> QED BY <3>1, <3>2
  <2>d. o \in Nat /\ A \in Nat /\ CommandSize <= A /\ 0 < A
    BY <2>8, <1>2, <1>0
  <2>9. ASSUME NEW i \in l..h
        PROVE  /\ e[i] <= o \/ o + A <= at[i]
               /\ IF at[l] <= o THEN at[l] <= at[i] /\ e[i] <= o
                  ELSE o + A <= at[l] /\ (at[i] < at[l] => e[i] <= o)
    <3>1. at[i] \in Nat /\ e[i] \in Nat /\ at[i] < e[i] /\ at[h] < e[h]
      BY <2>1, <2>2, <1>1
    <3>2. i = h \/ i < h
      BY <2>1, <1>3
    <3>3. CASE i = h
      <4>1. e[i] = e[h] /\ at[i] = at[h]
        BY <3>3
      <4>2. CASE at[l] <= at[h] /\ o = e[h]
        BY <4>1, <4>2, <3>1, <2>c, <2>d, <1>2
      <4>3. CASE at[l] <= at[h] /\ o = HeaderSize /\ o + A <= at[l]
        BY <4>1, <4>3, <3>1, <2>c, <2>d, <1>2
      <4>4. CASE at[h] < at[l] /\ o = e[h] /\ o + A <= at[l]
        BY <4>1, <4>4, <3>1, <2>c, <2>d, <1>2
      <4> QED BY <4>2, <4>3, <4>4, <2>7
    <3>4. CASE i < h
      <4>1. IF at[l] <= at[h] THEN at[l] <= at[i] /\ e[i] <= at[h]
            ELSE e[h] <= at[l] /\ (at[i] < at[l] => e[i] <= at[h])
        BY <3>4, <2>1, <2>5
      <4>2. CASE at[l] <= at[h] /\ o = e[h]
        BY <4>1, <4>2, <3>1, <2>c, <2>d, <1>2
      <4>3. CASE at[l] <= at[h] /\ o = HeaderSize /\ o + A <= at[l]
        BY <4>1, <4>3, <3>1, <2>c, <2>d, <1>2
      <4>4. CASE at[h] < at[l] /\ o = e[h] /\ o + A <= at[l]
        BY <4>1, <4>4, <3>1, <2>c, <2>d, <1>2
      <4> QED BY <4>2, <4>3, <4>4, <2>7
    <3> QED BY <3>2, <3>3, <3>4
  <2> QED BY <2>8, <2>9, <1>1, <2>2 DEF o, A, h, l
<1> QED BY <1>4, <1>5

\* A command that comes later, elsewhere, is nothing to an area.
LEMMA RingKeeps ==
    ASSUME NEW r, NEW b \in Nat, NEW at \in [Nat -> Nat], NEW sz \in [Nat -> Nat],
           RingOK(r, b, at, sz), NEW n \in Nat, b + r.count < n, NEW o, NEW size
    PROVE  RingOK(r, b, [at EXCEPT ![n] = o], [sz EXCEPT ![n] = size])
<1> DEFINE at2 == [at EXCEPT ![n] = o]
           sz2 == [sz EXCEPT ![n] = size]
           h == b + r.count
<1>1. r.count \in Nat /\ h \in Nat
  BY DEF RingOK
<1>2. \A j \in (b + 1)..h : j \in Nat /\ at2[j] = at[j] /\ sz2[j] = sz[j] /\ (j # h => at2[j + 1] = at[j + 1])
  BY <1>1
<1> HIDE DEF at2, sz2
<1>3. \A j \in (b + 1)..h : End(at2, sz2, j) = End(at, sz, j)
  BY <1>2 DEF End
<1>4. \A j \in (b + 1)..h : Command(r, at2, sz2, j, h)
  <2> TAKE j \in (b + 1)..h
  <2>1. Command(r, at, sz, j, h)
    BY DEF RingOK
  <2> QED BY <2>1, <1>2, <1>3 DEF Command
<1>5. Ordered(at2, sz2, b + 1, h)
  <2>1. Ordered(at, sz, b + 1, h)
    BY DEF RingOK
  <2>2. \A j \in (b + 1)..h : b + 1 \in (b + 1)..h
    BY <1>1
  <2> QED BY <2>1, <2>2, <1>2, <1>3 DEF Ordered
<1>6. DOMAIN r.cmds = {at2[j] : j \in (b + 1)..h}
  BY SMTT(30), <1>2 DEF RingOK
<1>7. r.count > 0 => b + 1 \in (b + 1)..h /\ h \in (b + 1)..h
  BY <1>1
<1>8. r.count > 0 => r.first = at2[b + 1] /\ r.last = at2[h]
  BY <1>2, <1>7 DEF RingOK
<1> QED BY <1>1, <1>4, <1>5, <1>6, <1>8 DEF RingOK, at2, sz2

\* An area of which the reader takes the first command
LEMMA RingPops ==
    ASSUME NEW r, Header(r), NEW b \in Nat, NEW at \in [Nat -> Nat], NEW sz \in [Nat -> Nat],
           RingOK(r, b, at, sz), r.count > 0
    PROVE  /\ r.first \in DOMAIN r.cmds /\ r.cmds[r.first].msg = b + 1
           /\ LET q == PopCommand(r)
              IN  /\ Header(q) /\ q.lock = r.lock /\ q.next = r.next /\ q.count = r.count - 1
                  /\ RingOK(q, b + 1, at, sz)
<1> DEFINE h == b + r.count
           q == PopCommand(r)
           f == r.first
<1>0. CommandSize \in Nat /\ CommandSize > 0
  BY MessagingAssumption
<1>1. r.count \in Nat /\ h \in Nat /\ b + 1 \in (b + 1)..h /\ h \in (b + 1)..h
  BY DEF RingOK
<1>2. f = at[b + 1] /\ r.last = at[h] /\ DOMAIN r.cmds = {at[j] : j \in (b + 1)..h}
  BY <1>1 DEF RingOK
<1>3. \A j \in (b + 1)..h : j \in Nat /\ Command(r, at, sz, j, h)
  BY <1>1 DEF RingOK
<1>4. f \in DOMAIN r.cmds /\ r.cmds[f] = [next |-> IF b + 1 = h THEN 0 ELSE at[b + 2], size |-> sz[b + 1], msg |-> b + 1]
  BY <1>1, <1>2, <1>3 DEF Command
<1>5. /\ DOMAIN q = DOMAIN r /\ q.lock = r.lock /\ q.next = r.next /\ q.count = r.count - 1 /\ q.last = r.last
      /\ q.first = r.cmds[f].next
      /\ q.cmds = [x \in DOMAIN r.cmds \ {f} |-> r.cmds[x]]
  BY DEF PopCommand, Header, Restrict
<1> HIDE DEF q, f
<1>6. Header(q)
  BY <1>5 DEF Header
<1>7. q.first = IF r.count = 1 THEN 0 ELSE at[b + 2]
  BY SMTT(30), <1>4, <1>5, <1>1
<1>8. \A j \in (b + 2)..h : at[j] # f /\ j \in (b + 1)..h
  <2> TAKE j \in (b + 2)..h
  <2>1. j \in (b + 1)..h /\ b + 1 < j /\ j \in Nat /\ b + 1 \in Nat
    BY <1>1
  <2>2. Ordered(at, sz, b + 1, h)
    BY DEF RingOK
  <2>3. /\ at[b + 1] <= at[j] => End(at, sz, b + 1) <= at[j]
        /\ CommandSize <= sz[b + 1]
    BY <2>1, <2>2, <1>1, <1>3 DEF Ordered, Command
  <2>4. at[b + 1] + sz[b + 1] <= End(at, sz, b + 1) /\ End(at, sz, b + 1) \in Nat /\ at[j] \in Nat
        /\ at[b + 1] \in Nat /\ sz[b + 1] \in Nat
    BY <2>1, EndFacts
  <2> QED BY <2>1, <2>3, <2>4, <1>0, <1>2
<1>9. (b + 1) + q.count = h /\ q.count \in Nat /\ (b + 1) + 1 = b + 2
  BY <1>1, <1>5
<1>10. \A j \in (b + 1)..h : j = b + 1 \/ j \in (b + 2)..h
  BY <1>1
<1>11. DOMAIN q.cmds = {at[j] : j \in (b + 2)..h}
  BY <1>2, <1>5, <1>8, <1>10
<1>12. \A j \in (b + 2)..h : Command(q, at, sz, j, h)
  <2> TAKE j \in (b + 2)..h
  <2>1. Command(r, at, sz, j, h) /\ at[j] # f /\ at[j] \in DOMAIN r.cmds
    BY <1>2, <1>3, <1>8
  <2>2. q.cmds[at[j]] = r.cmds[at[j]]
    BY <2>1, <1>5
  <2> QED BY <2>1, <2>2 DEF Command
<1>13. Ordered(at, sz, (b + 1) + 1, h)
  <2>1. Ordered(at, sz, b + 1, h)
    BY DEF RingOK
  <2>2. \A j \in (b + 1)..h : CommandSize <= sz[j]
    BY <1>3 DEF Command
  <2>3. b + 1 \in Nat
    OBVIOUS
  <2> QED BY <2>1, <2>2, <2>3, <1>1, OrderedRest
<1>14. q.count = 0 => q.first = 0
  BY <1>5, <1>7, <1>1
<1>15. q.count > 0 => q.first = at[b + 2] /\ q.last = at[h]
  BY <1>2, <1>5, <1>7, <1>1
<1>16. RingOK(q, b + 1, at, sz)
  BY <1>9, <1>11, <1>12, <1>13, <1>14, <1>15 DEF RingOK
<1> QED BY <1>4, <1>5, <1>6, <1>16 DEF q, f

\* An area into which one more command goes, the last of all
Grown(r, b, at, sz, size, n) ==
    LET q == AllocateCommand(r, size, n)
    IN  /\ Header(q) /\ q.lock = r.lock /\ q.next = r.next /\ q.count = r.count + 1
        /\ Offset(r, size) \in Nat
        /\ RingOK(q, b, [at EXCEPT ![n] = Offset(r, size)], [sz EXCEPT ![n] = size])

LEMMA RingGrows ==
    ASSUME NEW r, Header(r), NEW b \in Nat, NEW at \in [Nat -> Nat], NEW sz \in [Nat -> Nat],
           RingOK(r, b, at, sz), NEW size \in Nat, CommandSize <= size, size <= AreaSize - HeaderSize,
           Offset(r, size) # NoRoom, NEW n, n = b + r.count + 1
    PROVE  Grown(r, b, at, sz, size, n)
<1> DEFINE o == Offset(r, size)
           h == b + r.count
           q == AllocateCommand(r, size, n)
           at2 == [at EXCEPT ![n] = o]
           sz2 == [sz EXCEPT ![n] = size]
           hit == {p \in DOMAIN r.cmds : Span(p, r.cmds[p].size) \cap Span(o, size) # {}}
           linked == IF r.count = 0 THEN r.cmds ELSE [r.cmds EXCEPT ![r.last].next = o]
           rest == Restrict(linked, DOMAIN linked \ hit)
<1>0. CommandSize \in Nat /\ CommandSize > 0
  BY MessagingAssumption
<1>1. r.count \in Nat /\ h \in Nat /\ n \in Nat /\ n = h + 1
  BY DEF RingOK
<1>2. /\ o \in Nat /\ HeaderSize <= o /\ o % 4 = 0 /\ o + Align(size) <= AreaSize
      /\ \A j \in (b + 1)..h : End(at, sz, j) <= o \/ o + Align(size) <= at[j]
      /\ \A i \in (b + 1)..h :
           IF at[b + 1] <= o THEN at[b + 1] <= at[i] /\ End(at, sz, i) <= o
           ELSE /\ o + Align(size) <= at[b + 1]
                /\ at[i] < at[b + 1] => End(at, sz, i) <= o
  BY OffsetFits
<1>3. DOMAIN r.cmds = {at[j] : j \in (b + 1)..h}
  BY DEF RingOK
<1>4. \A j \in (b + 1)..h : j \in Nat /\ Command(r, at, sz, j, h)
  BY <1>1 DEF RingOK
<1> HIDE DEF o
<1>5. \A j \in (b + 1)..h : at[j] # o /\ Span(at[j], r.cmds[at[j]].size) \cap Span(o, size) = {}
  <2> TAKE j \in (b + 1)..h
  <2>1. r.cmds[at[j]].size = sz[j] /\ CommandSize <= sz[j]
    <3>1. Command(r, at, sz, j, h)
      BY <1>4
    <3> QED BY <3>1 DEF Command
  <2>2. End(at, sz, j) <= o \/ o + Align(size) <= at[j]
    BY <1>2
  <2>3. at[j] + sz[j] <= End(at, sz, j) /\ End(at, sz, j) \in Nat /\ at[j] \in Nat /\ sz[j] \in Nat
    BY <1>4, EndFacts
  <2>4. size <= Align(size) /\ Align(size) \in Nat
    BY Aligned
  <2>5. at[j] + sz[j] <= o \/ o + size <= at[j]
    BY <2>2, <2>3, <2>4, <1>2
  <2>6. Span(at[j], sz[j]) \cap Span(o, size) = {}
    BY <2>3, <2>5, <1>2 DEF Span
  <2> QED BY <2>1, <2>3, <2>5, <2>6, <1>0, <1>2
<1>6. hit = {}
  BY <1>3, <1>5
<1>7. DOMAIN linked = DOMAIN r.cmds /\ rest = [p \in DOMAIN r.cmds |-> linked[p]]
  BY <1>6 DEF Restrict
<1>8. q = [r EXCEPT !.count = @ + 1, !.first = IF r.count = 0 THEN o ELSE @, !.last = o,
                    !.cmds = [p \in DOMAIN rest \cup {o} |->
                                IF p = o THEN [next |-> 0, size |-> size, msg |-> n] ELSE rest[p]]]
  BY Zenon DEF AllocateCommand, o
<1> HIDE DEF q, linked, rest, hit
<1>9. /\ DOMAIN q = DOMAIN r /\ q.lock = r.lock /\ q.next = r.next /\ q.count = r.count + 1 /\ q.last = o
      /\ q.first = (IF r.count = 0 THEN o ELSE r.first)
      /\ q.cmds = [p \in DOMAIN rest \cup {o} |->
                     IF p = o THEN [next |-> 0, size |-> size, msg |-> n] ELSE rest[p]]
  BY <1>8 DEF Header
<1>10. DOMAIN q.cmds = DOMAIN r.cmds \cup {o} /\ q.cmds[o] = [next |-> 0, size |-> size, msg |-> n]
       /\ \A p \in DOMAIN r.cmds : p # o => q.cmds[p] = linked[p]
  BY <1>7, <1>9
<1>11. /\ \A j \in (b + 1)..h : j # n /\ at2[j] = at[j] /\ sz2[j] = sz[j]
       /\ at2[n] = o /\ sz2[n] = size /\ at2 \in [Nat -> Nat] /\ sz2 \in [Nat -> Nat]
  BY <1>1, <1>2, <1>4
<1> HIDE DEF at2, sz2
<1>12. End(at2, sz2, n) = o + Align(size) /\ \A j \in (b + 1)..h : End(at2, sz2, j) = End(at, sz, j)
  BY <1>11 DEF End
<1>13. b + q.count = n /\ q.count \in Nat /\ q.count > 0
  BY <1>1, <1>9
<1>14. \A j \in (b + 1)..n : j \in (b + 1)..h \/ j = n
  BY <1>1
<1>15. n \in (b + 1)..n /\ \A j \in (b + 1)..h : j \in (b + 1)..n
  BY <1>1
<1>16. DOMAIN q.cmds = {at2[j] : j \in (b + 1)..n}
  <2>1. \A j \in (b + 1)..n : at2[j] \in DOMAIN q.cmds
    BY <1>3, <1>10, <1>11, <1>14
  <2>2. \A p \in DOMAIN q.cmds : \E j \in (b + 1)..n : p = at2[j]
    <3> TAKE p \in DOMAIN q.cmds
    <3>1. CASE p = o
      BY <3>1, <1>11, <1>15
    <3>2. CASE p # o
      <4>1. PICK j \in (b + 1)..h : p = at[j]
        BY <3>2, <1>3, <1>10
      <4> QED BY <4>1, <1>11, <1>15
    <3> QED BY <3>1, <3>2
  <2> QED BY <2>1, <2>2
<1>17. \A j \in (b + 1)..n : Command(q, at2, sz2, j, n)
  <2> TAKE j \in (b + 1)..n
  <2>1. CASE j = n
    BY <2>1, <1>2, <1>10, <1>11, <1>12 DEF Command
  <2>2. CASE j \in (b + 1)..h
    <3>1. Command(r, at, sz, j, h) /\ at[j] \in DOMAIN r.cmds /\ at[j] # o /\ j # n /\ j \in Nat
      BY <2>2, <1>3, <1>4, <1>5, <1>11
    <3>2. q.cmds[at2[j]] = linked[at[j]] /\ at2[j] = at[j] /\ sz2[j] = sz[j] /\ End(at2, sz2, j) = End(at, sz, j)
      BY <2>2, <3>1, <1>10, <1>11, <1>12
    <3>3. r.count # 0 /\ r.last = at[h]
      BY <2>2, <1>1 DEF RingOK
    <3>4. linked = [r.cmds EXCEPT ![r.last].next = o]
      BY <3>3 DEF linked
    <3>5. CASE j = h
      <4>1. linked[at[j]] = [r.cmds[at[j]] EXCEPT !.next = o]
        BY <3>1, <3>3, <3>4, <3>5
      <4>2. r.cmds[at[j]] = [next |-> 0, size |-> sz[j], msg |-> j]
        BY <3>1, <3>5 DEF Command
      <4>3. linked[at[j]] = [next |-> o, size |-> sz[j], msg |-> j]
        BY <4>1, <4>2
      <4>4. at2[j + 1] = o
        BY <3>5, <1>1, <1>11
      <4> QED BY <4>3, <4>4, <3>1, <3>2 DEF Command
    <3>6. CASE j # h
      <4>1. at[j] # at[h]
        <5>1. j < h /\ h \in (b + 1)..h /\ b + 1 \in (b + 1)..h
          BY <2>2, <3>6, <1>1
        <5>2. Ordered(at, sz, b + 1, h)
          BY DEF RingOK
        <5>3. /\ at[b + 1] <= at[h] => End(at, sz, j) <= at[h]
              /\ ~(at[b + 1] <= at[h]) /\ at[j] < at[b + 1] => End(at, sz, j) <= at[h]
          BY <5>1, <5>2, <2>2 DEF Ordered
        <5>4. at[j] + sz[j] <= End(at, sz, j) /\ End(at, sz, j) \in Nat /\ at[j] \in Nat /\ sz[j] \in Nat
              /\ at[b + 1] \in Nat /\ at[h] \in Nat /\ CommandSize <= sz[j]
          <6>1. at[j] + sz[j] <= End(at, sz, j) /\ End(at, sz, j) \in Nat /\ at[j] \in Nat /\ sz[j] \in Nat
            BY <3>1, EndFacts
          <6>2. b + 1 \in Nat /\ at[b + 1] \in Nat /\ at[h] \in Nat
            BY <1>1
          <6> QED BY <6>1, <6>2, <3>1 DEF Command
        <5> QED BY <5>3, <5>4, <1>0
      <4>2. linked[at[j]] = r.cmds[at[j]]
        BY <3>1, <3>3, <3>4, <4>1
      <4>3. j + 1 \in (b + 1)..h
        BY <2>2, <3>6, <1>1
      <4>4. at2[j + 1] = at[j + 1]
        BY <4>3, <1>11
      <4> QED BY <4>2, <4>4, <3>1, <3>2, <3>6 DEF Command
    <3> QED BY <3>5, <3>6
  <2> QED BY <2>1, <2>2, <1>14
<1>18. Ordered(at2, sz2, b + 1, n)
  <2>1. ASSUME NEW i \in (b + 1)..n, NEW j \in (b + 1)..n, i < j
        PROVE  IF at2[b + 1] <= at2[j] THEN at2[b + 1] <= at2[i] /\ End(at2, sz2, i) <= at2[j]
               ELSE /\ End(at2, sz2, j) <= at2[b + 1]
                    /\ at2[i] < at2[b + 1] => End(at2, sz2, i) <= at2[j]
    <3>1. i \in (b + 1)..h /\ b + 1 \in (b + 1)..h
      BY <2>1, <1>1
    <3>2. CASE j = n
      BY <3>1, <3>2, <1>2, <1>11, <1>12
    <3>3. CASE j \in (b + 1)..h
      <4>1. Ordered(at, sz, b + 1, h)
        BY DEF RingOK
      <4> QED BY <2>1, <3>1, <3>3, <4>1, <1>11, <1>12 DEF Ordered
    <3> QED BY <3>2, <3>3, <1>14
  <2> QED BY <2>1 DEF Ordered
<1>19. q.first = at2[b + 1] /\ q.last = at2[b + q.count]
  <2>1. q.last = at2[n]
    BY <1>9, <1>11
  <2>2. CASE r.count = 0
    BY <2>1, <2>2, <1>1, <1>9, <1>11, <1>13
  <2>3. CASE r.count # 0
    <3>1. b + 1 \in (b + 1)..h /\ r.first = at[b + 1]
      BY <2>3, <1>1 DEF RingOK
    <3> QED BY <3>1, <2>1, <2>3, <1>9, <1>11, <1>13
  <2> QED BY <2>2, <2>3
<1>20. RingOK(q, b, at2, sz2)
  BY <1>13, <1>16, <1>17, <1>18, <1>19 DEF RingOK
<1>21. Header(q)
  BY <1>9 DEF Header
<1> QED BY <1>2, <1>9, <1>20, <1>21 DEF q, at2, sz2, o, Grown

-----------------------------------------------------------------------------
(* What the reader will find *)

\* The recursive function of Messages is there.
LEMMA MessagesWalk ==
    ASSUME NEW r, r.count \in 0..MaxMessages
    PROVE  \E g : /\ Messages(r) = g[r.count][r.first]
                  /\ g[0] = [o \in 0..AreaSize |-> <<>>]
                  /\ \A n \in 1..MaxMessages : g[n] = MessagesFrom(r, g[n - 1])
<1> DEFINE P(g, m) == g = [n \in 0..m |-> IF n = 0 THEN [o \in 0..AreaSize |-> <<>>] ELSE MessagesFrom(r, g[n - 1])]
           bad == {m \in 0..MaxMessages : ~ \E g : P(g, m)}
<1>0. MaxMessages \in Nat
  BY MessagingAssumption
<1>1. bad = {}
  <2> SUFFICES ASSUME bad # {} PROVE FALSE
    OBVIOUS
  <2>1. bad \in SUBSET Nat
    BY <1>0
  <2> HIDE DEF bad
  <2>2. PICK m \in bad : \A y \in bad : m <= y
    BY <2>1, LeastNumber
  <2>3. m \in 0..MaxMessages /\ ~ \E g : P(g, m)
    BY <2>2 DEF bad
  <2>4. m # 0
    <3> SUFFICES ASSUME m = 0 PROVE \E g : P(g, 0)
      BY <2>3
    <3> DEFINE g == [n \in 0..0 |-> [o \in 0..AreaSize |-> <<>>]]
    <3>1. P(g, 0)
      OBVIOUS
    <3> QED BY <3>1
  <2>5. m - 1 \in 0..MaxMessages /\ m - 1 < m /\ m \in Nat
    BY <1>0, <2>3, <2>4
  <2>6. m - 1 \notin bad
    BY <2>2, <2>5
  <2>7. PICK g : P(g, m - 1)
    BY <2>5, <2>6 DEF bad
  <2> DEFINE h == [n \in 0..m |-> IF n < m THEN g[n] ELSE MessagesFrom(r, g[m - 1])]
  <2>8. P(h, m)
    <3>1. \A n \in 0..m : n # 0 => n - 1 \in 0..(m - 1) /\ h[n - 1] = g[n - 1]
      BY <2>5
    <3>2. \A n \in 0..m : h[n] = IF n = 0 THEN [o \in 0..AreaSize |-> <<>>] ELSE MessagesFrom(r, h[n - 1])
      <4> TAKE n \in 0..m
      <4>1. CASE n < m
        <5>1. n \in 0..(m - 1) /\ h[n] = g[n]
          BY <4>1, <2>5
        <5>2. g[n] = IF n = 0 THEN [o \in 0..AreaSize |-> <<>>] ELSE MessagesFrom(r, g[n - 1])
          BY <5>1, <2>7
        <5> QED BY <5>1, <5>2, <3>1
      <4>2. CASE ~(n < m)
        <5>1. n = m
          BY <4>2, <2>5
        <5> QED BY <5>1, <3>1, <2>4, <2>5
      <4> QED BY <4>1, <4>2
    <3> HIDE DEF h
    <3>3. h = [n \in 0..m |-> h[n]]
      BY DEF h
    <3> QED BY <3>2, <3>3
  <2> QED BY <2>3, <2>8
<1>2. \E g : P(g, MaxMessages)
  <2>1. MaxMessages \in 0..MaxMessages /\ MaxMessages \notin bad
    BY <1>0, <1>1
  <2> QED BY <2>1
<1> DEFINE all == CHOOSE g : P(g, MaxMessages)
<1>3. Messages(r) = all[r.count][r.first]
  BY Zenon DEF Messages
<1>4. P(all, MaxMessages)
  BY <1>2, Zenon
<1> HIDE DEF all
<1>5. all[0] = [o \in 0..AreaSize |-> <<>>]
  BY <1>0, <1>4
<1>6. \A n \in 1..MaxMessages : all[n] = MessagesFrom(r, all[n - 1])
  <2> TAKE n \in 1..MaxMessages
  <2>1. n \in 0..MaxMessages /\ n # 0
    BY <1>0
  <2> QED BY <2>1, <1>4
<1> QED BY <1>3, <1>5, <1>6

\* The recursive function of Pending is there.
LEMMA PendingWalk ==
    ASSUME NEW start
    PROVE  \E g : /\ Pending(start) = g[Cardinality(Area)][start]
                  /\ g[0] = [a \in Area \cup {NoArea} |-> <<>>]
                  /\ \A n \in 1..Cardinality(Area) : g[n] = AreasFrom(g[n - 1])
<1> DEFINE P(g, m) == g = [n \in 0..m |-> IF n = 0 THEN [a \in Area \cup {NoArea} |-> <<>>] ELSE AreasFrom(g[n - 1])]
           bad == {m \in 0..Cardinality(Area) : ~ \E g : P(g, m)}
<1>0. Cardinality(Area) \in Nat
  BY MessagingAssumption, FS_CardinalityType
<1>1. bad = {}
  <2> SUFFICES ASSUME bad # {} PROVE FALSE
    OBVIOUS
  <2>1. bad \in SUBSET Nat
    BY <1>0
  <2> HIDE DEF bad
  <2>2. PICK m \in bad : \A y \in bad : m <= y
    BY <2>1, LeastNumber
  <2>3. m \in 0..Cardinality(Area) /\ ~ \E g : P(g, m)
    BY <2>2 DEF bad
  <2>4. m # 0
    <3> SUFFICES ASSUME m = 0 PROVE \E g : P(g, 0)
      BY <2>3
    <3> DEFINE g == [n \in 0..0 |-> [a \in Area \cup {NoArea} |-> <<>>]]
    <3>1. P(g, 0)
      OBVIOUS
    <3> QED BY <3>1
  <2>5. m - 1 \in 0..Cardinality(Area) /\ m - 1 < m /\ m \in Nat
    BY <1>0, <2>3, <2>4
  <2>6. m - 1 \notin bad
    BY <2>2, <2>5
  <2>7. PICK g : P(g, m - 1)
    BY <2>5, <2>6 DEF bad
  <2> DEFINE h == [n \in 0..m |-> IF n < m THEN g[n] ELSE AreasFrom(g[m - 1])]
  <2>8. P(h, m)
    <3>1. \A n \in 0..m : n # 0 => n - 1 \in 0..(m - 1) /\ h[n - 1] = g[n - 1]
      BY <2>5
    <3>2. \A n \in 0..m : h[n] = IF n = 0 THEN [a \in Area \cup {NoArea} |-> <<>>] ELSE AreasFrom(h[n - 1])
      <4> TAKE n \in 0..m
      <4>1. CASE n < m
        <5>1. n \in 0..(m - 1) /\ h[n] = g[n]
          BY <4>1, <2>5
        <5>2. g[n] = IF n = 0 THEN [a \in Area \cup {NoArea} |-> <<>>] ELSE AreasFrom(g[n - 1])
          BY <5>1, <2>7
        <5> QED BY <5>1, <5>2, <3>1
      <4>2. CASE ~(n < m)
        <5>1. n = m
          BY <4>2, <2>5
        <5> QED BY <5>1, <3>1, <2>4, <2>5
      <4> QED BY <4>1, <4>2
    <3> HIDE DEF h
    <3>3. h = [n \in 0..m |-> h[n]]
      BY DEF h
    <3> QED BY <3>2, <3>3
  <2> QED BY <2>3, <2>8
<1>2. \E g : P(g, Cardinality(Area))
  <2>1. Cardinality(Area) \in 0..Cardinality(Area)
    BY <1>0
  <2>2. Cardinality(Area) \notin bad
    BY <1>1
  <2> QED BY <2>1, <2>2
<1> DEFINE all == CHOOSE g : P(g, Cardinality(Area))
<1>3. Pending(start) = all[Cardinality(Area)][start]
  BY Zenon DEF Pending
<1>4. P(all, Cardinality(Area))
  BY <1>2, Zenon
<1> HIDE DEF all
<1>5. all[0] = [a \in Area \cup {NoArea} |-> <<>>]
  BY <1>0, <1>4
<1>6. \A n \in 1..Cardinality(Area) : all[n] = AreasFrom(all[n - 1])
  <2> TAKE n \in 1..Cardinality(Area)
  <2>1. n \in 0..Cardinality(Area) /\ n # 0
    BY <1>0
  <2> QED BY <2>1, <1>4
<1> QED BY <1>3, <1>5, <1>6

Numbers(b, n) == [x \in 1..n |-> b + x]

LEMMA NumbersMeet ==
    ASSUME NEW b \in Nat, NEW m \in Nat, NEW n \in Nat
    PROVE  /\ Numbers(b, m) \in Seq(Nat) /\ Len(Numbers(b, m)) = m
           /\ Numbers(b, m) \o Numbers(b + m, n) = Numbers(b, m + n)
<1>1. ASSUME NEW c \in Nat, NEW l \in Nat
      PROVE  Numbers(c, l) \in Seq(Nat) /\ Len(Numbers(c, l)) = l
  BY DEF Numbers
<1> DEFINE s == Numbers(b, m)
           t == Numbers(b + m, n)
           u == Numbers(b, m + n)
<1>2. /\ s \in Seq(Nat) /\ t \in Seq(Nat) /\ u \in Seq(Nat) /\ Len(s) = m /\ Len(t) = n /\ Len(u) = m + n
  <2>1. b + m \in Nat /\ m + n \in Nat
    OBVIOUS
  <2>2. s \in Seq(Nat) /\ Len(s) = m
    BY <1>1
  <2>3. t \in Seq(Nat) /\ Len(t) = n
    BY <1>1, <2>1
  <2>4. u \in Seq(Nat) /\ Len(u) = m + n
    BY <1>1, <2>1
  <2> QED BY <2>2, <2>3, <2>4
<1>3. /\ \A x \in 1..m : s[x] = b + x
      /\ \A x \in 1..n : t[x] = b + m + x
      /\ \A x \in 1..(m + n) : u[x] = b + x
  BY DEF Numbers
<1> HIDE DEF s, t, u
<1>4. s \o t \in Seq(Nat) /\ Len(s \o t) = m + n
      /\ \A x \in 1..(m + n) : (s \o t)[x] = IF x <= m THEN s[x] ELSE t[x - m]
  BY <1>2, ConcatProperties
<1>5. \A x \in 1..(m + n) : (s \o t)[x] = u[x]
  <2> TAKE x \in 1..(m + n)
  <2>1. CASE x <= m
    BY <2>1, <1>3, <1>4
  <2>2. CASE ~(x <= m)
    <3>1. x - m \in 1..n
      BY <2>2
    <3> QED BY <3>1, <2>2, <1>3, <1>4
  <2> QED BY <2>1, <2>2
<1>6. s \o t = u
  BY <1>2, <1>4, <1>5, SeqEqual
<1> QED BY <1>2, <1>6 DEF s, t, u

\* The reader finds the commands of an area in the order of their numbers.
LEMMA MessagesAre ==
    ASSUME NEW r, NEW b \in Nat, NEW at \in [Nat -> Nat], NEW sz \in [Nat -> Nat],
           RingOK(r, b, at, sz), r.count <= MaxMessages
    PROVE  Messages(r) = Numbers(b, r.count)
<1> DEFINE c == r.count
           h == b + c
           first(n) == IF n = 0 THEN 0 ELSE at[h - n + 1]
<1>0. AreaSize \in Nat /\ HeaderSize \in Nat /\ CommandSize \in Nat /\ CommandSize > 0 /\ MaxMessages \in Nat
  BY MessagingAssumption
<1>1. c \in Nat /\ h \in Nat /\ c \in 0..MaxMessages
  BY <1>0 DEF RingOK
<1>2. PICK g : /\ Messages(r) = g[c][r.first]
               /\ g[0] = [o \in 0..AreaSize |-> <<>>]
               /\ \A n \in 1..MaxMessages : g[n] = MessagesFrom(r, g[n - 1])
  BY <1>1, MessagesWalk
<1> DEFINE Good(n) == g[n][first(n)] = Numbers(h - n, n)
           bad == {n \in 0..c : ~ Good(n)}
<1>3. Good(0)
  <2>1. g[0][0] = <<>>
    BY <1>0, <1>2
  <2>2. Numbers(h, 0) = <<>>
    <3>1. Numbers(h, 0) \in Seq(Nat) /\ Len(Numbers(h, 0)) = 0
      BY <1>1, NumbersMeet
    <3> QED BY <3>1, EmptySeq
  <2>3. first(0) = 0 /\ h - 0 = h
    BY <1>1
  <2> QED BY <2>1, <2>2, <2>3
<1>4. ASSUME NEW n \in 1..c, Good(n - 1)
      PROVE  Good(n)
  <2> DEFINE j == h - n + 1
  <2>1. j \in (b + 1)..h /\ j \in Nat /\ n \in 1..MaxMessages /\ (j = h <=> n = 1) /\ h - n \in Nat
    BY <1>0, <1>1
  <2>2. Command(r, at, sz, j, h) /\ at[j] \in DOMAIN r.cmds
    BY <2>1 DEF RingOK
  <2> HIDE DEF j
  <2>3. at[j] \in 0..AreaSize
    <3>1. End(at, sz, j) <= AreaSize /\ at[j] + sz[j] <= End(at, sz, j) /\ at[j] \in Nat /\ sz[j] \in Nat
          /\ End(at, sz, j) \in Nat
      BY <2>1, <2>2, EndFacts DEF Command
    <3> QED BY <3>1, <1>0
  <2>4. r.cmds[at[j]].msg = j /\ r.cmds[at[j]].next = IF j = h THEN 0 ELSE at[j + 1]
    BY <2>2 DEF Command
  <2>5. r.cmds[at[j]].next = first(n - 1)
    <3>1. CASE n = 1
      BY <3>1, <2>1, <2>4
    <3>2. CASE n # 1
      <4>1. n - 1 # 0 /\ h - (n - 1) + 1 = j + 1
        BY <3>2, <1>1 DEF j
      <4> QED BY <4>1, <3>2, <2>1, <2>4
    <3> QED BY <3>1, <3>2
  <2>6. g[n] = MessagesFrom(r, g[n - 1])
    BY <1>2, <2>1
  <2>7. g[n][at[j]] = <<j>> \o g[n - 1][first(n - 1)]
    BY <2>2, <2>3, <2>4, <2>5, <2>6 DEF MessagesFrom
  <2>8. g[n][at[j]] = <<j>> \o Numbers(h - (n - 1), n - 1)
    BY <2>7, <1>4
  <2>9. <<j>> = Numbers(h - n, 1)
    <3>1. Numbers(h - n, 1) \in Seq(Nat) /\ Len(Numbers(h - n, 1)) = 1
      BY <2>1, NumbersMeet
    <3>2. Numbers(h - n, 1)[1] = j
      BY <1>1 DEF Numbers, j
    <3>3. <<j>> \in Seq(Nat) /\ Len(<<j>>) = 1 /\ <<j>>[1] = j
      BY <2>1
    <3>4. \A x \in 1..1 : <<j>>[x] = Numbers(h - n, 1)[x]
      BY <3>2, <3>3
    <3> QED BY <3>1, <3>3, <3>4, SeqEqual
  <2>10. n - 1 \in Nat /\ (h - n) + 1 = h - (n - 1) /\ 1 + (n - 1) = n
    BY <1>1
  <2>11. Numbers(h - n, 1) \o Numbers((h - n) + 1, n - 1) = Numbers(h - n, 1 + (n - 1))
    BY ZenonT(40), <2>1, <2>10, NumbersMeet
  <2>12. g[n][at[j]] = Numbers(h - n, n)
    BY <2>8, <2>9, <2>10, <2>11
  <2>13. first(n) = at[j]
    BY DEF j
  <2> QED BY <2>12, <2>13
<1> HIDE DEF Good
<1>5. bad = {}
  <2> SUFFICES ASSUME bad # {} PROVE FALSE
    OBVIOUS
  <2>1. bad \in SUBSET Nat
    BY <1>1
  <2> HIDE DEF bad
  <2>2. PICK m \in bad : \A y \in bad : m <= y
    BY <2>1, LeastNumber
  <2>3. m \in 1..c /\ ~ Good(m)
    BY <2>2, <1>1, <1>3 DEF bad
  <2>4. m - 1 \in 0..c /\ m - 1 < m
    BY <2>3, <1>1
  <2>5. Good(m - 1)
    BY <2>2, <2>4 DEF bad
  <2> QED BY <2>3, <2>5, <1>4
<1>6. Good(c)
  BY <1>1, <1>5
<1>7. r.first = first(c) /\ h - c = b
  BY <1>1 DEF RingOK
<1> QED BY <1>2, <1>6, <1>7 DEF Good

-----------------------------------------------------------------------------
(* The list of the areas *)

\* The areas of the list are lo to hi, in the order in which they were linked.
Chain(ch, lo, hi) ==
    /\ lo <= hi /\ ch[lo] = svc.first /\ ch[hi] = svc.last
    /\ \A i, j \in lo..hi : ch[i] = ch[j] => i = j
    /\ DOMAIN ring = {ch[i] : i \in lo..hi} \cup ({snd.kept} \ {NoArea})
    /\ \A i \in lo..hi : /\ ch[i] # snd.kept
                         /\ ring[ch[i]].next = IF i = hi THEN NoArea ELSE ch[i + 1]

\* Area k is the reader's, who took m messages of n.  From there on, an area holds
\* the messages after the first from[i], and they follow on each other up to n.
Reading(ch, lo, hi, from, k, m, n) ==
    /\ k \in lo..hi /\ rdr.area = ch[k] /\ svc.team \in teams
    /\ \A i \in k..hi : i < hi => ring[ch[i]].count > 0 \/ (i = k /\ rdr.at = "pop")
    /\ from[k] = m /\ from[hi] + ring[ch[hi]].count = n
    /\ \A i \in k..hi : i < hi => from[i + 1] = from[i] + ring[ch[i]].count
    /\ \A i, j \in k..hi : i < j => from[i] + ring[ch[i]].count <= from[j]
Filled(ch, hi, from, at, sz, k) ==
    \A i \in k..hi : RingOK(ring[ch[i]], from[i], at, sz)

\* The areas are no more than there are ids.
LEMMA ChainIsShort ==
    ASSUME NEW ch \in [Nat -> Area], NEW lo \in Nat, NEW hi \in Nat, Chain(ch, lo, hi)
    PROVE  Cardinality(Area) \in Nat /\ hi - lo + 1 <= Cardinality(Area)
<1> DEFINE f == [i \in lo..hi |-> ch[i]]
<1>1. IsFiniteSet(Area)
  BY MessagingAssumption
<1>2. f \in Injection(lo..hi, Area)
  <2>1. f \in [lo..hi -> Area]
    OBVIOUS
  <2>2. \A i, j \in lo..hi : f[i] = f[j] => i = j
    BY DEF Chain
  <2> QED BY <2>1, <2>2, Fun_IsInj
<1>3. Cardinality(lo..hi) <= Cardinality(Area)
  <2> HIDE DEF f
  <2> QED BY <1>1, <1>2, FS_Injection
<1>4. Cardinality(lo..hi) = hi - lo + 1
  <2>1. lo \in Int /\ hi \in Int /\ ~(lo > hi)
    BY DEF Chain
  <2> QED BY <2>1, FS_Interval
<1> QED BY <1>1, <1>3, <1>4, FS_CardinalityType

PendingFrom(G, S) == G \in Nat /\ G <= S /\ Pending(rdr.area) = Numbers(G, S - G)

LEMMA PendingIs ==
    ASSUME NEW ch \in [Nat -> Area], NEW lo \in Nat, NEW hi \in Nat, Chain(ch, lo, hi),
           NEW from \in [Nat -> Nat], NEW at \in [Nat -> Nat], NEW sz \in [Nat -> Nat], NEW k \in Nat,
           NEW G, NEW S \in Nat, S <= MaxMessages,
           Reading(ch, lo, hi, from, k, G, S), Filled(ch, hi, from, at, sz, k)
    PROVE  PendingFrom(G, S)
<1> DEFINE N == Cardinality(Area)
           count == [i \in Nat |-> ring[ch[i]].count]
<1>0. MaxMessages \in Nat /\ NoArea \notin Area
  BY MessagingAssumption
<1>1. N \in Nat /\ hi - lo + 1 <= N
  BY ChainIsShort
<1>2. k \in lo..hi /\ rdr.area = ch[k] /\ from[k] = G /\ from[hi] + count[hi] = S
  BY DEF Reading
<1>b. \A i \in k..hi : i < hi => from[i + 1] = from[i] + count[i]
  <2> TAKE i \in k..hi
  <2>1. i \in Nat
    OBVIOUS
  <2> QED BY <2>1 DEF Reading
<1>c. \A i, j \in k..hi : i < j => from[i] + count[i] <= from[j]
  <2> TAKE i, j \in k..hi
  <2>1. i \in Nat
    OBVIOUS
  <2> QED BY <2>1 DEF Reading
<1>d. \A i \in k..hi : i \in Nat /\ i \in lo..hi
  BY <1>2
<1>e. \A i \in k..hi : ring[ch[i]].next = IF i = hi THEN NoArea ELSE ch[i + 1]
  BY <1>d DEF Chain
<1>3. \A i \in k..hi : /\ i \in Nat /\ i \in lo..hi /\ RingOK(ring[ch[i]], from[i], at, sz) /\ from[i] \in Nat /\ count[i] \in Nat
                       /\ ch[i] \in Area /\ ch[i] \in DOMAIN ring
  <2> TAKE i \in k..hi
  <2>1. i \in Nat /\ i \in lo..hi
    BY <1>d
  <2>2. RingOK(ring[ch[i]], from[i], at, sz)
    BY DEF Filled
  <2>3. ring[ch[i]].count \in Nat
    BY <2>2 DEF RingOK
  <2>4. ch[i] \in DOMAIN ring
    BY <2>1 DEF Chain
  <2> QED BY <2>1, <2>2, <2>3, <2>4
<1> HIDE DEF count, N
<1>4. k \in k..hi /\ hi \in k..hi
  BY <1>2
<1>5. \A i \in k..hi : from[i] + count[i] <= S
  <2> TAKE i \in k..hi
  <2>1. CASE i = hi
    BY <2>1, <1>2
  <2>2. CASE i # hi
    <3>1. i \in Nat /\ hi \in Nat /\ i < hi
      BY <2>2, <1>2
    <3>2. from[i] + count[i] <= from[hi]
      BY <3>1, <1>c, <1>4
    <3>3. from[hi] \in Nat /\ count[hi] \in Nat
      BY <1>3, <1>4
    <3>4. from[i] \in Nat /\ count[i] \in Nat
      BY <1>3
    <3> QED BY <3>2, <3>3, <3>4, <1>2
  <2> QED BY <2>1, <2>2
<1>6. \A i \in k..hi : Messages(ring[ch[i]]) = Numbers(from[i], count[i])
  <2> TAKE i \in k..hi
  <2>1. count[i] <= MaxMessages
    <3>1. from[i] \in Nat /\ count[i] \in Nat /\ from[i] + count[i] <= S
      BY <1>3, <1>5
    <3> QED BY <3>1, <1>0
  <2> QED BY <2>1, <1>3, MessagesAre DEF count
<1>7. PICK g : /\ Pending(rdr.area) = g[N][rdr.area]
               /\ g[0] = [a \in Area \cup {NoArea} |-> <<>>]
               /\ \A n \in 1..N : g[n] = AreasFrom(g[n - 1])
  BY PendingWalk DEF N
<1>8. \A n \in 0..N : g[n][NoArea] = <<>>
  <2> TAKE n \in 0..N
  <2>1. CASE n = 0
    BY <2>1, <1>7
  <2>2. CASE n # 0
    <3>1. n \in 1..N
      BY <2>2, <1>1
    <3> QED BY <3>1, <1>7 DEF AreasFrom
  <2> QED BY <2>1, <2>2
<1>9. \A n \in 1..N, i \in k..hi : g[n][ch[i]] = Numbers(from[i], count[i]) \o g[n - 1][ring[ch[i]].next]
  <2> TAKE n \in 1..N, i \in k..hi
  <2>1. g[n] = AreasFrom(g[n - 1]) /\ ch[i] \in Area /\ ch[i] \in DOMAIN ring /\ ch[i] # NoArea
    BY <1>0, <1>3, <1>7
  <2>2. g[n][ch[i]] = Messages(ring[ch[i]]) \o g[n - 1][ring[ch[i]].next]
    BY <2>1 DEF AreasFrom
  <2> QED BY <2>2, <1>6
<1> DEFINE Good(d) == \A n \in (d + 1)..N : g[n][ch[hi - d]] = Numbers(from[hi - d], S - from[hi - d])
           bad == {d \in 0..(hi - k) : ~ Good(d)}
<1>10. Good(0)
  <2> SUFFICES ASSUME NEW n \in 1..N PROVE g[n][ch[hi]] = Numbers(from[hi], S - from[hi])
    BY DEF Good
  <2>1. g[n][ch[hi]] = Numbers(from[hi], count[hi]) \o g[n - 1][NoArea]
    BY <1>e, <1>4, <1>9
  <2>2. n - 1 \in 0..N
    BY <1>1
  <2>3. g[n - 1][NoArea] = <<>>
    BY <2>2, <1>8
  <2>4. from[hi] \in Nat /\ count[hi] \in Nat /\ S - from[hi] = count[hi]
    <3>1. from[hi] \in Nat /\ count[hi] \in Nat
      BY <1>3, <1>4
    <3> QED BY <3>1, <1>2
  <2>5. Numbers(from[hi], count[hi]) \in Seq(Nat)
    BY <2>4, NumbersMeet
  <2>6. Numbers(from[hi], count[hi]) \o <<>> = Numbers(from[hi], count[hi])
    BY <2>5, ConcatEmptySeq
  <2> QED BY <2>1, <2>3, <2>4, <2>6
<1>11. ASSUME NEW d \in 1..(hi - k), Good(d - 1)
       PROVE  Good(d)
  <2> SUFFICES ASSUME NEW n \in (d + 1)..N PROVE g[n][ch[hi - d]] = Numbers(from[hi - d], S - from[hi - d])
    BY DEF Good
  <2> DEFINE i == hi - d
  <2>1. i \in k..hi /\ i < hi /\ i + 1 \in k..hi /\ hi - (d - 1) = i + 1 /\ n \in 1..N /\ n - 1 \in ((d - 1) + 1)..N
    BY <1>1, <1>2
  <2>2. g[n - 1][ch[i + 1]] = Numbers(from[i + 1], S - from[i + 1])
    BY <2>1, <1>11
  <2> HIDE DEF i
  <2>3. ring[ch[i]].next = ch[i + 1]
    BY <2>1, <1>e
  <2>4. from[i] \in Nat /\ count[i] \in Nat /\ from[i + 1] = from[i] + count[i] /\ from[i + 1] \in Nat
        /\ count[i + 1] \in Nat
    BY <2>1, <1>b, <1>3
  <2>5. from[i + 1] + count[i + 1] <= S
    BY <2>1, <1>5
  <2>6. S - from[i + 1] \in Nat /\ count[i] + (S - from[i + 1]) = S - from[i]
    BY <2>4, <2>5
  <2>7. Numbers(from[i], count[i]) \o Numbers(from[i] + count[i], S - from[i + 1]) = Numbers(from[i], count[i] + (S - from[i + 1]))
    <3>1. from[i] \in Nat /\ count[i] \in Nat /\ S - from[i + 1] \in Nat
      BY <2>4, <2>6
    <3> QED BY <3>1, NumbersMeet
  <2>8. g[n][ch[i]] = Numbers(from[i], S - from[i])
    BY <2>1, <2>2, <2>3, <2>4, <2>6, <2>7, <1>9
  <2> QED BY <2>8 DEF i
<1> HIDE DEF Good
<1>12. bad = {}
  <2> SUFFICES ASSUME bad # {} PROVE FALSE
    OBVIOUS
  <2>1. bad \in SUBSET Nat
    BY <1>2
  <2> HIDE DEF bad
  <2>2. PICK m \in bad : \A y \in bad : m <= y
    BY <2>1, LeastNumber
  <2>3. m \in 1..(hi - k) /\ ~ Good(m)
    BY <2>2, <1>2, <1>10 DEF bad
  <2>4. m - 1 \in 0..(hi - k) /\ m - 1 < m
    BY <2>3, <1>2
  <2>5. Good(m - 1)
    BY <2>2, <2>4 DEF bad
  <2> QED BY <2>3, <2>5, <1>11
<1>13. hi - k \in 0..(hi - k) /\ hi - (hi - k) = k /\ N \in ((hi - k) + 1)..N
  BY <1>1, <1>2
<1>14. Good(hi - k)
  BY <1>12, <1>13
<1>15. g[N][ch[k]] = Numbers(from[k], S - from[k])
  BY <1>13, <1>14 DEF Good
<1>16. from[k] \in Nat /\ from[k] <= S
  <2>1. from[k] \in Nat /\ count[k] \in Nat /\ from[k] + count[k] <= S
    BY <1>3, <1>4, <1>5
  <2> QED BY <2>1
<1> QED BY <1>2, <1>7, <1>15, <1>16 DEF PendingFrom

-----------------------------------------------------------------------------
(* What holds in every state *)

SenderPlaces == {"idle", "discard", "acquire", "locked", "unlock", "commit"}
ReaderPlaces == {"none", "wait", "lock", "acquire", "pop"}
MessagingTypes ==
    /\ \A a \in DOMAIN ring : Header(ring[a])
    /\ svc \in [first : Area \cup {NoArea}, last : Area \cup {NoArea}, team : Registrar \cup {NoTeam}]
    /\ sems \in [lock : Int, counter : Nat]
    /\ snd \in [at : SenderPlaces, size : Nat, area : Area \cup {NoArea}, kept : Area \cup {NoArea},
                empty : BOOLEAN]
    /\ rdr \in [at : ReaderPlaces, area : Area \cup {NoArea}]
    /\ rdr.at = "none" => rdr.area = NoArea

\* What SendMessage knows where it is.
SenderOK ==
    /\ snd.at \in {"acquire", "locked"} => snd.area \in {svc.first, svc.last}
    /\ snd.at = "unlock" => snd.area = svc.last
    /\ snd.at \in {"idle", "unlock", "commit"} => snd.kept = NoArea
    /\ snd.at \in {"discard", "acquire", "locked"} =>
          CommandSize <= snd.size /\ snd.size <= AreaSize - HeaderSize
    /\ svc.first = NoArea => DOMAIN ring = {} /\ snd.at = "idle" /\ rdr.at = "none"

Listed == DOMAIN ring \ {snd.kept}
SenderHas(a) == snd.at \in {"locked", "unlock"} /\ snd.area = a
SenderWaits(a) == snd.at = "acquire" /\ snd.area = a
ReaderHas(a) == rdr.at = "pop" /\ rdr.area = a
ReaderWaits(a) == rdr.at = "acquire" /\ rdr.area = a

\* An area is locked by one at most, and its counter says who is there.  The
\* semaphore is free for a waiter if nobody has his area.
Locks ==
    /\ \A a \in Listed :
        /\ ring[a].lock = (IF SenderHas(a) \/ SenderWaits(a) THEN 1 ELSE 0)
                        + (IF ReaderHas(a) \/ ReaderWaits(a) THEN 1 ELSE 0)
        /\ ~(SenderHas(a) /\ ReaderHas(a))
    /\ sems.lock = IF snd.at = "acquire" THEN (IF ReaderHas(snd.area) THEN 0 ELSE 1)
                   ELSE IF rdr.at = "acquire" /\ ~SenderHas(rdr.area) THEN 1 ELSE 0
    /\ snd.at = "acquire" /\ rdr.at = "acquire" => snd.area = rdr.area

\* Messages m + 1 to n are there: the reader is awake, or somebody wakes him.
Roused(m, n) ==
    rdr.at = "wait" /\ m < n =>
        sems.counter > 0 \/ snd.at = "commit" \/ (snd.at = "unlock" /\ snd.empty)

\* n messages were sent, and m taken.
Counted(m, n) ==
    /\ sent = Numbers(0, n) /\ got = Numbers(0, m) /\ n <= MaxMessages
    /\ snd.at \in {"discard", "acquire", "locked"} => n < MaxMessages

Delivering(ch, lo, hi, from, at, sz, k, m, n) ==
    /\ Chain(ch, lo, hi) /\ Reading(ch, lo, hi, from, k, m, n) /\ Filled(ch, hi, from, at, sz, k)
    /\ Locks /\ Roused(m, n) /\ Counted(m, n)

MessagingInductive ==
    /\ MessagingTypes /\ SenderOK
    /\ svc.first # NoArea => \E ch \in [Nat -> Area], lo, hi \in Nat : Chain(ch, lo, hi)
    /\ rdr.at # "none" =>
          \E ch \in [Nat -> Area], lo, hi \in Nat, from, at, sz \in [Nat -> Nat], k, m, n \in Nat :
              Delivering(ch, lo, hi, from, at, sz, k, m, n)

Kept(r, q) == /\ q.count = r.count /\ q.first = r.first /\ q.last = r.last /\ q.cmds = r.cmds
              /\ q.next = r.next

LEMMA RingStays ==
    ASSUME NEW r, NEW q, Kept(r, q), NEW b, NEW at, NEW sz, RingOK(r, b, at, sz)
    PROVE  RingOK(q, b, at, sz)
  BY DEF Kept, RingOK, Command

\* The list does not change with the commands and the locks of its areas, nor
\* when an area is no longer kept.
LEMMA ChainStays ==
    ASSUME NEW ch \in [Nat -> Area], NEW lo \in Nat, NEW hi \in Nat, Chain(ch, lo, hi),
           svc'.first = svc.first, svc'.last = svc.last, snd'.kept \in {snd.kept, NoArea},
           DOMAIN ring' = Listed \cup ({snd'.kept} \ {NoArea}),
           \A a \in Listed : ring'[a].next = ring[a].next
    PROVE  Chain(ch, lo, hi)'
<1>0. NoArea \notin Area
  BY MessagingAssumption
<1>1. \A i \in lo..hi : ch[i] \in Area /\ ch[i] \in Listed
  BY DEF Chain, Listed
<1>2. Listed = {ch[i] : i \in lo..hi}
  BY <1>1 DEF Chain, Listed
<1>3. \A i \in lo..hi : ring'[ch[i]].next = ring[ch[i]].next /\ ch[i] # snd'.kept
  BY <1>0, <1>1 DEF Chain
<1> QED BY <1>2, <1>3 DEF Chain

\* The parts of Delivering that do not change with the locks alone
LEMMA DeliveringStays ==
    ASSUME NEW ch \in [Nat -> Area], NEW lo \in Nat, NEW hi \in Nat,
           NEW from \in [Nat -> Nat], NEW at \in [Nat -> Nat], NEW sz \in [Nat -> Nat],
           NEW k \in Nat, NEW m \in Nat, NEW n \in Nat,
           Chain(ch, lo, hi), Reading(ch, lo, hi, from, k, m, n), Filled(ch, hi, from, at, sz, k),
           svc' = svc, svc.team \in teams', snd'.kept = snd.kept, rdr'.area = rdr.area,
           rdr.at = "pop" => rdr'.at = "pop",
           DOMAIN ring' = DOMAIN ring, \A a \in DOMAIN ring : Kept(ring[a], ring'[a])
    PROVE  /\ Chain(ch, lo, hi)' /\ Reading(ch, lo, hi, from, k, m, n)'
           /\ Filled(ch, hi, from, at, sz, k)'
<1>0. NoArea \notin Area
  BY MessagingAssumption
<1>1. Chain(ch, lo, hi)'
  <2>1. DOMAIN ring' = Listed \cup ({snd'.kept} \ {NoArea})
    BY <1>0 DEF Chain, Listed
  <2>2. \A a \in Listed : ring'[a].next = ring[a].next
    BY DEF Kept, Listed
  <2> QED BY <2>1, <2>2, ChainStays
<1>2. k \in lo..hi
  BY DEF Reading
<1>3. \A i \in k..hi : i \in lo..hi
  BY <1>2
<1>4. \A i \in lo..hi : ch[i] \in DOMAIN ring
  BY DEF Chain
<1>5. \A i \in lo..hi : ring'[ch[i]].count = ring[ch[i]].count
  BY <1>4 DEF Kept
<1>6. Filled(ch, hi, from, at, sz, k)'
  BY <1>3, <1>4, RingStays DEF Filled
<1>7. Reading(ch, lo, hi, from, k, m, n)'
  <2>1. hi \in lo..hi
    BY <1>2
  <2> QED BY <2>1, <1>3, <1>5 DEF Reading
<1> QED BY <1>1, <1>6, <1>7

LEMMA LockCounted ==
    ASSUME \A a \in DOMAIN ring : Header(ring[a]), NEW a \in DOMAIN ring, NEW c \in Int
    PROVE  /\ DOMAIN LockCount(a, c) = DOMAIN ring
           /\ \A x \in DOMAIN ring :
                /\ Kept(ring[x], LockCount(a, c)[x]) /\ Header(LockCount(a, c)[x])
                /\ LockCount(a, c)[x].lock = IF x = a THEN ring[a].lock + c ELSE ring[x].lock
<1> DEFINE q == LockCount(a, c)
<1>1. DOMAIN q = DOMAIN ring /\ q[a] = [ring[a] EXCEPT !.lock = @ + c]
      /\ \A x \in DOMAIN ring : x # a => q[x] = ring[x]
  BY DEF LockCount
<1> HIDE DEF q
<1>2. Header(ring[a])
  OBVIOUS
<1>3. Kept(ring[a], q[a]) /\ Header(q[a]) /\ q[a].lock = ring[a].lock + c
  BY <1>1, <1>2 DEF Kept, Header
<1>4. ASSUME NEW x \in DOMAIN ring
      PROVE  Kept(ring[x], q[x]) /\ Header(q[x]) /\ q[x].lock = IF x = a THEN ring[a].lock + c ELSE ring[x].lock
  BY <1>1, <1>3 DEF Kept
<1> QED BY <1>1, <1>4 DEF q

LEMMA AllocateHeader ==
    ASSUME NEW r, Header(r), NEW size, NEW msg
    PROVE  LET q == AllocateCommand(r, size, msg)
           IN  Header(q) /\ q.lock = r.lock /\ q.next = r.next
<1> DEFINE o == Offset(r, size)
           hit == {p \in DOMAIN r.cmds : Span(p, r.cmds[p].size) \cap Span(o, size) # {}}
           linked == IF r.count = 0 THEN r.cmds ELSE [r.cmds EXCEPT ![r.last].next = o]
           rest == Restrict(linked, DOMAIN linked \ hit)
           cs == [p \in DOMAIN rest \cup {o} |-> IF p = o THEN [next |-> 0, size |-> size, msg |-> msg] ELSE rest[p]]
           q == AllocateCommand(r, size, msg)
<1>1. q = [r EXCEPT !.count = @ + 1, !.first = IF r.count = 0 THEN o ELSE @, !.last = o, !.cmds = cs]
  BY Zenon DEF AllocateCommand
<1> HIDE DEF q, cs, o
<1> QED BY <1>1 DEF Header, q

-----------------------------------------------------------------------------
(* The steps that change locks and semaphores, and no list and no command *)

LEMMA LocksOnly ==
    ASSUME MessagingInductive, MessagingTypes', SenderOK',
           svc' = svc, teams' = teams, snd'.kept = snd.kept, rdr'.area = rdr.area,
           rdr'.at = "none" <=> rdr.at = "none", rdr.at = "pop" => rdr'.at = "pop",
           DOMAIN ring' = DOMAIN ring, \A a \in DOMAIN ring : Kept(ring[a], ring'[a]),
           rdr.at # "none" /\ SemsThere /\ Locks /\ rdr.area \in Listed => Locks',
           \A m, n \in Nat : Roused(m, n) => Roused(m, n)',
           \A m, n \in Nat : Counted(m, n) => Counted(m, n)'
    PROVE  MessagingInductive'
<1>0. NoArea \notin Area
  BY MessagingAssumption
<1>1. ASSUME svc'.first # NoArea
      PROVE  \E ch \in [Nat -> Area], lo, hi \in Nat : Chain(ch, lo, hi)'
  <2>1. PICK ch \in [Nat -> Area], lo \in Nat, hi \in Nat : Chain(ch, lo, hi)
    BY <1>1 DEF MessagingInductive
  <2>2. DOMAIN ring' = Listed \cup ({snd'.kept} \ {NoArea})
    BY <2>1, <1>0 DEF Chain, Listed
  <2>3. \A a \in Listed : ring'[a].next = ring[a].next
    BY DEF Kept, Listed
  <2>4. Chain(ch, lo, hi)'
    BY <2>1, <2>2, <2>3, ChainStays
  <2> QED BY <2>4
<1>2. ASSUME rdr'.at # "none"
      PROVE  \E ch \in [Nat -> Area], lo, hi \in Nat, from, at, sz \in [Nat -> Nat], k, m, n \in Nat :
                Delivering(ch, lo, hi, from, at, sz, k, m, n)'
  <2>1. PICK ch \in [Nat -> Area], lo \in Nat, hi \in Nat,
             from \in [Nat -> Nat], at \in [Nat -> Nat], sz \in [Nat -> Nat],
             k \in Nat, m \in Nat, n \in Nat : Delivering(ch, lo, hi, from, at, sz, k, m, n)
    BY <1>2 DEF MessagingInductive
  <2>2. Chain(ch, lo, hi) /\ Reading(ch, lo, hi, from, k, m, n) /\ Filled(ch, hi, from, at, sz, k)
    BY <2>1 DEF Delivering
  <2>3. svc.team \in teams'
    BY <2>2 DEF Reading
  <2>4. Chain(ch, lo, hi)' /\ Reading(ch, lo, hi, from, k, m, n)' /\ Filled(ch, hi, from, at, sz, k)'
    BY <2>2, <2>3, DeliveringStays
  <2>5. rdr.area \in Listed
    BY <2>2 DEF Reading, Chain, Listed
  <2>6. Locks'
    BY <2>1, <2>3, <2>5, <1>2 DEF Delivering, SemsThere
  <2>7. Roused(m, n)' /\ Counted(m, n)'
    BY <2>1 DEF Delivering
  <2> QED BY <2>4, <2>6, <2>7 DEF Delivering
<1> QED BY <1>1, <1>2 DEF MessagingInductive

LEMMA ChainEnds ==
    ASSUME NEW ch \in [Nat -> Area], NEW lo \in Nat, NEW hi \in Nat, Chain(ch, lo, hi)
    PROVE  svc.first \in Listed /\ svc.last \in Listed /\ lo \in lo..hi /\ hi \in lo..hi
           /\ svc.first \in Area /\ svc.last \in Area
<1>1. lo \in lo..hi /\ hi \in lo..hi
  BY DEF Chain
<1> QED BY <1>1 DEF Chain, Listed

\* The areas that the sender and the service name are there.
LEMMA AreasThere ==
    ASSUME MessagingInductive, svc.first # NoArea
    PROVE  /\ svc.first \in Listed /\ svc.last \in Listed /\ NoArea \notin DOMAIN ring
           /\ snd.at \in {"acquire", "locked", "unlock"} => snd.area \in Listed
           /\ snd.kept = NoArea \/ snd.kept \in DOMAIN ring
<1>0. NoArea \notin Area
  BY MessagingAssumption
<1>1. PICK ch \in [Nat -> Area], lo \in Nat, hi \in Nat : Chain(ch, lo, hi)
  BY DEF MessagingInductive
<1>2. svc.first \in Listed /\ svc.last \in Listed
  BY <1>1, ChainEnds
<1>3. NoArea \notin DOMAIN ring /\ (snd.kept = NoArea \/ snd.kept \in DOMAIN ring)
  BY <1>0, <1>1 DEF Chain
<1> QED BY <1>2, <1>3 DEF MessagingInductive, SenderOK

\* What the lemmas below begin with
LEMMA SenderBusy ==
    ASSUME MessagingInductive, snd.at # "idle"
    PROVE  /\ svc.first # NoArea /\ svc.first \in Listed /\ svc.last \in Listed
           /\ snd.at \in {"acquire", "locked", "unlock"} => snd.area \in Listed
  BY AreasThere DEF MessagingInductive, SenderOK
LEMMA ReaderThere ==
    ASSUME MessagingInductive, rdr.at # "none"
    PROVE  svc.first # NoArea /\ rdr.area \in Listed /\ SemsThere /\ Locks
<1>1. PICK ch \in [Nat -> Area], lo \in Nat, hi \in Nat,
           from \in [Nat -> Nat], at \in [Nat -> Nat], sz \in [Nat -> Nat],
           k \in Nat, m \in Nat, n \in Nat : Delivering(ch, lo, hi, from, at, sz, k, m, n)
  BY DEF MessagingInductive
<1>2. rdr.area \in Listed /\ SemsThere /\ Locks
  BY <1>1 DEF Delivering, Chain, Reading, Listed, SemsThere
<1> QED BY <1>2 DEF MessagingInductive, SenderOK

LEMMA SendMessageKeeps ==
    ASSUME MessagingInductive, NEW data \in DataSizes, SendMessage(data)
    PROVE  MessagingInductive'
<1>0. CommandSize \in Nat /\ AreaSize \in Nat /\ HeaderSize \in Nat /\ data \in Nat
  BY MessagingAssumption
<1>1. /\ snd.at = "idle" /\ svc.first # NoArea /\ Len(sent) < MaxMessages /\ snd.kept = NoArea
      /\ CommandSize + data <= AreaSize - HeaderSize
      /\ snd' = [NoSend EXCEPT !.at = "discard", !.size = CommandSize + data]
      /\ ring' = ring /\ svc' = svc /\ teams' = teams /\ sems' = sems /\ rdr' = rdr /\ sent' = sent /\ got' = got
  BY DEF SendMessage, CheckCommandSize, MessagingInductive, SenderOK
<1>2. snd' = [at |-> "discard", size |-> CommandSize + data, area |-> NoArea, kept |-> NoArea, empty |-> FALSE]
  BY <1>1 DEF NoSend
<1>3. snd'.at = "discard" /\ snd'.size = CommandSize + data /\ snd'.kept = NoArea
  BY <1>2
<1>a. snd' \in [at : SenderPlaces, size : Nat, area : Area \cup {NoArea}, kept : Area \cup {NoArea}, empty : BOOLEAN]
  <2>1. CommandSize + data \in Nat
    BY <1>0
  <2> QED BY <2>1, <1>2 DEF SenderPlaces
<1>4. MessagingTypes'
  BY <1>1, <1>a DEF MessagingInductive, MessagingTypes
<1>5. SenderOK'
  BY <1>0, <1>1, <1>3 DEF MessagingInductive, SenderOK
<1>6. \A a \in DOMAIN ring : Kept(ring[a], ring'[a])
  BY <1>1 DEF Kept
<1>7. Locks => Locks'
  BY <1>1, <1>3 DEF Locks, Listed, SenderHas, SenderWaits, ReaderHas, ReaderWaits
<1>8. \A m, n \in Nat : Roused(m, n) => Roused(m, n)'
  BY <1>1, <1>3 DEF Roused
<1>9. \A m, n \in Nat : Counted(m, n) => Counted(m, n)'
  <2> TAKE m \in Nat, n \in Nat
  <2>1. Len(Numbers(0, n)) = n
    BY NumbersMeet
  <2> QED BY <1>1, <2>1 DEF Counted
<1> QED BY <1>1, <1>3, <1>4, <1>5, <1>6, <1>7, <1>8, <1>9, LocksOnly

LEMMA SenderLocksKeeps ==
    ASSUME MessagingInductive, SenderLocks
    PROVE  MessagingInductive'
<1> DEFINE a == svc.first
<1>1. /\ snd.at = "discard" /\ a # NoArea /\ a \in Listed /\ a \in DOMAIN ring
      /\ snd' = [snd EXCEPT !.area = a, !.at = IF FreeOf(a) \/ ~SemsThere THEN "locked" ELSE "acquire"]
      /\ ring' = LockCount(a, 1)
      /\ svc' = svc /\ teams' = teams /\ sems' = sems /\ rdr' = rdr /\ sent' = sent /\ got' = got
  BY SenderBusy DEF SenderLocks, Listed
<1>2. DOMAIN ring' = DOMAIN ring /\ \A x \in DOMAIN ring : /\ Kept(ring[x], ring'[x]) /\ Header(ring'[x])
                 /\ ring'[x].lock = IF x = a THEN ring[a].lock + 1 ELSE ring[x].lock
  BY <1>1, LockCounted DEF MessagingInductive, MessagingTypes
<1>3. /\ snd'.at = (IF FreeOf(a) \/ ~SemsThere THEN "locked" ELSE "acquire")
      /\ snd'.size = snd.size /\ snd'.kept = snd.kept /\ snd'.area = a /\ snd'.empty = snd.empty
      /\ snd' \in [at : SenderPlaces, size : Nat, area : Area \cup {NoArea}, kept : Area \cup {NoArea}, empty : BOOLEAN]
  BY <1>1 DEF MessagingInductive, MessagingTypes, SenderPlaces
<1> HIDE DEF a
<1>4. MessagingTypes'
  BY <1>1, <1>2, <1>3 DEF MessagingInductive, MessagingTypes
<1>5. SenderOK'
  BY <1>1, <1>3 DEF MessagingInductive, SenderOK, a
<1>7. SemsThere /\ Locks /\ rdr.area \in Listed => Locks'
  <2> SUFFICES ASSUME SemsThere, Locks, rdr.area \in Listed PROVE Locks'
    OBVIOUS
  <2>1. ring[a].lock = (IF ReaderHas(a) \/ ReaderWaits(a) THEN 1 ELSE 0)
    BY <1>1 DEF Locks, SenderHas, SenderWaits
  <2>2. Listed' = Listed
    BY <1>1, <1>2, <1>3 DEF Listed
  <2> QED BY <2>1, <2>2, <1>1, <1>2, <1>3 DEF Locks, SenderHas, SenderWaits, ReaderHas, ReaderWaits, FreeOf, Listed
<1>8. \A m, n \in Nat : Roused(m, n) => Roused(m, n)'
  BY <1>1, <1>3 DEF Roused
<1>9. \A m, n \in Nat : Counted(m, n) => Counted(m, n)'
  BY <1>1, <1>3 DEF Counted
<1> QED BY <1>1, <1>2, <1>3, <1>4, <1>5, <1>7, <1>8, <1>9, LocksOnly

LEMMA SenderAcquiresKeeps ==
    ASSUME MessagingInductive, SenderAcquires
    PROVE  MessagingInductive'
<1>1. /\ snd.at = "acquire" /\ svc.first # NoArea /\ snd.area \in Listed
      /\ (sems.lock > 0 \/ ~SemsThere)
      /\ sems' = (IF SemsThere THEN [sems EXCEPT !.lock = @ - 1] ELSE sems)
      /\ snd' = [snd EXCEPT !.at = "locked"]
      /\ ring' = ring /\ svc' = svc /\ teams' = teams /\ rdr' = rdr /\ sent' = sent /\ got' = got
  BY SenderBusy DEF SenderAcquires
<1>2. /\ snd'.at = "locked" /\ snd'.size = snd.size /\ snd'.kept = snd.kept /\ snd'.area = snd.area /\ snd'.empty = snd.empty
      /\ snd' \in [at : SenderPlaces, size : Nat, area : Area \cup {NoArea}, kept : Area \cup {NoArea}, empty : BOOLEAN]
  BY <1>1 DEF MessagingInductive, MessagingTypes, SenderPlaces
<1>3. /\ sems' \in [lock : Int, counter : Nat] /\ sems'.counter = sems.counter
      /\ (SemsThere => sems'.lock = sems.lock - 1)
  BY <1>1 DEF MessagingInductive, MessagingTypes
<1>4. MessagingTypes'
  BY <1>1, <1>2, <1>3 DEF MessagingInductive, MessagingTypes
<1>5. SenderOK'
  BY <1>1, <1>2 DEF MessagingInductive, SenderOK
<1>6. \A x \in DOMAIN ring : Kept(ring[x], ring'[x])
  BY <1>1 DEF Kept
<1>7. SemsThere /\ Locks /\ rdr.area \in Listed => Locks'
  <2> SUFFICES ASSUME SemsThere, Locks, rdr.area \in Listed PROVE Locks'
    OBVIOUS
  <2>1. sems.lock = 1 /\ ~ReaderHas(snd.area) /\ sems'.lock = 0
    BY <1>1, <1>3 DEF Locks
  <2>2. Listed' = Listed
    BY <1>1, <1>2 DEF Listed
  <2> QED BY <2>1, <2>2, <1>1, <1>2 DEF Locks, SenderHas, SenderWaits, ReaderHas, ReaderWaits
<1>8. \A m, n \in Nat : Roused(m, n) => Roused(m, n)'
  BY <1>1, <1>2, <1>3 DEF Roused
<1>9. \A m, n \in Nat : Counted(m, n) => Counted(m, n)'
  BY <1>1, <1>2 DEF Counted
<1> QED BY <1>1, <1>2, <1>4, <1>5, <1>6, <1>7, <1>8, <1>9, LocksOnly

LEMMA KeepFirstKeeps ==
    ASSUME MessagingInductive, KeepFirst
    PROVE  MessagingInductive'
<1> DEFINE a == snd.area
           l == svc.last
           r == LockCount(a, -1)
<1>1. /\ snd.at = "locked" /\ svc.first # NoArea /\ a \in Listed /\ l \in Listed /\ a # l
      /\ a \in DOMAIN ring /\ l \in DOMAIN ring
      /\ sems' = Unlocked(ring, sems, a)
      /\ ring' = [r EXCEPT ![l].lock = @ + 1]
      /\ snd' = [snd EXCEPT !.area = l, !.at = IF FreeOf(l) \/ ~SemsThere THEN "locked" ELSE "acquire"]
      /\ svc' = svc /\ teams' = teams /\ rdr' = rdr /\ sent' = sent /\ got' = got
  BY SenderBusy DEF KeepFirst, Listed
<1>2. DOMAIN r = DOMAIN ring /\ \A x \in DOMAIN ring : /\ Kept(ring[x], r[x]) /\ Header(r[x])
                 /\ r[x].lock = IF x = a THEN ring[a].lock - 1 ELSE ring[x].lock
  <2>1. \A x \in DOMAIN ring : Header(ring[x])
    BY DEF MessagingInductive, MessagingTypes
  <2>2. -1 \in Int
    OBVIOUS
  <2>3. \A x \in DOMAIN ring : ring[x].lock \in Int /\ ring[x].lock + (-1) = ring[x].lock - 1
    BY <2>1 DEF Header
  <2> HIDE DEF r
  <2>4. r = LockCount(a, -1)
    BY DEF r
  <2> QED BY <1>1, <2>1, <2>2, <2>3, <2>4, LockCounted
<1> HIDE DEF r, a, l
<1>3. DOMAIN ring' = DOMAIN ring /\ ring'[l] = [r[l] EXCEPT !.lock = @ + 1]
      /\ \A x \in DOMAIN ring : x # l => ring'[x] = r[x]
  BY <1>1, <1>2
<1>4. Kept(ring[l], ring'[l]) /\ Header(ring'[l]) /\ ring'[l].lock = ring[l].lock + 1
  <2>1. Kept(ring[l], r[l]) /\ Header(r[l]) /\ r[l].lock = ring[l].lock
    BY <1>1, <1>2
  <2> QED BY <2>1, <1>3 DEF Kept, Header
<1>5. \A x \in DOMAIN ring : Kept(ring[x], ring'[x]) /\ Header(ring'[x])
  BY <1>2, <1>3, <1>4
<1>6. \A x \in DOMAIN ring :
        ring'[x].lock = IF x = a THEN ring[a].lock - 1 ELSE IF x = l THEN ring[l].lock + 1 ELSE ring[x].lock
  BY <1>1, <1>2, <1>3, <1>4
<1>7. /\ snd'.at = (IF FreeOf(l) \/ ~SemsThere THEN "locked" ELSE "acquire")
      /\ snd'.size = snd.size /\ snd'.kept = snd.kept /\ snd'.area = l /\ snd'.empty = snd.empty
      /\ snd' \in [at : SenderPlaces, size : Nat, area : Area \cup {NoArea}, kept : Area \cup {NoArea}, empty : BOOLEAN]
  BY <1>1 DEF MessagingInductive, MessagingTypes, SenderPlaces, l
<1>8. /\ sems' \in [lock : Int, counter : Nat] /\ sems'.counter = sems.counter
      /\ (SemsThere => sems'.lock = IF ring[a].lock > 1 THEN sems.lock + 1 ELSE sems.lock)
  BY <1>1 DEF MessagingInductive, MessagingTypes, Unlocked
<1>9. MessagingTypes'
  BY <1>1, <1>3, <1>5, <1>7, <1>8 DEF MessagingInductive, MessagingTypes
<1>10. SenderOK'
  BY <1>1, <1>7 DEF MessagingInductive, SenderOK, l
<1>11. SemsThere /\ Locks /\ rdr.area \in Listed => Locks'
  <2> SUFFICES ASSUME SemsThere, Locks, rdr.area \in Listed PROVE Locks'
    OBVIOUS
  <2>1. /\ ring[a].lock = 1 + (IF ReaderWaits(a) THEN 1 ELSE 0) /\ ~ReaderHas(a)
        /\ ring[l].lock = (IF ReaderHas(l) \/ ReaderWaits(l) THEN 1 ELSE 0)
        /\ sems.lock = IF rdr.at = "acquire" /\ rdr.area # a THEN 1 ELSE 0
    BY <1>1 DEF Locks, SenderHas, SenderWaits, a
  <2>2. Listed' = Listed
    BY <1>3, <1>7 DEF Listed
  <2>3. \A x \in Listed : x # a /\ x # l => ring[x].lock = IF ReaderHas(x) \/ ReaderWaits(x) THEN 1 ELSE 0
    BY DEF Locks, SenderHas, SenderWaits, a
  <2>4. \A x : (ReaderHas(x)' <=> ReaderHas(x)) /\ (ReaderWaits(x)' <=> ReaderWaits(x))
    BY <1>1 DEF ReaderHas, ReaderWaits
  <2>5. FreeOf(l) <=> ~(ReaderHas(l) \/ ReaderWaits(l))
    BY <2>1 DEF FreeOf
  <2>6. ASSUME NEW x \in Listed
        PROVE  /\ ring'[x].lock = (IF SenderHas(x)' \/ SenderWaits(x)' THEN 1 ELSE 0)
                                + (IF ReaderHas(x) \/ ReaderWaits(x) THEN 1 ELSE 0)
               /\ ~(SenderHas(x)' /\ ReaderHas(x))
    <3>1. (SenderHas(x)' <=> x = l /\ FreeOf(l)) /\ (SenderWaits(x)' <=> x = l /\ ~FreeOf(l))
      BY <1>7 DEF SenderHas, SenderWaits
    <3>2. x \in DOMAIN ring
      BY DEF Listed
    <3>3. CASE x = a
      BY <3>1, <3>2, <3>3, <1>1, <1>6, <2>1
    <3>4. CASE x = l
      BY <3>1, <3>2, <3>4, <1>1, <1>6, <2>1, <2>5
    <3>5. CASE x # a /\ x # l
      BY <3>1, <3>2, <3>5, <1>6, <2>3
    <3> QED BY <3>3, <3>4, <3>5
  <2>7. sems'.lock = IF snd'.at = "acquire" THEN (IF ReaderHas(snd'.area) THEN 0 ELSE 1)
                     ELSE IF rdr.at = "acquire" /\ ~SenderHas(rdr.area)' THEN 1 ELSE 0
    BY <1>1, <1>7, <1>8, <2>1, <2>5 DEF ReaderHas, ReaderWaits, SenderHas
  <2>8. snd'.at = "acquire" /\ rdr.at = "acquire" => snd'.area = rdr.area
    BY <1>7, <2>5 DEF ReaderHas, ReaderWaits
  <2> QED BY <2>2, <2>4, <2>6, <2>7, <2>8, <1>1 DEF Locks, ReaderHas, SenderHas
<1>12. \A m, n \in Nat : Roused(m, n) => Roused(m, n)'
  BY <1>1, <1>7, <1>8 DEF Roused
<1>13. \A m, n \in Nat : Counted(m, n) => Counted(m, n)'
  BY <1>1, <1>7 DEF Counted
<1> QED BY <1>1, <1>3, <1>5, <1>7, <1>9, <1>10, <1>11, <1>12, <1>13, LocksOnly

LEMMA SenderUnlocksKeeps ==
    ASSUME MessagingInductive, SenderUnlocks
    PROVE  MessagingInductive'
<1> DEFINE a == snd.area
<1>1. /\ snd.at = "unlock" /\ svc.first # NoArea /\ a \in Listed /\ a \in DOMAIN ring /\ snd.kept = NoArea
      /\ sems' = Unlocked(ring, sems, a)
      /\ ring' = LockCount(a, -1)
      /\ snd' = (IF snd.empty THEN [snd EXCEPT !.at = "commit"] ELSE NoSend)
      /\ svc' = svc /\ teams' = teams /\ rdr' = rdr /\ sent' = sent /\ got' = got
  BY SenderBusy DEF SenderUnlocks, Listed, MessagingInductive, SenderOK
<1>2. DOMAIN ring' = DOMAIN ring /\ \A x \in DOMAIN ring : /\ Kept(ring[x], ring'[x]) /\ Header(ring'[x])
                 /\ ring'[x].lock = IF x = a THEN ring[a].lock - 1 ELSE ring[x].lock
  <2>1. \A x \in DOMAIN ring : Header(ring[x])
    BY DEF MessagingInductive, MessagingTypes
  <2>2. -1 \in Int
    OBVIOUS
  <2>3. \A x \in DOMAIN ring : ring[x].lock \in Int /\ ring[x].lock + (-1) = ring[x].lock - 1
    BY <2>1 DEF Header
  <2> QED BY <1>1, <2>1, <2>2, <2>3, LockCounted
<1>3. /\ snd'.at = (IF snd.empty THEN "commit" ELSE "idle") /\ snd'.kept = NoArea
      /\ snd' \in [at : SenderPlaces, size : Nat, area : Area \cup {NoArea}, kept : Area \cup {NoArea}, empty : BOOLEAN]
  <2>1. CASE snd.empty
    BY <1>1, <2>1 DEF MessagingInductive, MessagingTypes, SenderPlaces
  <2>2. CASE ~snd.empty
    <3>1. snd' = NoSend
      BY <1>1, <2>2
    <3> QED BY <3>1, <2>2 DEF NoSend, SenderPlaces
  <2> QED BY <2>1, <2>2
<1>4. /\ sems' \in [lock : Int, counter : Nat] /\ sems'.counter = sems.counter
      /\ (SemsThere => sems'.lock = IF ring[a].lock > 1 THEN sems.lock + 1 ELSE sems.lock)
  BY <1>1 DEF MessagingInductive, MessagingTypes, Unlocked
<1>5. MessagingTypes'
  BY <1>1, <1>2, <1>3, <1>4 DEF MessagingInductive, MessagingTypes
<1>6. SenderOK'
  BY <1>1, <1>3 DEF MessagingInductive, SenderOK
<1>7. SemsThere /\ Locks /\ rdr.area \in Listed => Locks'
  <2> SUFFICES ASSUME SemsThere, Locks, rdr.area \in Listed PROVE Locks'
    OBVIOUS
  <2>1. /\ ring[a].lock = 1 + (IF ReaderWaits(a) THEN 1 ELSE 0) /\ ~ReaderHas(a)
        /\ sems.lock = IF rdr.at = "acquire" /\ rdr.area # a THEN 1 ELSE 0
    BY <1>1 DEF Locks, SenderHas, SenderWaits
  <2>2. Listed' = Listed
    BY <1>1, <1>2, <1>3 DEF Listed
  <2>3. \A x \in Listed : x # a => ring[x].lock = IF ReaderHas(x) \/ ReaderWaits(x) THEN 1 ELSE 0
    BY DEF Locks, SenderHas, SenderWaits
  <2>4. \A x : ~SenderHas(x)' /\ ~SenderWaits(x)' /\ (ReaderHas(x)' <=> ReaderHas(x)) /\ (ReaderWaits(x)' <=> ReaderWaits(x))
    BY <1>1, <1>3 DEF SenderHas, SenderWaits, ReaderHas, ReaderWaits
  <2>5. \A x \in Listed : ring'[x].lock = IF ReaderHas(x) \/ ReaderWaits(x) THEN 1 ELSE 0
    BY <1>2, <2>1, <2>3 DEF Listed
  <2>6. sems'.lock = IF rdr.at = "acquire" THEN 1 ELSE 0
    BY <1>1, <1>4, <2>1 DEF ReaderWaits
  <2>7. snd'.at # "acquire"
    BY <1>3
  <2> HIDE DEF a
  <2> QED BY <2>2, <2>4, <2>5, <2>6, <2>7, <1>1 DEF Locks
<1>8. \A m, n \in Nat : Roused(m, n) => Roused(m, n)'
  BY <1>1, <1>3, <1>4 DEF Roused
<1>9. \A m, n \in Nat : Counted(m, n) => Counted(m, n)'
  BY <1>1, <1>3 DEF Counted
<1> QED BY <1>1, <1>2, <1>3, <1>5, <1>6, <1>7, <1>8, <1>9, LocksOnly

LEMMA AllocateFailsKeeps ==
    ASSUME MessagingInductive, AllocateFails
    PROVE  MessagingInductive'
<1> DEFINE a == snd.area
<1>1. /\ snd.at = "locked" /\ svc.first # NoArea /\ a \in Listed /\ a \in DOMAIN ring /\ snd.kept = NoArea
      /\ sems' = Unlocked(ring, sems, a)
      /\ ring' = LockCount(a, -1)
      /\ snd' = NoSend
      /\ svc' = svc /\ teams' = teams /\ rdr' = rdr /\ sent' = sent /\ got' = got
  BY SenderBusy DEF AllocateFails, Listed, MessagingInductive, SenderOK
<1>2. DOMAIN ring' = DOMAIN ring /\ \A x \in DOMAIN ring : /\ Kept(ring[x], ring'[x]) /\ Header(ring'[x])
                 /\ ring'[x].lock = IF x = a THEN ring[a].lock - 1 ELSE ring[x].lock
  <2>1. \A x \in DOMAIN ring : Header(ring[x])
    BY DEF MessagingInductive, MessagingTypes
  <2>2. -1 \in Int
    OBVIOUS
  <2>3. \A x \in DOMAIN ring : ring[x].lock \in Int /\ ring[x].lock + (-1) = ring[x].lock - 1
    BY <2>1 DEF Header
  <2> QED BY <1>1, <2>1, <2>2, <2>3, LockCounted
<1>3. /\ snd'.at = "idle" /\ snd'.kept = NoArea
      /\ snd' \in [at : SenderPlaces, size : Nat, area : Area \cup {NoArea}, kept : Area \cup {NoArea}, empty : BOOLEAN]
  BY <1>1 DEF NoSend, SenderPlaces
<1>4. /\ sems' \in [lock : Int, counter : Nat] /\ sems'.counter = sems.counter
      /\ (SemsThere => sems'.lock = IF ring[a].lock > 1 THEN sems.lock + 1 ELSE sems.lock)
  BY <1>1 DEF MessagingInductive, MessagingTypes, Unlocked
<1>5. MessagingTypes'
  BY <1>1, <1>2, <1>3, <1>4 DEF MessagingInductive, MessagingTypes
<1>6. SenderOK'
  BY <1>1, <1>3 DEF MessagingInductive, SenderOK
<1>7. SemsThere /\ Locks /\ rdr.area \in Listed => Locks'
  <2> SUFFICES ASSUME SemsThere, Locks, rdr.area \in Listed PROVE Locks'
    OBVIOUS
  <2>1. /\ ring[a].lock = 1 + (IF ReaderWaits(a) THEN 1 ELSE 0) /\ ~ReaderHas(a)
        /\ sems.lock = IF rdr.at = "acquire" /\ rdr.area # a THEN 1 ELSE 0
    BY <1>1 DEF Locks, SenderHas, SenderWaits
  <2>2. Listed' = Listed
    BY <1>1, <1>2, <1>3 DEF Listed
  <2>3. \A x \in Listed : x # a => ring[x].lock = IF ReaderHas(x) \/ ReaderWaits(x) THEN 1 ELSE 0
    BY DEF Locks, SenderHas, SenderWaits
  <2>4. \A x : ~SenderHas(x)' /\ ~SenderWaits(x)' /\ (ReaderHas(x)' <=> ReaderHas(x)) /\ (ReaderWaits(x)' <=> ReaderWaits(x))
    BY <1>1, <1>3 DEF SenderHas, SenderWaits, ReaderHas, ReaderWaits
  <2>5. \A x \in Listed : ring'[x].lock = IF ReaderHas(x) \/ ReaderWaits(x) THEN 1 ELSE 0
    BY <1>2, <2>1, <2>3 DEF Listed
  <2>6. sems'.lock = IF rdr.at = "acquire" THEN 1 ELSE 0
    BY <1>1, <1>4, <2>1 DEF ReaderWaits
  <2>7. snd'.at # "acquire"
    BY <1>3
  <2> HIDE DEF a
  <2> QED BY <2>2, <2>4, <2>5, <2>6, <2>7, <1>1 DEF Locks
<1>8. \A m, n \in Nat : Roused(m, n) => Roused(m, n)'
  BY <1>1, <1>3, <1>4 DEF Roused
<1>9. \A m, n \in Nat : Counted(m, n) => Counted(m, n)'
  BY <1>1, <1>3 DEF Counted
<1> QED BY <1>1, <1>2, <1>3, <1>5, <1>6, <1>7, <1>8, <1>9, LocksOnly

LEMMA CommitKeeps ==
    ASSUME MessagingInductive, Commit
    PROVE  MessagingInductive'
<1>1. /\ snd.at = "commit" /\ svc.first # NoArea /\ snd.kept = NoArea
      /\ sems' = CommitCommand /\ snd' = NoSend
      /\ ring' = ring /\ svc' = svc /\ teams' = teams /\ rdr' = rdr /\ sent' = sent /\ got' = got
  BY SenderBusy DEF Commit, MessagingInductive, SenderOK
<1>2. /\ snd'.at = "idle" /\ snd'.kept = NoArea
      /\ snd' \in [at : SenderPlaces, size : Nat, area : Area \cup {NoArea}, kept : Area \cup {NoArea}, empty : BOOLEAN]
  BY <1>1 DEF NoSend, SenderPlaces
<1>3. /\ sems' \in [lock : Int, counter : Nat] /\ sems'.lock = sems.lock
      /\ sems.counter \in Nat /\ (SemsThere => sems'.counter = sems.counter + 1)
  BY <1>1 DEF MessagingInductive, MessagingTypes, CommitCommand
<1>4. MessagingTypes'
  BY <1>1, <1>2, <1>3 DEF MessagingInductive, MessagingTypes
<1>5. SenderOK'
  BY <1>1, <1>2 DEF MessagingInductive, SenderOK
<1>6. \A x \in DOMAIN ring : Kept(ring[x], ring'[x])
  BY <1>1 DEF Kept
<1>7. Locks => Locks'
  BY <1>1, <1>2, <1>3 DEF Locks, Listed, SenderHas, SenderWaits, ReaderHas, ReaderWaits
<1>8. \A m, n \in Nat : Roused(m, n) => Roused(m, n)'
  <2>1. rdr.at # "none" => SemsThere
    BY ReaderThere
  <2> QED BY <2>1, <1>1, <1>3 DEF Roused
<1>9. \A m, n \in Nat : Counted(m, n) => Counted(m, n)'
  BY <1>1, <1>2 DEF Counted
<1> QED BY <1>1, <1>2, <1>4, <1>5, <1>6, <1>7, <1>8, <1>9, LocksOnly

LEMMA ReaderWakesKeeps ==
    ASSUME MessagingInductive, ReaderWakes
    PROVE  MessagingInductive'
<1>1. /\ rdr.at = "wait" /\ sems.counter > 0 /\ svc.first # NoArea
      /\ sems' = [sems EXCEPT !.counter = @ - 1] /\ rdr' = [rdr EXCEPT !.at = "lock"]
      /\ ring' = ring /\ svc' = svc /\ teams' = teams /\ snd' = snd /\ sent' = sent /\ got' = got
  BY ReaderThere DEF ReaderWakes
<1>2. rdr'.at = "lock" /\ rdr'.area = rdr.area /\ rdr' \in [at : ReaderPlaces, area : Area \cup {NoArea}]
  BY <1>1 DEF MessagingInductive, MessagingTypes, ReaderPlaces
<1>3. sems' \in [lock : Int, counter : Nat] /\ sems'.lock = sems.lock
  BY SMTT(30), <1>1 DEF MessagingInductive, MessagingTypes
<1>4. MessagingTypes'
  BY <1>1, <1>2, <1>3 DEF MessagingInductive, MessagingTypes
<1>5. SenderOK'
  BY <1>1, <1>2 DEF MessagingInductive, SenderOK
<1>6. \A x \in DOMAIN ring : Kept(ring[x], ring'[x])
  BY <1>1 DEF Kept
<1>7. Locks => Locks'
  BY <1>1, <1>2, <1>3 DEF Locks, Listed, SenderHas, SenderWaits, ReaderHas, ReaderWaits
<1>8. \A m, n \in Nat : Roused(m, n) => Roused(m, n)'
  BY <1>2 DEF Roused
<1>9. \A m, n \in Nat : Counted(m, n) => Counted(m, n)'
  BY <1>1 DEF Counted
<1> QED BY <1>1, <1>2, <1>4, <1>5, <1>6, <1>7, <1>8, <1>9, LocksOnly

LEMMA ReaderLocksKeeps ==
    ASSUME MessagingInductive, ReaderLocks
    PROVE  MessagingInductive'
<1> DEFINE a == rdr.area
<1>1. /\ rdr.at = "lock" /\ svc.first # NoArea /\ a \in Listed /\ a \in DOMAIN ring
      /\ ring' = LockCount(a, 1)
      /\ rdr' = [rdr EXCEPT !.at = IF FreeOf(a) THEN "pop" ELSE "acquire"]
      /\ svc' = svc /\ teams' = teams /\ sems' = sems /\ snd' = snd /\ sent' = sent /\ got' = got
  BY ReaderThere DEF ReaderLocks, Listed
<1>2. DOMAIN ring' = DOMAIN ring /\ \A x \in DOMAIN ring : /\ Kept(ring[x], ring'[x]) /\ Header(ring'[x])
                 /\ ring'[x].lock = IF x = a THEN ring[a].lock + 1 ELSE ring[x].lock
  <2>1. \A x \in DOMAIN ring : Header(ring[x])
    BY DEF MessagingInductive, MessagingTypes
  <2>2. 1 \in Int
    OBVIOUS
  <2> QED BY <1>1, <2>1, <2>2, LockCounted
<1>3. rdr'.at = (IF FreeOf(a) THEN "pop" ELSE "acquire") /\ rdr'.area = a
      /\ rdr' \in [at : ReaderPlaces, area : Area \cup {NoArea}]
  BY <1>1 DEF MessagingInductive, MessagingTypes, ReaderPlaces
<1>4. MessagingTypes'
  BY <1>1, <1>2, <1>3 DEF MessagingInductive, MessagingTypes
<1>5. SenderOK'
  BY <1>1, <1>2, <1>3 DEF MessagingInductive, SenderOK
<1>7. Locks => Locks'
  <2> SUFFICES ASSUME Locks PROVE Locks'
    OBVIOUS
  <2>1. ring[a].lock = IF SenderHas(a) \/ SenderWaits(a) THEN 1 ELSE 0
    BY <1>1 DEF Locks, ReaderHas, ReaderWaits
  <2>2. Listed' = Listed
    BY <1>1, <1>2 DEF Listed
  <2>3. \A x : ~ReaderHas(x) /\ ~ReaderWaits(x)
    BY <1>1 DEF ReaderHas, ReaderWaits
  <2>4. \A x : (SenderHas(x)' <=> SenderHas(x)) /\ (SenderWaits(x)' <=> SenderWaits(x))
    BY <1>1 DEF SenderHas, SenderWaits
  <2>5. FreeOf(a) <=> ~(SenderHas(a) \/ SenderWaits(a))
    BY <2>1 DEF FreeOf
  <2>6. \A x : (ReaderHas(x)' <=> x = a /\ FreeOf(a)) /\ (ReaderWaits(x)' <=> x = a /\ ~FreeOf(a))
    BY <1>3 DEF ReaderHas, ReaderWaits
  <2>7. sems.lock = IF snd.at = "acquire" THEN 1 ELSE 0
    BY <1>1, <2>3 DEF Locks
  <2>8. ASSUME NEW x \in Listed
        PROVE  /\ ring'[x].lock = (IF SenderHas(x) \/ SenderWaits(x) THEN 1 ELSE 0)
                                + (IF ReaderHas(x)' \/ ReaderWaits(x)' THEN 1 ELSE 0)
               /\ ~(SenderHas(x) /\ ReaderHas(x)')
    <3>1. x \in DOMAIN ring
      BY DEF Listed
    <3>2. CASE x = a
      BY <3>1, <3>2, <1>2, <2>1, <2>5, <2>6
    <3>3. CASE x # a
      BY <3>1, <3>3, <1>2, <2>3, <2>6 DEF Locks
    <3> QED BY <3>2, <3>3
  <2>9. sems.lock = IF snd.at = "acquire" THEN (IF rdr'.at = "pop" /\ a = snd.area THEN 0 ELSE 1)
                    ELSE IF rdr'.at = "acquire" /\ ~SenderHas(a) THEN 1 ELSE 0
    <3>1. CASE FreeOf(a)
      BY <3>1, <2>5, <2>7, <1>3 DEF SenderWaits
    <3>2. CASE ~FreeOf(a)
      BY <3>2, <2>5, <2>7, <1>3 DEF SenderHas, SenderWaits
    <3> QED BY <3>1, <3>2
  <2>10. snd.at = "acquire" /\ rdr'.at = "acquire" => snd.area = a
    BY <2>5, <1>3 DEF SenderHas, SenderWaits
  <2> HIDE DEF a
  <2>11. rdr'.area = a /\ snd'.area = snd.area /\ snd'.at = snd.at /\ sems'.lock = sems.lock
    BY <1>1, <1>3
  <2> QED BY <2>2, <2>4, <2>8, <2>9, <2>10, <2>11, <1>1, <1>3 DEF Locks, ReaderHas, SenderHas
<1>8. \A m, n \in Nat : Roused(m, n) => Roused(m, n)'
  BY <1>3 DEF Roused
<1>9. \A m, n \in Nat : Counted(m, n) => Counted(m, n)'
  BY <1>1 DEF Counted
<1> QED BY <1>1, <1>2, <1>3, <1>4, <1>5, <1>7, <1>8, <1>9, LocksOnly

LEMMA ReaderAcquiresKeeps ==
    ASSUME MessagingInductive, ReaderAcquires
    PROVE  MessagingInductive'
<1>1. /\ rdr.at = "acquire" /\ sems.lock > 0 /\ svc.first # NoArea /\ rdr.area \in Listed
      /\ sems' = [sems EXCEPT !.lock = @ - 1] /\ rdr' = [rdr EXCEPT !.at = "pop"]
      /\ ring' = ring /\ svc' = svc /\ teams' = teams /\ snd' = snd /\ sent' = sent /\ got' = got
  BY ReaderThere DEF ReaderAcquires
<1>2. rdr'.at = "pop" /\ rdr'.area = rdr.area /\ rdr' \in [at : ReaderPlaces, area : Area \cup {NoArea}]
  BY <1>1 DEF MessagingInductive, MessagingTypes, ReaderPlaces
<1>3. sems' \in [lock : Int, counter : Nat] /\ sems'.counter = sems.counter /\ sems'.lock = sems.lock - 1
  BY <1>1 DEF MessagingInductive, MessagingTypes
<1>4. MessagingTypes'
  BY <1>1, <1>2, <1>3 DEF MessagingInductive, MessagingTypes
<1>5. SenderOK'
  BY <1>1, <1>2 DEF MessagingInductive, SenderOK
<1>6. \A x \in DOMAIN ring : Kept(ring[x], ring'[x])
  BY <1>1 DEF Kept
<1>7. Locks => Locks'
  <2> SUFFICES ASSUME Locks PROVE Locks'
    OBVIOUS
  <2>1. ~SenderHas(rdr.area) /\ sems'.lock = 0
    BY <1>1, <1>3 DEF Locks, ReaderHas, SenderHas
  <2>2. Listed' = Listed
    BY <1>1 DEF Listed
  <2> QED BY <2>1, <2>2, <1>1, <1>2 DEF Locks, SenderHas, SenderWaits, ReaderHas, ReaderWaits
<1>8. \A m, n \in Nat : Roused(m, n) => Roused(m, n)'
  BY <1>2 DEF Roused
<1>9. \A m, n \in Nat : Counted(m, n) => Counted(m, n)'
  BY <1>1 DEF Counted
<1> QED BY <1>1, <1>2, <1>4, <1>5, <1>6, <1>7, <1>8, <1>9, LocksOnly

-----------------------------------------------------------------------------
(* The steps that start and end the service *)

LEMMA RegisterServiceKeeps ==
    ASSUME MessagingInductive, NEW t \in Registrar, RegisterService(t)
    PROVE  MessagingInductive'
<1>0. NoArea \notin Area /\ NoTeam \notin Registrar /\ MaxMessages \in Nat
  BY MessagingAssumption
<1>1. DOMAIN ring = {} /\ snd.at = "idle" /\ snd.kept = NoArea /\ t \in teams
  BY DEF RegisterService, MessagingInductive, SenderOK
<1>2. PICK a \in NewArea :
        /\ ring' = [x \in DOMAIN ring \cup {a} |-> IF x = a THEN [InitHeader EXCEPT !.lock = 0] ELSE ring[x]]
        /\ svc' = [first |-> a, last |-> a, team |-> t]
        /\ rdr' = [at |-> "wait", area |-> a]
  BY DEF RegisterService
<1>3. /\ sems' = [lock |-> 0, counter |-> 0] /\ sent' = <<>> /\ got' = <<>> /\ teams' = teams /\ snd' = snd
  BY DEF RegisterService
<1>4. a \in Area
  BY DEF NewArea
<1>5. ring' = [x \in {a} |-> [lock |-> 0, next |-> NoArea, count |-> 0, first |-> 0, last |-> 0, cmds |-> <<>>]]
  BY <1>1, <1>2 DEF InitHeader
<1>6. DOMAIN ring' = {a} /\ Header(ring'[a]) /\ ring'[a].lock = 0 /\ ring'[a].next = NoArea /\ ring'[a].count = 0
      /\ ring'[a].first = 0 /\ ring'[a].cmds = <<>>
  BY <1>5 DEF Header
<1>7. /\ svc'.first = a /\ svc'.last = a /\ svc'.team = t /\ rdr'.at = "wait" /\ rdr'.area = a
      /\ sems'.lock = 0 /\ sems'.counter = 0
  BY <1>2, <1>3
<1>8. MessagingTypes'
  <2>1. svc' \in [first : Area \cup {NoArea}, last : Area \cup {NoArea}, team : Registrar \cup {NoTeam}]
    BY <1>2, <1>4
  <2>2. sems' \in [lock : Int, counter : Nat]
    BY <1>3
  <2>3. rdr' \in [at : ReaderPlaces, area : Area \cup {NoArea}]
    BY <1>2, <1>4 DEF ReaderPlaces
  <2> QED BY <2>1, <2>2, <2>3, <1>3, <1>6, <1>7 DEF MessagingInductive, MessagingTypes
<1>9. SenderOK'
  BY <1>0, <1>1, <1>3, <1>4, <1>7 DEF SenderOK
<1> DEFINE ch == [i \in Nat |-> a]
           z == [i \in Nat |-> 0]
<1>10. ch \in [Nat -> Area] /\ z \in [Nat -> Nat] /\ ch[0] = a /\ z[0] = 0
  BY <1>4
<1> HIDE DEF ch, z
<1>11. Chain(ch, 0, 0)'
  <2>1. \A i \in 0..0 : i = 0
    OBVIOUS
  <2>2. DOMAIN ring' = {ch[i] : i \in 0..0} \cup ({snd'.kept} \ {NoArea})
    BY <2>1, <1>1, <1>3, <1>6, <1>10
  <2>3. snd'.kept # a
    BY <1>0, <1>1, <1>3, <1>4
  <2> QED BY <2>1, <2>2, <2>3, <1>6, <1>7, <1>10 DEF Chain
<1>12. Filled(ch, 0, z, z, z, 0)'
  <2>1. RingOK(ring'[a], 0, z, z)
    <3>1. DOMAIN ring'[a].cmds = {z[j] : j \in (0 + 1)..(0 + 0)}
      BY <1>6
    <3> QED BY <3>1, <1>6 DEF RingOK, Ordered
  <2>2. \A i \in 0..0 : i = 0
    OBVIOUS
  <2> QED BY <2>1, <2>2, <1>10 DEF Filled
<1>13. Reading(ch, 0, 0, z, 0, 0, 0)'
  <2>1. \A i \in 0..0 : i = 0
    OBVIOUS
  <2> QED BY <2>1, <1>1, <1>3, <1>6, <1>7, <1>10 DEF Reading
<1>14. Locks'
  BY <1>1, <1>3, <1>6, <1>7 DEF Locks, Listed, SenderHas, SenderWaits, ReaderHas, ReaderWaits
<1>15. Roused(0, 0)'
  BY DEF Roused
<1>16. Counted(0, 0)'
  <2>1. Numbers(0, 0) \in Seq(Nat) /\ Len(Numbers(0, 0)) = 0
    BY NumbersMeet
  <2>2. Numbers(0, 0) = <<>>
    BY <2>1, EmptySeq
  <2> QED BY <2>2, <1>0, <1>1, <1>3 DEF Counted
<1>17. Delivering(ch, 0, 0, z, z, z, 0, 0, 0)'
  BY <1>11, <1>12, <1>13, <1>14, <1>15, <1>16 DEF Delivering
<1>18. \E c \in [Nat -> Area], lo, hi \in Nat : Chain(c, lo, hi)'
  BY <1>10, <1>11
<1>19. \E c \in [Nat -> Area], lo, hi \in Nat, from, at, sz \in [Nat -> Nat], k, m, n \in Nat :
          Delivering(c, lo, hi, from, at, sz, k, m, n)'
  BY <1>10, <1>17
<1> QED BY <1>8, <1>9, <1>18, <1>19 DEF MessagingInductive

LEMMA UnregisterServiceKeeps ==
    ASSUME MessagingInductive, UnregisterService
    PROVE  MessagingInductive'
<1>1. /\ snd.at = "idle" /\ snd.kept = NoArea
      /\ ring' = <<>> /\ svc' = NoService /\ rdr' = NoReader /\ teams' = teams /\ sems' = sems /\ snd' = snd
  BY DEF UnregisterService, MessagingInductive, SenderOK
<1>2. DOMAIN ring' = {}
  BY <1>1
<1>3. svc'.first = NoArea /\ rdr'.at = "none" /\ rdr'.area = NoArea
      /\ rdr' \in [at : ReaderPlaces, area : Area \cup {NoArea}]
      /\ svc' \in [first : Area \cup {NoArea}, last : Area \cup {NoArea}, team : Registrar \cup {NoTeam}]
  BY <1>1 DEF NoService, NoReader, ReaderPlaces
<1> QED BY <1>1, <1>2, <1>3 DEF MessagingInductive, MessagingTypes, SenderOK

LEMMA RegistrarLeavesKeeps ==
    ASSUME MessagingInductive, NEW t \in Registrar, RegistrarLeaves(t)
    PROVE  MessagingInductive'
<1>1. /\ teams' = teams \ {t} /\ rdr' = (IF svc.team = t THEN NoReader ELSE rdr)
      /\ ring' = ring /\ svc' = svc /\ sems' = sems /\ snd' = snd /\ sent' = sent /\ got' = got
  BY DEF RegistrarLeaves
<1>2. svc'.first # NoArea => \E ch \in [Nat -> Area], lo, hi \in Nat : Chain(ch, lo, hi)'
  <2> SUFFICES ASSUME svc'.first # NoArea
               PROVE  \E ch \in [Nat -> Area], lo, hi \in Nat : Chain(ch, lo, hi)'
    OBVIOUS
  <2>1. PICK ch \in [Nat -> Area], lo \in Nat, hi \in Nat : Chain(ch, lo, hi)
    BY <1>1 DEF MessagingInductive
  <2>2. Chain(ch, lo, hi)'
    BY <2>1, <1>1 DEF Chain
  <2> QED BY <2>2
<1>3. CASE svc.team = t
  <2>1. rdr'.at = "none" /\ rdr'.area = NoArea /\ rdr' \in [at : ReaderPlaces, area : Area \cup {NoArea}]
    BY <1>1, <1>3 DEF NoReader, ReaderPlaces
  <2> QED BY <2>1, <1>1, <1>2 DEF MessagingInductive, MessagingTypes, SenderOK
<1>4. CASE svc.team # t
  <2>1. rdr' = rdr
    BY <1>1, <1>4
  <2>2. MessagingTypes' /\ SenderOK'
    BY <2>1, <1>1 DEF MessagingInductive, MessagingTypes, SenderOK
  <2>3. ASSUME rdr'.at # "none"
        PROVE  \E ch \in [Nat -> Area], lo, hi \in Nat, from, at, sz \in [Nat -> Nat], k, m, n \in Nat :
                  Delivering(ch, lo, hi, from, at, sz, k, m, n)'
    <3>1. PICK ch \in [Nat -> Area], lo \in Nat, hi \in Nat,
               from \in [Nat -> Nat], at \in [Nat -> Nat], sz \in [Nat -> Nat],
               k \in Nat, m \in Nat, n \in Nat : Delivering(ch, lo, hi, from, at, sz, k, m, n)
      BY <2>1, <2>3 DEF MessagingInductive
    <3>2. svc.team \in teams
      BY <3>1 DEF Delivering, Reading
    <3>3. svc'.team \in teams'
      BY <3>2, <1>1, <1>4
    <3>4. Chain(ch, lo, hi)' /\ Filled(ch, hi, from, at, sz, k)' /\ Locks' /\ Roused(m, n)' /\ Counted(m, n)'
      <4>1. Chain(ch, lo, hi)'
        BY <3>1, <1>1 DEF Delivering, Chain
      <4>2. Filled(ch, hi, from, at, sz, k)'
        BY <3>1, <1>1 DEF Delivering, Filled
      <4>3. Locks'
        BY <3>1, <2>1, <1>1 DEF Delivering, Locks, Listed, SenderHas, SenderWaits, ReaderHas, ReaderWaits
      <4>4. Roused(m, n)' /\ Counted(m, n)'
        BY <3>1, <2>1, <1>1 DEF Delivering, Roused, Counted
      <4> QED BY <4>1, <4>2, <4>3, <4>4
    <3>5. Reading(ch, lo, hi, from, k, m, n)'
      BY <3>1, <3>3, <2>1, <1>1 DEF Delivering, Reading
    <3>6. Delivering(ch, lo, hi, from, at, sz, k, m, n)'
      BY <3>4, <3>5 DEF Delivering
    <3> QED BY <3>6
  <2> QED BY <2>2, <2>3, <1>2 DEF MessagingInductive
<1> QED BY <1>3, <1>4

-----------------------------------------------------------------------------
(* The reader takes a command, and leaves an area *)

LEMMA NumbersGrow ==
    ASSUME NEW n \in Nat
    PROVE  Append(Numbers(0, n), n + 1) = Numbers(0, n + 1)
<1>1. Numbers(0, n) \in Seq(Nat) /\ Len(Numbers(0, n)) = n
  BY NumbersMeet
<1>2. Numbers(0, n + 1) \in Seq(Nat) /\ Len(Numbers(0, n + 1)) = n + 1
  BY NumbersMeet
<1> DEFINE s == Append(Numbers(0, n), n + 1)
<1>3. /\ s \in Seq(Nat) /\ Len(s) = n + 1 /\ s[n + 1] = n + 1
      /\ \A i \in 1..n : s[i] = Numbers(0, n)[i]
  BY <1>1, AppendProperties
<1>4. \A i \in 1..(n + 1) : s[i] = Numbers(0, n + 1)[i]
  BY <1>3 DEF Numbers
<1> HIDE DEF s
<1>5. s = Numbers(0, n + 1)
  BY <1>2, <1>3, <1>4, SeqEqual
<1> QED BY <1>5 DEF s

\* Nobody comes or goes at an area.
LEMMA LocksStay ==
    ASSUME Locks, Listed' = Listed, \A x \in Listed : ring'[x].lock = ring[x].lock,
           sems' = sems, snd' = snd, rdr' = rdr
    PROVE  Locks'
<1>1. \A x : /\ SenderHas(x)' = SenderHas(x) /\ SenderWaits(x)' = SenderWaits(x)
             /\ ReaderHas(x)' = ReaderHas(x) /\ ReaderWaits(x)' = ReaderWaits(x)
  BY DEF SenderHas, SenderWaits, ReaderHas, ReaderWaits
<1> QED BY <1>1 DEF Locks

LEMMA ReaderPopsKeeps ==
    ASSUME MessagingInductive, ReaderPops
    PROVE  MessagingInductive'
<1>1. /\ rdr.at = "pop" /\ ring[rdr.area].count > 0
      /\ ring' = [ring EXCEPT ![rdr.area] = PopCommand(ring[rdr.area])]
      /\ got' = Append(got, ring[rdr.area].cmds[ring[rdr.area].first].msg)
      /\ svc' = svc /\ teams' = teams /\ sems' = sems /\ snd' = snd /\ rdr' = rdr /\ sent' = sent
  BY DEF ReaderPops
<1>2. PICK ch \in [Nat -> Area], lo \in Nat, hi \in Nat,
           from \in [Nat -> Nat], at \in [Nat -> Nat], sz \in [Nat -> Nat],
           k \in Nat, m \in Nat, n \in Nat : Delivering(ch, lo, hi, from, at, sz, k, m, n)
  BY <1>1 DEF MessagingInductive
<1>3. Chain(ch, lo, hi) /\ Reading(ch, lo, hi, from, k, m, n) /\ Filled(ch, hi, from, at, sz, k)
      /\ Locks /\ Roused(m, n) /\ Counted(m, n)
  BY <1>2 DEF Delivering
<1> DEFINE a == rdr.area
           r == ring[a]
           q == PopCommand(r)
           from2 == [from EXCEPT ![k] = from[k] + 1]
<1>4. a = ch[k] /\ k \in lo..hi /\ k \in k..hi /\ from[k] = m /\ a \in Listed /\ a \in DOMAIN ring
  BY <1>3 DEF Reading, Chain, Listed
<1>5. Header(r) /\ RingOK(r, from[k], at, sz) /\ r.count \in Nat
  <2>1. Header(r)
    BY <1>4 DEF MessagingInductive, MessagingTypes
  <2>2. RingOK(r, from[k], at, sz)
    BY <1>3, <1>4 DEF Filled
  <2> QED BY <2>1, <2>2 DEF RingOK
<1>6. /\ r.cmds[r.first].msg = m + 1
      /\ Header(q) /\ q.lock = r.lock /\ q.next = r.next /\ q.count = r.count - 1
      /\ RingOK(q, m + 1, at, sz)
  BY <1>1, <1>4, <1>5, RingPops
<1>7. from2 \in [Nat -> Nat] /\ from2[k] = m + 1 /\ \A i \in Nat : i # k => from2[i] = from[i]
  BY <1>4
<1> HIDE DEF q, from2
<1>8. DOMAIN ring' = DOMAIN ring /\ ring'[a] = q /\ \A x \in DOMAIN ring : x # a => ring'[x] = ring[x]
  BY <1>1, <1>4 DEF q
<1>9. \A x \in DOMAIN ring : ring'[x].lock = ring[x].lock /\ ring'[x].next = ring[x].next /\ Header(ring'[x])
  BY <1>6, <1>8 DEF MessagingInductive, MessagingTypes
<1>10. MessagingTypes' /\ SenderOK'
  BY <1>1, <1>8, <1>9 DEF MessagingInductive, MessagingTypes, SenderOK
<1>11. Chain(ch, lo, hi)'
  <2>1. NoArea \notin Area
    BY MessagingAssumption
  <2>2. DOMAIN ring' = Listed \cup ({snd'.kept} \ {NoArea})
    <3>1. svc.first # NoArea
      BY <1>1, ReaderThere
    <3> QED BY <3>1, <1>1, <1>8, AreasThere DEF Listed
  <2>3. \A x \in Listed : ring'[x].next = ring[x].next
    BY <1>9 DEF Listed
  <2> QED BY <2>2, <2>3, <1>1, <1>3, ChainStays
<1>12. \A i \in k..hi : i \in Nat /\ i \in lo..hi /\ ch[i] \in DOMAIN ring /\ (i # k => ch[i] # a)
  <2> TAKE i \in k..hi
  <2>1. i \in lo..hi
    BY <1>4
  <2> QED BY <2>1, <1>3, <1>4 DEF Chain
<1>13. Filled(ch, hi, from2, at, sz, k)'
  <2> SUFFICES ASSUME NEW i \in k..hi PROVE RingOK(ring'[ch[i]], from2[i], at, sz)
    BY DEF Filled
  <2>1. CASE i = k
    BY <2>1, <1>4, <1>6, <1>7, <1>8
  <2>2. CASE i # k
    BY <2>2, <1>3, <1>7, <1>8, <1>12 DEF Filled
  <2> QED BY <2>1, <2>2
<1>14. Reading(ch, lo, hi, from2, k, m + 1, n)'
  <2>1. \A i \in k..hi : i # k => ring'[ch[i]].count = ring[ch[i]].count /\ from2[i] = from[i]
    BY <1>7, <1>8, <1>12
  <2>2. ring'[ch[k]].count = ring[ch[k]].count - 1 /\ from2[k] = from[k] + 1
    BY <1>4, <1>6, <1>7, <1>8
  <2>3. ring[ch[k]].count \in Nat /\ from[k] \in Nat
    BY <1>4, <1>5
  <2>4. from2[k] + ring'[ch[k]].count = from[k] + ring[ch[k]].count
    <3> DEFINE x == from[k]
               y == ring[ch[k]].count
    <3>1. x \in Nat /\ y \in Nat /\ from2[k] = x + 1 /\ ring'[ch[k]].count = y - 1
      BY <2>2, <2>3
    <3> HIDE DEF x, y
    <3>2. from2[k] + ring'[ch[k]].count = x + y
      BY <3>1
    <3> QED BY <3>2 DEF x, y
  <2>5. \A i \in k..hi : from2[i] + ring'[ch[i]].count = from[i] + ring[ch[i]].count
    BY <2>1, <2>4
  <2>6. k \in lo..hi /\ rdr'.area = ch[k] /\ svc'.team \in teams' /\ from2[k] = m + 1
    BY <1>1, <1>3, <1>4, <1>7 DEF Reading
  <2>7. from2[hi] + ring'[ch[hi]].count = n
    <3>1. hi \in k..hi
      BY <1>4
    <3> QED BY <3>1, <2>5, <1>3 DEF Reading
  <2>8. \A i \in k..hi : i < hi => ring'[ch[i]].count > 0 \/ (i = k /\ rdr'.at = "pop")
    BY <2>1, <1>1, <1>3 DEF Reading
  <2>9. \A i \in k..hi : i < hi => from2[i + 1] = from2[i] + ring'[ch[i]].count
    <3> TAKE i \in k..hi
    <3> HAVE i < hi
    <3>1. i + 1 \in k..hi /\ i + 1 # k
      BY <1>4
    <3>2. from[i + 1] = from[i] + ring[ch[i]].count
      BY <1>3 DEF Reading
    <3> QED BY <3>1, <3>2, <2>1, <2>5
  <2>10. \A i, j \in k..hi : i < j => from2[i] + ring'[ch[i]].count <= from2[j]
    <3> TAKE i, j \in k..hi
    <3> HAVE i < j
    <3>1. j # k
      BY <1>4
    <3>2. from[i] + ring[ch[i]].count <= from[j]
      BY <1>3 DEF Reading
    <3> QED BY <3>1, <3>2, <2>1, <2>5
  <2> QED BY <2>6, <2>7, <2>8, <2>9, <2>10 DEF Reading
<1>15. Locks'
  <2>1. Listed' = Listed
    BY <1>1, <1>8 DEF Listed
  <2>2. \A x \in Listed : ring'[x].lock = ring[x].lock
    BY <1>9 DEF Listed
  <2>3. Locks /\ sems' = sems /\ snd' = snd /\ rdr' = rdr
    BY <1>1, <1>3
  <2> QED BY <2>1, <2>2, <2>3, LocksStay
<1>16. Roused(m + 1, n)'
  BY <1>1 DEF Roused
<1>17. Counted(m + 1, n)'
  <2>1. got = Numbers(0, m)
    BY <1>3 DEF Counted
  <2>2. got' = Append(got, m + 1)
    BY <1>1, <1>6
  <2>3. got' = Numbers(0, m + 1)
    BY <2>1, <2>2, NumbersGrow
  <2> QED BY <2>3, <1>1, <1>3 DEF Counted
<1>18. Delivering(ch, lo, hi, from2, at, sz, k, m + 1, n)'
  BY <1>11, <1>13, <1>14, <1>15, <1>16, <1>17 DEF Delivering
<1>19. m + 1 \in Nat
  OBVIOUS
<1>20. \E c \in [Nat -> Area], l, h \in Nat, f, t, s \in [Nat -> Nat], x, y, z \in Nat :
          Delivering(c, l, h, f, t, s, x, y, z)'
  BY <1>7, <1>18, <1>19
<1>21. \E c \in [Nat -> Area], l, h \in Nat : Chain(c, l, h)'
  BY <1>11
<1> QED BY <1>10, <1>20, <1>21 DEF MessagingInductive

LEMMA ReaderUnlocksKeeps ==
    ASSUME MessagingInductive, ReaderUnlocks
    PROVE  MessagingInductive'
<1>1. /\ rdr.at = "pop" /\ ring[rdr.area].count = 0
      /\ sems' = Unlocked(ring, sems, rdr.area) /\ ring' = LockCount(rdr.area, -1)
      /\ rdr' = (IF ring[rdr.area].next = NoArea THEN [rdr EXCEPT !.at = "wait"]
                 ELSE [at |-> "lock", area |-> ring[rdr.area].next])
      /\ svc' = svc /\ teams' = teams /\ snd' = snd /\ sent' = sent /\ got' = got
  BY DEF ReaderUnlocks
<1>2. PICK ch \in [Nat -> Area], lo \in Nat, hi \in Nat,
           from \in [Nat -> Nat], at \in [Nat -> Nat], sz \in [Nat -> Nat],
           k \in Nat, m \in Nat, n \in Nat : Delivering(ch, lo, hi, from, at, sz, k, m, n)
  BY <1>1 DEF MessagingInductive
<1>3. Chain(ch, lo, hi) /\ Reading(ch, lo, hi, from, k, m, n) /\ Filled(ch, hi, from, at, sz, k)
      /\ Locks /\ Roused(m, n) /\ Counted(m, n)
  BY <1>2 DEF Delivering
<1> DEFINE a == rdr.area
<1>4. a = ch[k] /\ k \in lo..hi /\ from[k] = m /\ a \in Listed /\ a \in DOMAIN ring /\ svc.team \in teams /\ SemsThere
      /\ svc.first # NoArea /\ NoArea \notin Area
  BY <1>1, <1>3, ReaderThere, MessagingAssumption DEF Reading, Chain, Listed, SemsThere
<1>5. DOMAIN ring' = DOMAIN ring /\ \A x \in DOMAIN ring : /\ Kept(ring[x], ring'[x]) /\ Header(ring'[x])
                 /\ ring'[x].lock = IF x = a THEN ring[a].lock - 1 ELSE ring[x].lock
  <2>1. \A x \in DOMAIN ring : Header(ring[x])
    BY DEF MessagingInductive, MessagingTypes
  <2>2. -1 \in Int
    OBVIOUS
  <2>3. \A x \in DOMAIN ring : ring[x].lock \in Int /\ ring[x].lock + (-1) = ring[x].lock - 1
    BY <2>1 DEF Header
  <2>4. a \in DOMAIN ring /\ ring' = LockCount(a, -1)
    BY <1>1, <1>4
  <2> HIDE DEF a
  <2> QED BY <2>1, <2>2, <2>3, <2>4, LockCounted
<1>6. IF k = hi THEN ring[a].next = NoArea /\ rdr'.at = "wait" /\ rdr'.area = a
      ELSE ring[a].next = ch[k + 1] /\ rdr'.at = "lock" /\ rdr'.area = ch[k + 1] /\ k + 1 \in lo..hi
  <2>1. ring[a].next = IF k = hi THEN NoArea ELSE ch[k + 1]
    BY <1>3, <1>4 DEF Chain
  <2>2. CASE k = hi
    BY <1>1, <2>1, <2>2 DEF MessagingInductive, MessagingTypes
  <2>3. CASE k # hi
    <3>1. k + 1 \in lo..hi /\ ch[k + 1] \in Area
      BY <1>4, <2>3
    <3> QED BY <3>1, <1>1, <1>4, <2>1, <2>3
  <2> QED BY <2>2, <2>3
<1>7. rdr'.at \in {"wait", "lock"} /\ rdr' \in [at : ReaderPlaces, area : Area \cup {NoArea}]
  <2>1. CASE k = hi
    BY <2>1, <1>1, <1>6 DEF MessagingInductive, MessagingTypes, ReaderPlaces
  <2>2. CASE k # hi
    <3>1. rdr' = [at |-> "lock", area |-> ch[k + 1]] /\ ch[k + 1] \in Area
      BY <2>2, <1>1, <1>4, <1>6
    <3> QED BY <3>1 DEF ReaderPlaces
  <2> QED BY <2>1, <2>2
<1>8. /\ sems' \in [lock : Int, counter : Nat] /\ sems'.counter = sems.counter
      /\ sems'.lock = IF ring[a].lock > 1 THEN sems.lock + 1 ELSE sems.lock
  <2>1. sems \in [lock : Int, counter : Nat]
    BY DEF MessagingInductive, MessagingTypes
  <2>2. sems' = IF ring[a].lock > 1 THEN [sems EXCEPT !.lock = @ + 1] ELSE sems
    BY <1>1, <1>4 DEF Unlocked
  <2> HIDE DEF a
  <2> QED BY <2>1, <2>2
<1>9. MessagingTypes'
  BY <1>1, <1>5, <1>7, <1>8 DEF MessagingInductive, MessagingTypes
<1>10. SenderOK'
  BY <1>1, <1>4 DEF MessagingInductive, SenderOK
<1>11. Chain(ch, lo, hi)'
  <2>1. DOMAIN ring' = Listed \cup ({snd'.kept} \ {NoArea})
    BY <1>1, <1>4, <1>5, AreasThere DEF Listed
  <2>2. \A x \in Listed : ring'[x].next = ring[x].next
    BY <1>5 DEF Listed, Kept
  <2> QED BY <2>1, <2>2, <1>1, <1>3, ChainStays
<1>12. \A i \in k..hi : i \in lo..hi /\ ch[i] \in DOMAIN ring /\ ring'[ch[i]].count = ring[ch[i]].count
                      /\ RingOK(ring'[ch[i]], from[i], at, sz)
  <2> TAKE i \in k..hi
  <2>1. i \in lo..hi
    BY <1>4
  <2>2. ch[i] \in DOMAIN ring
    BY <2>1, <1>3 DEF Chain
  <2>3. Kept(ring[ch[i]], ring'[ch[i]])
    BY <2>2, <1>5
  <2>4. RingOK(ring[ch[i]], from[i], at, sz)
    BY <1>3 DEF Filled
  <2> QED BY <2>1, <2>2, <2>3, <2>4, RingStays DEF Kept
<1>13. Locks'
  <2>1. ring[a].lock = 1 + (IF SenderWaits(a) THEN 1 ELSE 0) /\ ~SenderHas(a)
    BY <1>1, <1>3, <1>4 DEF Locks, ReaderHas, ReaderWaits, SenderHas, SenderWaits
  <2>2. sems.lock = IF snd.at = "acquire" /\ snd.area # a THEN 1 ELSE 0
    BY <1>1, <1>3 DEF Locks, ReaderHas
  <2>3. Listed' = Listed
    BY <1>1, <1>5 DEF Listed
  <2>4. \A x \in Listed : x # a => ring[x].lock = IF SenderHas(x) \/ SenderWaits(x) THEN 1 ELSE 0
    BY <1>1, <1>3 DEF Locks, ReaderHas, ReaderWaits
  <2>5. \A x : ~ReaderHas(x)' /\ ~ReaderWaits(x)' /\ (SenderHas(x)' <=> SenderHas(x)) /\ (SenderWaits(x)' <=> SenderWaits(x))
    BY <1>1, <1>7 DEF SenderHas, SenderWaits, ReaderHas, ReaderWaits
  <2>6. \A x \in Listed : ring'[x].lock = IF SenderHas(x) \/ SenderWaits(x) THEN 1 ELSE 0
    BY <1>5, <2>1, <2>4 DEF Listed
  <2>7. sems'.lock = IF snd.at = "acquire" THEN 1 ELSE 0
    BY <1>8, <2>1, <2>2 DEF SenderWaits
  <2> HIDE DEF a
  <2> QED BY <2>3, <2>5, <2>6, <2>7, <1>1, <1>7 DEF Locks, ReaderHas
<1>14. CASE k = hi
  <2>1. m = n
    BY <1>1, <1>3, <1>4, <1>14 DEF Reading
  <2>2. Roused(m, n)' /\ Counted(m, n)'
    BY <2>1, <1>1, <1>3 DEF Roused, Counted
  <2>3. Filled(ch, hi, from, at, sz, k)'
    BY <1>12 DEF Filled
  <2>4. Reading(ch, lo, hi, from, k, m, n)'
    <3>1. \A i \in k..hi : i = k
      BY <1>14
    <3>2. k \in k..hi
      BY <1>14
    <3>3. ring'[ch[hi]].count = ring[ch[hi]].count
      BY <3>2, <1>12, <1>14
    <3> QED BY <3>1, <3>3, <1>1, <1>3, <1>4, <1>6, <1>14 DEF Reading
  <2>5. Delivering(ch, lo, hi, from, at, sz, k, m, n)'
    BY <2>2, <2>3, <2>4, <1>11, <1>13 DEF Delivering
  <2> QED BY <2>5, <1>9, <1>10, <1>11 DEF MessagingInductive
<1>15. CASE k # hi
  <2>1. k < hi /\ k + 1 \in Nat /\ k + 1 \in k..hi /\ \A i \in (k + 1)..hi : i \in k..hi /\ i # k
    BY <1>4, <1>15
  <2>2. from[k + 1] = m
    <3>1. \A i \in k..hi : i < hi => from[i + 1] = from[i] + ring[ch[i]].count
      BY <1>3 DEF Reading
    <3>2. k \in k..hi /\ k < hi
      BY <2>1
    <3>3. from[k + 1] = from[k] + ring[ch[k]].count
      BY <3>1, <3>2
    <3> QED BY <3>3, <1>1, <1>4
  <2>3. Roused(m, n)' /\ Counted(m, n)'
    BY <1>1, <1>3, <1>6, <1>15 DEF Roused, Counted
  <2>4. Filled(ch, hi, from, at, sz, k + 1)'
    BY <2>1, <1>12 DEF Filled
  <2>5. Reading(ch, lo, hi, from, k + 1, m, n)'
    <3>1. from[hi] + ring'[ch[hi]].count = n
      <4>1. hi \in k..hi
        BY <2>1
      <4> QED BY <4>1, <1>3, <1>12 DEF Reading
    <3>2. \A i \in (k + 1)..hi : i < hi => ring'[ch[i]].count > 0
      BY <2>1, <1>3, <1>12 DEF Reading
    <3>3. \A i \in (k + 1)..hi : i < hi => from[i + 1] = from[i] + ring'[ch[i]].count
      BY <2>1, <1>3, <1>12 DEF Reading
    <3>4. \A i, j \in (k + 1)..hi : i < j => from[i] + ring'[ch[i]].count <= from[j]
      BY <2>1, <1>3, <1>12 DEF Reading
    <3> QED BY <3>1, <3>2, <3>3, <3>4, <2>2, <1>1, <1>4, <1>6, <1>15 DEF Reading
  <2>6. Delivering(ch, lo, hi, from, at, sz, k + 1, m, n)'
    BY <2>3, <2>4, <2>5, <1>11, <1>13 DEF Delivering
  <2>7. \E c \in [Nat -> Area], l, h \in Nat, f, t, s \in [Nat -> Nat], x, y, z \in Nat :
          Delivering(c, l, h, f, t, s, x, y, z)'
    BY <2>1, <2>6
  <2>8. \E c \in [Nat -> Area], l, h \in Nat : Chain(c, l, h)'
    BY <1>11
  <2> QED BY <2>7, <2>8, <1>9, <1>10 DEF MessagingInductive
<1> QED BY <1>14, <1>15

\* The list without its first area, which is kept: what changes for the rest is nothing.
LEMMA ChainShrinks ==
    ASSUME NEW ch \in [Nat -> Area], NEW lo \in Nat, NEW hi \in Nat, Chain(ch, lo, hi), lo # hi, NEW l, l = lo + 1,
           svc'.first = ring[svc.first].next, svc'.last = svc.last, snd'.kept = svc.first,
           DOMAIN ring' = Listed,
           \A x \in Listed : x # svc.first => ring'[x] = ring[x]
    PROVE  /\ l \in Nat /\ Chain(ch, l, hi)' /\ svc'.first \in Area
           /\ \A i \in l..hi : i \in lo..hi /\ ring'[ch[i]] = ring[ch[i]] /\ ch[i] # svc.first
<1>0. NoArea \notin Area
  BY MessagingAssumption
<1>1. lo < hi /\ l <= hi /\ lo \in lo..hi /\ l \in Nat /\ ch[lo] = svc.first /\ ch[hi] = svc.last
  BY DEF Chain
<1>2. \A i \in l..hi : i \in lo..hi /\ i # lo /\ i \in Nat
  BY <1>1
<1>3. \A i \in lo..hi : ch[i] \in Listed
  BY <1>0 DEF Chain, Listed
<1>4. \A i \in l..hi : ch[i] # svc.first
  BY <1>1, <1>2 DEF Chain
<1>5. \A i \in l..hi : ring'[ch[i]] = ring[ch[i]]
  BY <1>2, <1>3, <1>4
<1>6. Listed = {ch[i] : i \in lo..hi}
  BY <1>0, <1>3 DEF Chain, Listed
<1>7. \A i \in lo..hi : i = lo \/ i \in l..hi
  BY <1>1
<1>8. DOMAIN ring' = {ch[i] : i \in l..hi} \cup ({snd'.kept} \ {NoArea})
  BY <1>0, <1>1, <1>2, <1>6, <1>7
<1>9. svc'.first = ch[l]
  BY <1>1 DEF Chain
<1>10. \A i \in l..hi : ring'[ch[i]].next = IF i = hi THEN NoArea ELSE ch[i + 1]
  BY <1>2, <1>5 DEF Chain
<1>11. \A i, j \in l..hi : ch[i] = ch[j] => i = j
  BY <1>2 DEF Chain
<1>12. Chain(ch, l, hi)'
  BY <1>1, <1>4, <1>8, <1>9, <1>10, <1>11 DEF Chain
<1> QED BY <1>1, <1>2, <1>4, <1>5, <1>9, <1>12

LEMMA DiscardKeeps ==
    ASSUME MessagingInductive, Discard
    PROVE  MessagingInductive'
<1> DEFINE a == snd.area
<1>0. NoArea \notin Area
  BY MessagingAssumption
<1>1. /\ snd.at = "locked" /\ a # svc.last /\ ~HasCommands(a)
      /\ svc' = [svc EXCEPT !.first = ring[a].next]
      /\ ring' = [Drop({snd.kept}) EXCEPT ![a].next = NoArea]
      /\ snd' = [snd EXCEPT !.at = "discard", !.kept = a]
      /\ teams' = teams /\ sems' = sems /\ rdr' = rdr /\ sent' = sent /\ got' = got
  BY DEF Discard
<1>2. svc.first # NoArea /\ a \in Listed /\ a = svc.first /\ a \in DOMAIN ring
  BY <1>1, SenderBusy DEF MessagingInductive, SenderOK, Listed
<1> HIDE DEF a
<1>3. /\ snd'.at = "discard" /\ snd'.kept = a /\ snd'.size = snd.size /\ snd'.area = snd.area /\ snd'.empty = snd.empty
      /\ svc'.first = ring[a].next /\ svc'.last = svc.last /\ svc'.team = svc.team
  BY <1>1 DEF MessagingInductive, MessagingTypes
<1>4. Drop({snd.kept}) = [x \in Listed |-> ring[x]]
  BY DEF Drop, Restrict, Listed
<1>5. DOMAIN ring' = Listed /\ ring'[a] = [ring[a] EXCEPT !.next = NoArea]
      /\ \A x \in Listed : x # a => ring'[x] = ring[x]
  BY <1>1, <1>2, <1>4
<1>6. \A x \in DOMAIN ring' : Header(ring'[x])
  <2>1. \A x \in Listed : Header(ring[x])
    BY DEF MessagingInductive, MessagingTypes, Listed
  <2>2. Header(ring'[a])
    BY <2>1, <1>2, <1>5 DEF Header
  <2> QED BY <2>1, <2>2, <1>5
<1>7. PICK c0 \in [Nat -> Area], l0 \in Nat, h0 \in Nat : Chain(c0, l0, h0)
  BY <1>2 DEF MessagingInductive
<1> DEFINE Shrunk(c, f, g, s) ==
             /\ f # g /\ s \in Nat /\ Chain(c, s, g)' /\ svc'.first \in Area /\ c[f] = a
             /\ \A i \in s..g : i \in f..g /\ ring'[c[i]] = ring[c[i]] /\ c[i] # svc.first
<1>8. ASSUME NEW c \in [Nat -> Area], NEW f \in Nat, NEW g \in Nat, Chain(c, f, g), NEW s, s = f + 1
      PROVE  Shrunk(c, f, g, s)
  <2>1. c[f] = a /\ f # g
    BY <1>1, <1>2, <1>8 DEF Chain
  <2> QED BY <2>1, <1>2, <1>3, <1>5, <1>8, ChainShrinks
<1> DEFINE l1 == l0 + 1
<1>9. svc'.first \in Area /\ l1 \in Nat /\ Chain(c0, l1, h0)'
  <2>1. l1 = l0 + 1
    OBVIOUS
  <2> HIDE DEF l1
  <2> QED BY <2>1, <1>7, <1>8
<1> HIDE DEF l1
<1>10. MessagingTypes'
  <2>1. svc' \in [first : Area \cup {NoArea}, last : Area \cup {NoArea}, team : Registrar \cup {NoTeam}]
    BY <1>1, <1>3, <1>9 DEF MessagingInductive, MessagingTypes
  <2>2. a \in Area
    BY <1>0, <1>2 DEF MessagingInductive, MessagingTypes
  <2>3. snd' \in [at : SenderPlaces, size : Nat, area : Area \cup {NoArea}, kept : Area \cup {NoArea}, empty : BOOLEAN]
    BY <2>2, <1>1 DEF MessagingInductive, MessagingTypes, SenderPlaces
  <2> QED BY <2>1, <2>3, <1>1, <1>6 DEF MessagingInductive, MessagingTypes
<1>11. SenderOK'
  BY <1>0, <1>1, <1>3, <1>9 DEF MessagingInductive, SenderOK
<1>12. ASSUME rdr'.at # "none"
       PROVE  \E ch \in [Nat -> Area], lo, hi \in Nat, from, at, sz \in [Nat -> Nat], k, m, n \in Nat :
                 Delivering(ch, lo, hi, from, at, sz, k, m, n)'
  <2>1. PICK ch \in [Nat -> Area], lo \in Nat, hi \in Nat,
             from \in [Nat -> Nat], at \in [Nat -> Nat], sz \in [Nat -> Nat],
             k \in Nat, m \in Nat, n \in Nat : Delivering(ch, lo, hi, from, at, sz, k, m, n)
    BY <1>1, <1>12 DEF MessagingInductive
  <2>2. Chain(ch, lo, hi) /\ Reading(ch, lo, hi, from, k, m, n) /\ Filled(ch, hi, from, at, sz, k)
        /\ Locks /\ Roused(m, n) /\ Counted(m, n)
    BY <2>1 DEF Delivering
  <2> DEFINE l == lo + 1
  <2>3. /\ lo # hi /\ l \in Nat /\ Chain(ch, l, hi)' /\ ch[lo] = a
        /\ \A i \in l..hi : i \in lo..hi /\ ring'[ch[i]] = ring[ch[i]] /\ ch[i] # svc.first
    <3>1. Chain(ch, lo, hi)
      BY <2>2
    <3>2. l = lo + 1
      OBVIOUS
    <3> HIDE DEF l
    <3> HIDE DEF Shrunk
    <3>3. Shrunk(ch, lo, hi, l)
      BY <3>1, <3>2, <1>8
    <3> QED BY <3>3 DEF Shrunk
  <2>4. k \in lo..hi /\ rdr.area = ch[k]
    BY <2>2 DEF Reading
  <2>5. k # lo
    <3> SUFFICES ASSUME k = lo PROVE FALSE
      OBVIOUS
    <3>1. k \in k..hi /\ k < hi
      <4>1. lo # hi
        BY <2>3
      <4> QED BY <4>1, <2>4
    <3>2. ring[a].count > 0 \/ rdr.at = "pop"
      BY <3>1, <2>2, <2>3 DEF Reading
    <3>3. ~ReaderHas(a)
      BY <2>2, <1>1, <1>2 DEF Locks, SenderHas, a
    <3> QED BY <3>2, <3>3, <2>3, <2>4, <1>1 DEF ReaderHas, HasCommands
  <2>6. k \in l..hi /\ rdr.area # a /\ \A i \in k..hi : i \in l..hi
    <3>1. k \in l..hi
      BY <2>4, <2>5
    <3>2. \A i \in k..hi : i \in l..hi
      BY <3>1
    <3>3. ch[k] # svc.first
      BY <3>1, <2>3
    <3> QED BY <3>1, <3>2, <3>3, <2>4, <1>2
  <2>7. \A i \in k..hi : ring'[ch[i]] = ring[ch[i]]
    BY <2>3, <2>6
  <2>8. Filled(ch, hi, from, at, sz, k)'
    BY <2>2, <2>7 DEF Filled
  <2>9. Reading(ch, l, hi, from, k, m, n)'
    <3>1. hi \in k..hi
      BY <2>4
    <3>2. ring'[ch[hi]] = ring[ch[hi]]
      BY <3>1, <2>7
    <3>3. \A i \in k..hi : ring'[ch[i]].count = ring[ch[i]].count
      BY <2>7
    <3>4. from[k] = m /\ from[hi] + ring'[ch[hi]].count = n
      BY <3>2, <2>2 DEF Reading
    <3>5. \A i \in k..hi : i < hi => ring'[ch[i]].count > 0 \/ (i = k /\ rdr'.at = "pop")
      BY <3>3, <2>2, <1>1 DEF Reading
    <3>6. \A i \in k..hi : i < hi => from[i + 1] = from[i] + ring[ch[i]].count
      BY <2>2 DEF Reading
    <3>7. \A i \in k..hi : i < hi => from[i + 1] = from[i] + ring'[ch[i]].count
      BY <3>3, <3>6
    <3>8. \A i, j \in k..hi : i < j => from[i] + ring'[ch[i]].count <= from[j]
      BY <3>3, <2>2 DEF Reading
    <3>9. k \in l..hi /\ rdr'.area = ch[k] /\ svc'.team \in teams'
      BY <2>2, <2>6, <1>1, <1>3 DEF Reading
    <3> QED BY <3>4, <3>5, <3>7, <3>8, <3>9 DEF Reading
  <2>10. Locks'
    <3>1. Listed' = Listed \ {a}
      BY <1>3, <1>5 DEF Listed
    <3>2. \A x \in Listed' : /\ x \in Listed /\ ring'[x].lock = ring[x].lock /\ ~SenderHas(x) /\ ~SenderWaits(x)
      BY <3>1, <1>1, <1>5 DEF SenderHas, SenderWaits, a
    <3>3. \A x : ~SenderHas(x)' /\ ~SenderWaits(x)' /\ (ReaderHas(x)' <=> ReaderHas(x)) /\ (ReaderWaits(x)' <=> ReaderWaits(x))
      BY <1>1, <1>3 DEF SenderHas, SenderWaits, ReaderHas, ReaderWaits
    <3>4. sems.lock = IF rdr.at = "acquire" THEN 1 ELSE 0
      BY <2>2, <2>6, <1>1 DEF Locks, SenderHas, a
    <3>5. \A x \in Listed' : ring'[x].lock = IF ReaderHas(x) \/ ReaderWaits(x) THEN 1 ELSE 0
      BY <3>2, <2>2 DEF Locks
    <3>6. \A x \in Listed' : /\ ring'[x].lock = (IF SenderHas(x)' \/ SenderWaits(x)' THEN 1 ELSE 0)
                                              + (IF ReaderHas(x)' \/ ReaderWaits(x)' THEN 1 ELSE 0)
                            /\ ~(SenderHas(x)' /\ ReaderHas(x)')
      BY <3>3, <3>5
    <3>7. sems'.lock = (IF rdr'.at = "acquire" /\ ~SenderHas(rdr.area)' THEN 1 ELSE 0) /\ rdr'.area = rdr.area
      BY <3>3, <3>4, <1>1
    <3> QED BY <3>6, <3>7, <1>1, <1>3 DEF Locks, SenderHas
  <2>11. Roused(m, n)' /\ Counted(m, n)'
    BY <2>2, <1>1, <1>3 DEF Roused, Counted
  <2>12. Delivering(ch, l, hi, from, at, sz, k, m, n)'
    BY <2>3, <2>8, <2>9, <2>10, <2>11 DEF Delivering
  <2> QED BY <2>3, <2>12
<1> QED BY <1>9, <1>10, <1>11, <1>12 DEF MessagingInductive

\* The areas before the last one hold commands that were sent before.
Later(ch, lo, hi, from, at, sz, k, m, n) ==
    /\ ch[hi] = svc.last /\ k \in k..hi /\ hi \in k..hi /\ m <= from[hi]
    /\ from[hi] + ring[svc.last].count = n /\ RingOK(ring[svc.last], from[hi], at, sz)
    /\ \A i \in k..hi : /\ i \in Nat /\ i \in lo..hi /\ ch[i] \in Listed /\ ring[ch[i]].count \in Nat
                        /\ RingOK(ring[ch[i]], from[i], at, sz)
                        /\ i # hi => ch[i] # svc.last /\ from[i] + ring[ch[i]].count <= from[hi]
LEMMA ReadingFacts ==
    ASSUME NEW ch \in [Nat -> Area], NEW lo \in Nat, NEW hi \in Nat, Chain(ch, lo, hi),
           NEW from \in [Nat -> Nat], NEW at \in [Nat -> Nat], NEW sz \in [Nat -> Nat], NEW k \in Nat,
           NEW m \in Nat, NEW n \in Nat, Reading(ch, lo, hi, from, k, m, n), Filled(ch, hi, from, at, sz, k)
    PROVE  Later(ch, lo, hi, from, at, sz, k, m, n)
<1>0. NoArea \notin Area
  BY MessagingAssumption
<1>1. k \in lo..hi /\ from[k] = m /\ from[hi] + ring[ch[hi]].count = n
  BY DEF Reading
<1>2. ch[hi] = svc.last /\ k \in k..hi /\ hi \in k..hi
  BY <1>1 DEF Chain
<1>3. ASSUME NEW i \in k..hi
      PROVE  /\ i \in Nat /\ i \in lo..hi /\ ch[i] \in Listed /\ ring[ch[i]].count \in Nat
             /\ RingOK(ring[ch[i]], from[i], at, sz)
             /\ i # hi => ch[i] # svc.last /\ from[i] + ring[ch[i]].count <= from[hi]
  <2>1. i \in Nat /\ i \in lo..hi /\ hi \in lo..hi
    BY <1>1
  <2>2. ch[i] \in Listed
    BY <1>0, <2>1 DEF Chain, Listed
  <2>3. RingOK(ring[ch[i]], from[i], at, sz)
    BY DEF Filled
  <2>4. ring[ch[i]].count \in Nat
    BY <2>3 DEF RingOK
  <2>5. i # hi => ch[i] # svc.last
    BY <2>1, <1>2 DEF Chain
  <2>6. \A x, y \in k..hi : x < y => from[x] + ring[ch[x]].count <= from[y]
    BY DEF Reading
  <2>7. i # hi => i < hi
    OBVIOUS
  <2> QED BY <2>1, <2>2, <2>3, <2>4, <2>5, <2>6, <2>7, <1>2
<1>4. m <= from[hi]
  <2>1. from[k] \in Nat /\ from[hi] \in Nat
    OBVIOUS
  <2>2. CASE k = hi
    BY <2>1, <2>2, <1>1
  <2>3. CASE k # hi
    <3>1. ring[ch[k]].count \in Nat /\ from[k] + ring[ch[k]].count <= from[hi]
      BY <2>3, <1>2, <1>3
    <3> QED BY <3>1, <2>1, <1>1
  <2> QED BY <2>2, <2>3
<1>5. RingOK(ring[svc.last], from[hi], at, sz)
  BY <1>2, <1>3
<1>6. from[hi] + ring[svc.last].count = n
  BY <1>1, <1>2
<1> QED BY <1>2, <1>3, <1>4, <1>5, <1>6 DEF Later

LEMMA AllocateKeeps ==
    ASSUME MessagingInductive, Allocate
    PROVE  MessagingInductive'
<1> DEFINE a == snd.area
           size == snd.size
           o == Offset(ring[a], size)
<1>0. NoArea \notin Area
  BY MessagingAssumption
<1>1. /\ snd.at = "locked" /\ a = svc.last /\ o # NoRoom
      /\ ring' = [Drop({snd.kept}) EXCEPT ![a] = AllocateCommand(@, size, Len(sent) + 1)]
      /\ snd' = [snd EXCEPT !.at = "unlock", !.kept = NoArea, !.empty = ~HasCommands(a)]
      /\ sent' = Append(sent, Len(sent) + 1)
      /\ svc' = svc /\ teams' = teams /\ sems' = sems /\ rdr' = rdr /\ got' = got
  BY DEF Allocate
<1>2. /\ svc.first # NoArea /\ a \in Listed
      /\ size \in Nat /\ CommandSize <= size /\ size <= AreaSize - HeaderSize
  BY <1>1, SenderBusy DEF MessagingInductive, MessagingTypes, SenderOK
<1> HIDE DEF a, size, o
<1>3. /\ snd'.at = "unlock" /\ snd'.kept = NoArea /\ snd'.area = a /\ snd'.empty = ~HasCommands(a)
      /\ snd' \in [at : SenderPlaces, size : Nat, area : Area \cup {NoArea}, kept : Area \cup {NoArea}, empty : BOOLEAN]
  BY <1>1 DEF MessagingInductive, MessagingTypes, SenderPlaces, a, HasCommands
<1>4. Drop({snd.kept}) = [x \in Listed |-> ring[x]]
  BY DEF Drop, Restrict, Listed
<1>5. DOMAIN ring' = Listed /\ ring'[a] = AllocateCommand(ring[a], size, Len(sent) + 1)
      /\ \A x \in Listed : x # a => ring'[x] = ring[x]
  BY <1>1, <1>2, <1>4
<1>6. \A x \in Listed : Header(ring[x])
  BY DEF MessagingInductive, MessagingTypes, Listed
<1>7. \A x \in Listed : Header(ring'[x]) /\ ring'[x].lock = ring[x].lock /\ ring'[x].next = ring[x].next
  <2>1. Header(ring'[a]) /\ ring'[a].lock = ring[a].lock /\ ring'[a].next = ring[a].next
    BY <1>2, <1>5, <1>6, AllocateHeader
  <2> QED BY <2>1, <1>5, <1>6
<1>8. MessagingTypes' /\ SenderOK'
  <2>1. \A x \in DOMAIN ring' : Header(ring'[x])
    BY <1>5, <1>7
  <2>2. MessagingTypes'
    BY <2>1, <1>1, <1>3 DEF MessagingInductive, MessagingTypes
  <2> QED BY <2>2, <1>1, <1>2, <1>3 DEF SenderOK
<1>9. ASSUME NEW ch \in [Nat -> Area], NEW lo \in Nat, NEW hi \in Nat, Chain(ch, lo, hi)
      PROVE  Chain(ch, lo, hi)'
  <2>1. DOMAIN ring' = Listed \cup ({snd'.kept} \ {NoArea})
    BY <1>3, <1>5
  <2>2. \A x \in Listed : ring'[x].next = ring[x].next
    BY <1>7
  <2> QED BY <2>1, <2>2, <1>1, <1>3, <1>9, ChainStays
<1>10. \E ch \in [Nat -> Area], lo, hi \in Nat : Chain(ch, lo, hi)'
  <2>1. PICK c \in [Nat -> Area], l \in Nat, h \in Nat : Chain(c, l, h)
    BY <1>2 DEF MessagingInductive
  <2>2. Chain(c, l, h)'
    BY <2>1, <1>9
  <2> QED BY <2>2
<1>11. ASSUME rdr'.at # "none"
       PROVE  \E ch \in [Nat -> Area], lo, hi \in Nat, from, at, sz \in [Nat -> Nat], k, m, n \in Nat :
                 Delivering(ch, lo, hi, from, at, sz, k, m, n)'
  <2>1. PICK ch \in [Nat -> Area], lo \in Nat, hi \in Nat,
             from \in [Nat -> Nat], at \in [Nat -> Nat], sz \in [Nat -> Nat],
             k \in Nat, m \in Nat, n \in Nat : Delivering(ch, lo, hi, from, at, sz, k, m, n)
    BY <1>1, <1>11 DEF MessagingInductive
  <2>2. Chain(ch, lo, hi) /\ Reading(ch, lo, hi, from, k, m, n) /\ Filled(ch, hi, from, at, sz, k)
        /\ Locks /\ Roused(m, n) /\ Counted(m, n)
    BY <2>1 DEF Delivering
  <2>a. Chain(ch, lo, hi) /\ Reading(ch, lo, hi, from, k, m, n) /\ Filled(ch, hi, from, at, sz, k)
    BY <2>2
  <2>b. Later(ch, lo, hi, from, at, sz, k, m, n)
    BY <2>a, ReadingFacts
  <2>3. /\ ch[hi] = a /\ k \in k..hi /\ hi \in k..hi /\ m <= from[hi]
        /\ from[hi] + ring[a].count = n /\ RingOK(ring[a], from[hi], at, sz)
    BY <2>b, <1>1 DEF Later
  <2>4. \A i \in k..hi : /\ i \in Nat /\ i \in lo..hi /\ ch[i] \in Listed /\ ring[ch[i]].count \in Nat
                         /\ RingOK(ring[ch[i]], from[i], at, sz)
                         /\ i # hi => ch[i] # a /\ from[i] + ring[ch[i]].count <= from[hi]
    BY <2>b, <1>1 DEF Later
  <2>5. sent = Numbers(0, n) /\ Len(sent) = n /\ n < MaxMessages
    BY <2>2, <1>1, NumbersMeet DEF Counted
  <2>6. ring[a].count \in Nat /\ from[hi] \in Nat /\ Header(ring[a])
    BY <2>3, <2>4, <1>2, <1>6
  <2>c. PICK p, z : p = o /\ z = size
    OBVIOUS
  <2> DEFINE n1 == n + 1
             at1 == [at EXCEPT ![n1] = p]
             sz1 == [sz EXCEPT ![n1] = z]
  <2>7. n1 \in Nat /\ n1 = from[hi] + ring[a].count + 1 /\ n1 <= MaxMessages
    <3>1. MaxMessages \in Nat
      BY MessagingAssumption
    <3>2. from[hi] + ring[a].count = n
      BY <2>3
    <3>3. n < MaxMessages
      BY <2>5
    <3> QED BY <3>1, <3>2, <3>3, <2>6
  <2>8. /\ ring'[a].count = ring[a].count + 1 /\ p \in Nat /\ z \in Nat
        /\ RingOK(ring'[a], from[hi], at1, sz1)
    <3>1. ring'[a] = AllocateCommand(ring[a], z, n1)
      BY <1>5, <2>5, <2>c
    <3>2. p = Offset(ring[a], z)
      BY <2>c DEF o
    <3>3. z \in Nat /\ CommandSize <= z /\ z <= AreaSize - HeaderSize /\ Offset(ring[a], z) # NoRoom
      BY <2>c, <1>1, <1>2, <3>2
    <3>4. n1 = from[hi] + ring[a].count + 1
      BY <2>7
    <3>5. RingOK(ring[a], from[hi], at, sz)
      BY <2>3
    <3> DEFINE q == ring[a]
               b == from[hi]
    <3>6. Header(q) /\ b \in Nat /\ RingOK(q, b, at, sz) /\ Offset(q, z) # NoRoom /\ n1 = b + q.count + 1
      BY <3>3, <3>4, <3>5, <2>6
    <3> HIDE DEF n1, q, b
    <3>7. /\ AllocateCommand(q, z, n1).count = q.count + 1 /\ Offset(q, z) \in Nat
          /\ RingOK(AllocateCommand(q, z, n1), b, [at EXCEPT ![n1] = Offset(q, z)], [sz EXCEPT ![n1] = z])
      <4>1. z \in Nat /\ CommandSize <= z /\ z <= AreaSize - HeaderSize
        BY <3>3
      <4>2. Grown(q, b, at, sz, z, n1)
        BY <4>1, <3>6, RingGrows
      <4> QED BY <4>2 DEF Grown
    <3> QED BY <3>1, <3>2, <3>3, <3>7 DEF q, b
  <2>9. at1 \in [Nat -> Nat] /\ sz1 \in [Nat -> Nat]
    BY <2>8
  <2> HIDE DEF at1, sz1
  <2>10. Filled(ch, hi, from, at1, sz1, k)'
    <3> SUFFICES ASSUME NEW i \in k..hi PROVE RingOK(ring'[ch[i]], from[i], at1, sz1)
      BY DEF Filled
    <3>1. CASE i = hi
      BY <3>1, <2>3, <2>8
    <3>2. CASE i # hi
      <4>1. ring'[ch[i]] = ring[ch[i]] /\ RingOK(ring[ch[i]], from[i], at, sz)
        BY <3>2, <2>4, <1>5
      <4>2. from[i] + ring[ch[i]].count < n1
        <5>1. from[i] + ring[ch[i]].count <= from[hi] /\ ring[ch[i]].count \in Nat /\ from[i] \in Nat
          BY <3>2, <2>4
        <5> QED BY <5>1, <2>6, <2>7
      <4>3. from[i] \in Nat
        BY <2>4
      <4> HIDE DEF n1
      <4> QED BY <4>1, <4>2, <4>3, <2>7, RingKeeps DEF at1, sz1
    <3> QED BY <3>1, <3>2
  <2>11. Reading(ch, lo, hi, from, k, m, n1)'
    <3>1. \A i \in k..hi : i # hi => ring'[ch[i]] = ring[ch[i]]
      BY <2>4, <1>5
    <3>2. from[k] = m /\ from[hi] + ring'[ch[hi]].count = n1
      <4>1. from[k] = m
        BY <2>2 DEF Reading
      <4> QED BY <4>1, <2>3, <2>6, <2>7, <2>8
    <3>3. \A i \in k..hi : i < hi => ring'[ch[i]].count > 0 \/ (i = k /\ rdr'.at = "pop")
      <4>1. \A i \in k..hi : i < hi => ring[ch[i]].count > 0 \/ (i = k /\ rdr.at = "pop")
        BY <2>2 DEF Reading
      <4>2. rdr'.at = rdr.at
        BY <1>1
      <4>3. \A i \in k..hi : i < hi => i # hi
        OBVIOUS
      <4> TAKE i \in k..hi
      <4> HAVE i < hi
      <4>4. ring'[ch[i]] = ring[ch[i]]
        BY <4>3, <3>1
      <4> QED BY <4>1, <4>2, <4>4
    <3>4. \A i \in k..hi : i < hi => from[i + 1] = from[i] + ring'[ch[i]].count
      <4>1. \A i \in k..hi : i < hi => from[i + 1] = from[i] + ring[ch[i]].count
        BY <2>2 DEF Reading
      <4> TAKE i \in k..hi
      <4> HAVE i < hi
      <4>2. ring'[ch[i]] = ring[ch[i]]
        BY <3>1
      <4>3. from[i + 1] = from[i] + ring[ch[i]].count
        BY <4>1
      <4> QED BY <4>2, <4>3
    <3>5. \A i, j \in k..hi : i < j => from[i] + ring'[ch[i]].count <= from[j]
      <4>1. \A i, j \in k..hi : i < j => from[i] + ring[ch[i]].count <= from[j]
        BY <2>2 DEF Reading
      <4>2. \A i, j \in k..hi : i < j => i # hi
        OBVIOUS
      <4> QED BY <4>1, <4>2, <3>1
    <3>6. k \in lo..hi /\ rdr'.area = ch[k] /\ svc'.team \in teams'
      BY <2>2, <1>1 DEF Reading
    <3> HIDE DEF n1
    <3> QED BY <3>2, <3>3, <3>4, <3>5, <3>6 DEF Reading
  <2>12. Locks'
    <3>1. Listed' = Listed
      BY <1>0, <1>2, <1>3, <1>5, AreasThere DEF Listed
    <3>2. \A x : /\ SenderHas(x)' <=> SenderHas(x)
                 /\ ~SenderWaits(x)' /\ ~SenderWaits(x) /\ (ReaderHas(x)' <=> ReaderHas(x)) /\ (ReaderWaits(x)' <=> ReaderWaits(x))
      BY <1>1, <1>3 DEF SenderHas, SenderWaits, ReaderHas, ReaderWaits, a
    <3>3. \A x \in Listed : /\ ring'[x].lock = (IF SenderHas(x)' \/ SenderWaits(x)' THEN 1 ELSE 0)
                                             + (IF ReaderHas(x)' \/ ReaderWaits(x)' THEN 1 ELSE 0)
                            /\ ~(SenderHas(x)' /\ ReaderHas(x)')
      <4>1. \A x \in Listed : /\ ring[x].lock = (IF SenderHas(x) \/ SenderWaits(x) THEN 1 ELSE 0)
                                              + (IF ReaderHas(x) \/ ReaderWaits(x) THEN 1 ELSE 0)
                              /\ ~(SenderHas(x) /\ ReaderHas(x))
        BY <2>2 DEF Locks
      <4> QED BY <4>1, <3>2, <1>7
    <3>4. sems'.lock = IF rdr'.at = "acquire" /\ ~SenderHas(rdr.area)' THEN 1 ELSE 0
      BY <3>2, <2>2, <1>1 DEF Locks
    <3> QED BY <3>1, <3>3, <3>4, <1>1, <1>3 DEF Locks, SenderHas
  <2>13. Roused(m, n1)'
    <3>1. HasCommands(a) => m < n
      BY <2>3, <2>6 DEF HasCommands
    <3> QED BY <3>1, <2>2, <1>1, <1>3 DEF Roused
  <2>14. Counted(m, n1)'
    <3>1. sent' = Numbers(0, n1)
      BY <2>5, <1>1, NumbersGrow
    <3> HIDE DEF n1
    <3> QED BY <3>1, <2>2, <2>7, <1>1, <1>3 DEF Counted
  <2> HIDE DEF n1
  <2>15. Delivering(ch, lo, hi, from, at1, sz1, k, m, n1)'
    <3>1. Chain(ch, lo, hi)'
      BY <2>2, <1>9
    <3> QED BY <3>1, <2>10, <2>11, <2>12, <2>13, <2>14 DEF Delivering
  <2>16. n1 \in Nat
    BY <2>7
  <2> QED BY <2>9, <2>15, <2>16
<1> QED BY <1>8, <1>10, <1>11 DEF MessagingInductive

\* The list with one more area at its end, and none kept
LEMMA ChainGrows ==
    ASSUME NEW ch \in [Nat -> Area], NEW lo \in Nat, NEW hi \in Nat, Chain(ch, lo, hi),
           NEW h, h = hi + 1, NEW x \in Area, x \notin Listed,
           svc'.first = svc.first, svc'.last = x, snd'.kept = NoArea,
           DOMAIN ring' = Listed \cup {x}, ring'[x].next = NoArea, ring'[svc.last].next = x,
           \A y \in Listed : y # svc.last => ring'[y].next = ring[y].next
    PROVE  Chain([ch EXCEPT ![h] = x], lo, h)' /\ [ch EXCEPT ![h] = x] \in [Nat -> Area] /\ h \in Nat
<1> DEFINE c == [ch EXCEPT ![h] = x]
<1>0. NoArea \notin Area
  BY MessagingAssumption
<1>1. /\ lo <= hi /\ lo \in lo..hi /\ hi \in lo..hi /\ h \in Nat /\ lo <= h /\ h # hi /\ h \in lo..h
      /\ ch[lo] = svc.first /\ ch[hi] = svc.last
  BY DEF Chain
<1>2. \A i \in lo..h : i \in lo..hi \/ i = h
  OBVIOUS
<1>3. \A i \in lo..hi : i \in lo..h /\ i # h /\ i \in Nat
  OBVIOUS
<1>4. c \in [Nat -> Area] /\ c[h] = x /\ \A i \in lo..hi : c[i] = ch[i]
  BY <1>1, <1>3
<1> HIDE DEF c
<1>5. \A i \in lo..hi : ch[i] \in Listed
  BY <1>0 DEF Chain, Listed
<1>6. Listed = {ch[i] : i \in lo..hi}
  BY <1>0, <1>5 DEF Chain, Listed
<1>7. DOMAIN ring' = {c[i] : i \in lo..h} \cup ({snd'.kept} \ {NoArea})
  BY <1>1, <1>2, <1>3, <1>4, <1>6
<1>8. \A i, j \in lo..h : c[i] = c[j] => i = j
  <2>1. \A i, j \in lo..hi : ch[i] = ch[j] => i = j
    BY DEF Chain
  <2> QED BY <2>1, <1>2, <1>4, <1>5
<1>9. \A i \in lo..h : c[i] # snd'.kept /\ ring'[c[i]].next = IF i = h THEN NoArea ELSE c[i + 1]
  <2> TAKE i \in lo..h
  <2>1. CASE i = h
    BY <2>1, <1>0, <1>4
  <2>2. CASE i = hi
    <3>1. i + 1 = h
      BY <2>2
    <3> QED BY <3>1, <2>2, <1>0, <1>1, <1>4, <1>5
  <2>3. CASE i \in lo..hi /\ i # hi
    <3>1. i + 1 \in lo..hi
      BY <2>3
    <3>2. ring[ch[i]].next = ch[i + 1]
      BY <2>3 DEF Chain
    <3>3. ch[i] # svc.last
      BY <2>3, <1>1 DEF Chain
    <3>4. ring'[ch[i]].next = ring[ch[i]].next
      BY <3>3, <2>3, <1>5
    <3> QED BY <3>1, <3>2, <3>4, <2>3, <1>0, <1>3, <1>4, <1>5
  <2> QED BY <2>1, <2>2, <2>3, <1>2
<1>10. c[lo] = svc'.first /\ c[h] = svc'.last
  BY <1>1, <1>4
<1>11. Chain(c, lo, h)'
  BY <1>1, <1>7, <1>8, <1>9, <1>10 DEF Chain
<1> QED BY <1>1, <1>4, <1>11 DEF c

LEMMA AllocateNewKeeps ==
    ASSUME MessagingInductive, AllocateNew
    PROVE  MessagingInductive'
<1> DEFINE a == snd.area
           size == snd.size
<1>0. NoArea \notin Area
  BY MessagingAssumption
<1>1. /\ snd.at = "locked" /\ a = svc.last /\ Offset(ring[a], size) = NoRoom
      /\ sems' = Unlocked(ring, sems, a)
      /\ sent' = Append(sent, Len(sent) + 1)
      /\ teams' = teams /\ rdr' = rdr /\ got' = got
  BY DEF AllocateNew
<1>2. PICK x \in IF snd.kept # NoArea THEN {snd.kept} ELSE NewArea :
        /\ ring' = [y \in DOMAIN ring \cup {x} |->
                      IF y = x THEN AllocateCommand(InitHeader, size, Len(sent) + 1)
                      ELSE IF y = a THEN [ring[a] EXCEPT !.next = x, !.lock = @ - 1]
                      ELSE ring[y]]
        /\ svc' = [svc EXCEPT !.last = x]
        /\ snd' = [snd EXCEPT !.at = "unlock", !.area = x, !.kept = NoArea, !.empty = TRUE]
  BY DEF AllocateNew
<1>3. /\ svc.first # NoArea /\ a \in Listed
      /\ size \in Nat /\ CommandSize <= size /\ size <= AreaSize - HeaderSize
  BY <1>1, SenderBusy DEF MessagingInductive, MessagingTypes, SenderOK
<1> HIDE DEF a, size
<1>4. x \in Area /\ x \notin Listed /\ DOMAIN ring \cup {x} = Listed \cup {x} /\ x # a
  <2>1. snd.kept = NoArea \/ snd.kept \in DOMAIN ring
    BY <1>3, AreasThere
  <2>2. NoArea \notin DOMAIN ring
    BY <1>3, AreasThere
  <2>3. snd.kept \in Area \cup {NoArea}
    BY DEF MessagingInductive, MessagingTypes
  <2> QED BY <2>1, <2>2, <2>3, <1>2, <1>3 DEF Listed, NewArea
<1>5. /\ snd'.at = "unlock" /\ snd'.kept = NoArea /\ snd'.area = x /\ snd'.empty = TRUE
      /\ snd' \in [at : SenderPlaces, size : Nat, area : Area \cup {NoArea}, kept : Area \cup {NoArea}, empty : BOOLEAN]
  BY <1>2, <1>4 DEF MessagingInductive, MessagingTypes, SenderPlaces
<1>6. /\ svc'.first = svc.first /\ svc'.last = x /\ svc'.team = svc.team
      /\ svc' \in [first : Area \cup {NoArea}, last : Area \cup {NoArea}, team : Registrar \cup {NoTeam}]
  BY <1>2, <1>4 DEF MessagingInductive, MessagingTypes
<1>7. /\ DOMAIN ring' = Listed \cup {x} /\ ring'[x] = AllocateCommand(InitHeader, size, Len(sent) + 1)
      /\ ring'[a] = [ring[a] EXCEPT !.next = x, !.lock = @ - 1]
      /\ \A y \in Listed : y # a => ring'[y] = ring[y]
  BY <1>2, <1>3, <1>4
<1>8. \A y \in Listed : Header(ring[y])
  BY DEF MessagingInductive, MessagingTypes, Listed
<1>9. /\ Header(ring'[a]) /\ ring'[a].lock = ring[a].lock - 1 /\ ring'[a].next = x /\ ring'[a].count = ring[a].count
      /\ ring'[a].first = ring[a].first /\ ring'[a].last = ring[a].last /\ ring'[a].cmds = ring[a].cmds
  BY <1>3, <1>7, <1>8 DEF Header
<1>10. Header(InitHeader) /\ Header(ring'[x]) /\ ring'[x].lock = 1 /\ ring'[x].next = NoArea
  <2>1. Header(InitHeader) /\ InitHeader.lock = 1 /\ InitHeader.next = NoArea
    BY DEF Header, InitHeader
  <2> QED BY <2>1, <1>7, AllocateHeader
<1>11. /\ sems' \in [lock : Int, counter : Nat] /\ sems'.counter = sems.counter
       /\ SemsThere => sems'.lock = IF ring[a].lock > 1 THEN sems.lock + 1 ELSE sems.lock
  <2>1. sems \in [lock : Int, counter : Nat]
    BY DEF MessagingInductive, MessagingTypes
  <2>2. sems' = IF ring[a].lock > 1 /\ SemsThere THEN [sems EXCEPT !.lock = @ + 1] ELSE sems
    BY <1>1 DEF Unlocked
  <2> QED BY <2>1, <2>2
<1>12. MessagingTypes' /\ SenderOK'
  <2>1. \A y \in DOMAIN ring' : Header(ring'[y])
    BY <1>7, <1>8, <1>9, <1>10
  <2>2. MessagingTypes'
    BY <2>1, <1>1, <1>5, <1>6, <1>11 DEF MessagingInductive, MessagingTypes
  <2> QED BY <2>2, <1>3, <1>5, <1>6 DEF SenderOK
<1>13. ASSUME NEW ch \in [Nat -> Area], NEW lo \in Nat, NEW hi \in Nat, Chain(ch, lo, hi), NEW h, h = hi + 1
       PROVE  Chain([ch EXCEPT ![h] = x], lo, h)' /\ [ch EXCEPT ![h] = x] \in [Nat -> Area] /\ h \in Nat
  <2>1. ring'[svc.last].next = x /\ \A y \in Listed : y # svc.last => ring'[y].next = ring[y].next
    BY <1>1, <1>7, <1>9
  <2> QED BY <2>1, <1>4, <1>5, <1>6, <1>7, <1>10, <1>13, ChainGrows
<1>14. \E ch \in [Nat -> Area], lo, hi \in Nat : Chain(ch, lo, hi)'
  <2>1. PICK c \in [Nat -> Area], l \in Nat, g \in Nat : Chain(c, l, g)
    BY <1>3 DEF MessagingInductive
  <2> DEFINE h == g + 1
             d == [c EXCEPT ![h] = x]
  <2>2. Chain(d, l, h)' /\ d \in [Nat -> Area] /\ h \in Nat
    <3>1. h = g + 1
      OBVIOUS
    <3> HIDE DEF h
    <3> QED BY <3>1, <2>1, <1>13
  <2> HIDE DEF d, h
  <2> QED BY <2>2
<1>15. ASSUME rdr'.at # "none"
       PROVE  \E ch \in [Nat -> Area], lo, hi \in Nat, from, at, sz \in [Nat -> Nat], k, m, n \in Nat :
                 Delivering(ch, lo, hi, from, at, sz, k, m, n)'
  <2>1. PICK ch \in [Nat -> Area], lo \in Nat, hi \in Nat,
             from \in [Nat -> Nat], at \in [Nat -> Nat], sz \in [Nat -> Nat],
             k \in Nat, m \in Nat, n \in Nat : Delivering(ch, lo, hi, from, at, sz, k, m, n)
    BY <1>1, <1>15 DEF MessagingInductive
  <2>2. Chain(ch, lo, hi) /\ Reading(ch, lo, hi, from, k, m, n) /\ Filled(ch, hi, from, at, sz, k)
        /\ Locks /\ Roused(m, n) /\ Counted(m, n)
    BY <2>1 DEF Delivering
  <2>a. Chain(ch, lo, hi) /\ Reading(ch, lo, hi, from, k, m, n) /\ Filled(ch, hi, from, at, sz, k)
    BY <2>2
  <2>b. Later(ch, lo, hi, from, at, sz, k, m, n)
    BY <2>a, ReadingFacts
  <2>3. /\ ch[hi] = a /\ k \in k..hi /\ hi \in k..hi /\ m <= from[hi]
        /\ from[hi] + ring[a].count = n /\ RingOK(ring[a], from[hi], at, sz)
    BY <2>b, <1>1 DEF Later
  <2>4. \A i \in k..hi : /\ i \in Nat /\ i \in lo..hi /\ ch[i] \in Listed /\ ring[ch[i]].count \in Nat
                         /\ RingOK(ring[ch[i]], from[i], at, sz)
                         /\ i # hi => ch[i] # a /\ from[i] + ring[ch[i]].count <= from[hi]
    BY <2>b, <1>1 DEF Later
  <2>5. sent = Numbers(0, n) /\ Len(sent) = n /\ n < MaxMessages
    BY <2>2, <1>1, NumbersMeet DEF Counted
  <2>6. ring[a].count \in Nat /\ from[hi] \in Nat /\ ring[a].count > 0
    <3>1. ring[a].count \in Nat /\ from[hi] \in Nat
      BY <2>3, <2>4
    <3>2. ring[a].count # 0
      BY <1>1, MessagingAssumption DEF Offset, NoRoom
    <3> QED BY <3>1, <3>2
  <2>c. PICK p, z : p = Offset(InitHeader, size) /\ z = size
    OBVIOUS
  <2> DEFINE n1 == n + 1
             at1 == [at EXCEPT ![n1] = p]
             sz1 == [sz EXCEPT ![n1] = z]
             h == hi + 1
             c == [ch EXCEPT ![h] = x]
             f == [from EXCEPT ![h] = n]
  <2>7. n1 \in Nat /\ n1 = n + 1 /\ n1 <= MaxMessages /\ h \in Nat /\ h = hi + 1 /\ h # hi
    <3>1. MaxMessages \in Nat
      BY MessagingAssumption
    <3>2. n < MaxMessages
      BY <2>5
    <3> QED BY <3>1, <3>2
  <2>8. /\ ring'[x].count = 1 /\ p \in Nat /\ z \in Nat /\ RingOK(ring'[x], n, at1, sz1)
    <3>1. ring'[x] = AllocateCommand(InitHeader, z, n1)
      BY <1>7, <2>5, <2>c
    <3>2. z \in Nat /\ CommandSize <= z /\ z <= AreaSize - HeaderSize
      BY <2>c, <1>3
    <3>3. InitHeader.count = 0 /\ InitHeader.first = 0 /\ DOMAIN InitHeader.cmds = {}
      BY DEF InitHeader
    <3>4. Offset(InitHeader, z) # NoRoom
      BY <3>3, MessagingAssumption DEF Offset, NoRoom
    <3>5. RingOK(InitHeader, n, at, sz)
      BY <3>3 DEF RingOK, Ordered
    <3>6. n1 = n + InitHeader.count + 1
      BY <3>3
    <3> DEFINE q == InitHeader
    <3>7. Header(q) /\ RingOK(q, n, at, sz) /\ Offset(q, z) # NoRoom /\ n1 = n + q.count + 1 /\ q.count = 0
      BY <3>3, <3>4, <3>5, <3>6, <1>10
    <3> HIDE DEF n1, q
    <3>8. Grown(q, n, at, sz, z, n1)
      BY <3>2, <3>7, RingGrows
    <3>9. /\ AllocateCommand(q, z, n1).count = q.count + 1 /\ Offset(q, z) \in Nat
          /\ RingOK(AllocateCommand(q, z, n1), n, [at EXCEPT ![n1] = Offset(q, z)], [sz EXCEPT ![n1] = z])
      BY <3>8 DEF Grown
    <3> QED BY <3>1, <3>2, <3>7, <3>9, <2>c DEF q
  <2>9. at1 \in [Nat -> Nat] /\ sz1 \in [Nat -> Nat] /\ f \in [Nat -> Nat]
        /\ c[h] = x /\ f[h] = n /\ (\A i \in k..hi : i # h /\ c[i] = ch[i] /\ f[i] = from[i] /\ i \in Nat)
        /\ (\A i \in k..h : i \in k..hi \/ i = h)
    BY <2>8, <2>7
  <2>10. Chain(c, lo, h)' /\ c \in [Nat -> Area]
    <3>1. h = hi + 1
      OBVIOUS
    <3> HIDE DEF h
    <3> QED BY <3>1, <2>2, <1>13
  <2> HIDE DEF at1, sz1, c, f, h
  <2>11. \A i \in k..hi : from[i] + ring[ch[i]].count <= n
    <3> TAKE i \in k..hi
    <3>1. CASE i = hi
      BY <3>1, <2>3
    <3>2. CASE i # hi
      <4>1. from[i] + ring[ch[i]].count <= from[hi] /\ from[i] \in Nat /\ ring[ch[i]].count \in Nat
        BY <3>2, <2>4
      <4>2. from[hi] + ring[a].count = n
        BY <2>3
      <4> QED BY <4>1, <4>2, <2>6
    <3> QED BY <3>1, <3>2
  <2>12. \A i \in k..hi : /\ ring'[ch[i]].count = ring[ch[i]].count /\ ring'[ch[i]].first = ring[ch[i]].first
                          /\ ring'[ch[i]].last = ring[ch[i]].last /\ ring'[ch[i]].cmds = ring[ch[i]].cmds
    BY <2>3, <2>4, <1>7, <1>9
  <2>13. Filled(c, h, f, at1, sz1, k)'
    <3> SUFFICES ASSUME NEW i \in k..h PROVE RingOK(ring'[c[i]], f[i], at1, sz1)
      BY DEF Filled
    <3>1. CASE i = h
      BY <3>1, <2>8, <2>9
    <3>2. CASE i \in k..hi
      <4>1. RingOK(ring[ch[i]], from[i], at, sz) /\ from[i] \in Nat /\ ring[ch[i]].count \in Nat
        BY <3>2, <2>4
      <4>2. RingOK(ring'[ch[i]], from[i], at, sz)
        BY <4>1, <3>2, <2>12 DEF RingOK, Command
      <4>3. from[i] + ring'[ch[i]].count < n1
        <5>1. from[i] + ring[ch[i]].count <= n
          BY <3>2, <2>11
        <5>2. ring'[ch[i]].count = ring[ch[i]].count
          BY <3>2, <2>12
        <5> QED BY <5>1, <5>2, <4>1, <2>7
      <4> HIDE DEF n1
      <4>4. RingOK(ring'[ch[i]], from[i], at1, sz1)
        BY <4>1, <4>2, <4>3, <2>7, RingKeeps DEF at1, sz1
      <4> QED BY <4>4, <3>2, <2>9
    <3> QED BY <3>1, <3>2, <2>9
  <2>14. Reading(c, lo, h, f, k, m, n1)'
    <3>1. f[k] = m /\ f[h] + ring'[c[h]].count = n1
      <4>1. from[k] = m
        BY <2>2 DEF Reading
      <4> QED BY <4>1, <2>3, <2>7, <2>8, <2>9
    <3>2. \A i \in k..h : i < h => ring'[c[i]].count > 0 \/ (i = k /\ rdr'.at = "pop")
      <4>1. \A i \in k..hi : i < hi => ring[ch[i]].count > 0 \/ (i = k /\ rdr.at = "pop")
        BY <2>2 DEF Reading
      <4>2. \A i \in k..hi : i = hi \/ i < hi
        OBVIOUS
      <4>3. \A i \in k..hi : ring[ch[i]].count > 0 \/ (i = k /\ rdr.at = "pop")
        BY <4>1, <4>2, <2>3, <2>6
      <4>4. \A i \in k..h : i < h => i \in k..hi
        BY <2>7, <2>9
      <4>5. rdr'.at = rdr.at
        BY <1>1
      <4> QED BY <4>3, <4>4, <4>5, <2>9, <2>12
    <3>3. \A i \in k..h : i < h => f[i + 1] = f[i] + ring'[c[i]].count
      <4> TAKE i \in k..h
      <4> HAVE i < h
      <4>1. i \in k..hi
        BY <2>7, <2>9
      <4>2. f[i] + ring'[c[i]].count = from[i] + ring[ch[i]].count
        BY <4>1, <2>9, <2>12
      <4>3. CASE i = hi
        <5>1. i + 1 = h
          BY <4>3, <2>7
        <5> QED BY <5>1, <4>2, <4>3, <2>3, <2>9
      <4>4. CASE i # hi
        <5>1. i < hi /\ i + 1 \in k..hi
          BY <4>1, <4>4
        <5>2. \A j \in k..hi : j < hi => from[j + 1] = from[j] + ring[ch[j]].count
          BY <2>2 DEF Reading
        <5>3. from[i + 1] = from[i] + ring[ch[i]].count
          BY <5>1, <5>2, <4>1
        <5>4. f[i + 1] = from[i + 1]
          BY <5>1, <2>9
        <5> QED BY <5>3, <5>4, <4>2
      <4> QED BY <4>3, <4>4
    <3>4. \A i, j \in k..h : i < j => f[i] + ring'[c[i]].count <= f[j]
      <4> TAKE i, j \in k..h
      <4> HAVE i < j
      <4>1. i \in k..hi
        BY <2>7, <2>9
      <4>2. f[i] + ring'[c[i]].count = from[i] + ring[ch[i]].count
        BY <4>1, <2>9, <2>12
      <4>3. CASE j = h
        BY <4>1, <4>2, <4>3, <2>9, <2>11
      <4>4. CASE j \in k..hi
        <5>1. \A y, w \in k..hi : y < w => from[y] + ring[ch[y]].count <= from[w]
          BY <2>2 DEF Reading
        <5> QED BY <5>1, <4>1, <4>2, <4>4, <2>9
      <4> QED BY <4>3, <4>4, <2>9
    <3>5. k \in lo..h /\ rdr'.area = c[k] /\ svc'.team \in teams'
      <4>1. k \in lo..hi /\ rdr.area = ch[k] /\ svc.team \in teams
        BY <2>2 DEF Reading
      <4>2. c[k] = ch[k]
        BY <2>3, <2>9
      <4>3. k \in lo..h
        <5>1. k \in lo..hi /\ h = hi + 1
          BY <4>1, <2>7
        <5> QED BY <5>1
      <4> QED BY <4>1, <4>2, <4>3, <1>1, <1>6
    <3> HIDE DEF n1
    <3> QED BY <3>1, <3>2, <3>3, <3>4, <3>5 DEF Reading
  <2>15. Locks'
    <3>1. Listed' = Listed \cup {x} /\ rdr.area \in Listed /\ rdr.area # x /\ SemsThere
      <4>1. rdr.at # "none"
        BY <1>1, <1>15
      <4>2. rdr.area \in Listed /\ SemsThere
        BY <4>1, ReaderThere
      <4>3. NoArea \notin Listed
        BY <1>3, AreasThere DEF Listed
      <4>4. Listed' = DOMAIN ring' \ {NoArea}
        BY <1>5 DEF Listed
      <4> QED BY <4>2, <4>3, <4>4, <1>0, <1>4, <1>7
    <3>2. \A y : /\ SenderHas(y)' <=> y = x
                 /\ SenderHas(y) <=> y = a
                 /\ ~SenderWaits(y)' /\ ~SenderWaits(y) /\ (ReaderHas(y)' <=> ReaderHas(y)) /\ (ReaderWaits(y)' <=> ReaderWaits(y))
      BY <1>1, <1>5 DEF SenderHas, SenderWaits, ReaderHas, ReaderWaits, a
    <3>3. ~ReaderHas(x) /\ ~ReaderWaits(x)
      BY <3>1 DEF ReaderHas, ReaderWaits
    <3>4. \A y \in Listed : /\ ring[y].lock = (IF y = a THEN 1 ELSE 0) + (IF ReaderHas(y) \/ ReaderWaits(y) THEN 1 ELSE 0)
                            /\ ~(y = a /\ ReaderHas(y))
      BY <3>2, <2>2 DEF Locks
    <3>5. \A y \in Listed : ring'[y].lock = (IF ReaderHas(y) \/ ReaderWaits(y) THEN 1 ELSE 0)
      <4> TAKE y \in Listed
      <4>1. CASE y = a
        <5>1. ring[a].lock = 1 + (IF ReaderHas(a) \/ ReaderWaits(a) THEN 1 ELSE 0)
          BY <4>1, <3>4
        <5> QED BY <5>1, <4>1, <1>9
      <4>2. CASE y # a
        <5>1. ring[y].lock = IF ReaderHas(y) \/ ReaderWaits(y) THEN 1 ELSE 0
          BY <4>2, <3>4
        <5>2. ring'[y] = ring[y]
          BY <4>2, <1>7
        <5> QED BY <5>1, <5>2
      <4> QED BY <4>1, <4>2
    <3>6. sems.lock = IF rdr.at = "acquire" /\ rdr.area # a THEN 1 ELSE 0
      BY <3>2, <2>2, <1>1 DEF Locks
    <3>7. ring[a].lock > 1 <=> rdr.at = "acquire" /\ rdr.area = a
      BY <3>4, <1>3 DEF ReaderHas, ReaderWaits
    <3>8. sems'.lock = IF rdr.at = "acquire" THEN 1 ELSE 0
      BY <3>1, <3>6, <3>7, <1>11
    <3>9. \A y \in Listed' : /\ ring'[y].lock = (IF SenderHas(y)' \/ SenderWaits(y)' THEN 1 ELSE 0)
                                              + (IF ReaderHas(y)' \/ ReaderWaits(y)' THEN 1 ELSE 0)
                             /\ ~(SenderHas(y)' /\ ReaderHas(y)')
      <4> TAKE y \in Listed'
      <4>1. CASE y = x
        BY <4>1, <3>2, <3>3, <1>10
      <4>2. CASE y \in Listed
        BY <4>2, <3>2, <3>5, <1>4
      <4> QED BY <4>1, <4>2, <3>1
    <3>10. sems'.lock = (IF rdr'.at = "acquire" /\ ~SenderHas(rdr.area)' THEN 1 ELSE 0) /\ rdr'.area = rdr.area
      BY <3>1, <3>2, <3>8, <1>1
    <3> QED BY <3>9, <3>10, <1>5 DEF Locks, SenderHas
  <2>16. Roused(m, n1)'
    BY <1>5 DEF Roused
  <2>17. Counted(m, n1)'
    <3>1. sent' = Numbers(0, n1)
      BY <2>5, <1>1, NumbersGrow
    <3> HIDE DEF n1
    <3> QED BY <3>1, <2>2, <2>7, <1>1, <1>5 DEF Counted
  <2> HIDE DEF n1
  <2>18. Delivering(c, lo, h, f, at1, sz1, k, m, n1)'
    BY <2>10, <2>13, <2>14, <2>15, <2>16, <2>17 DEF Delivering
  <2>19. n1 \in Nat /\ h \in Nat
    BY <2>7
  <2> QED BY <2>9, <2>10, <2>18, <2>19
<1> QED BY <1>12, <1>14, <1>15 DEF MessagingInductive

-----------------------------------------------------------------------------
(* The theorem *)

LEMMA MessagingStarts ==
    ASSUME MessagingInit
    PROVE  MessagingInductive
<1>0. MessagingAssumption
  BY MessagingAssumption
<1>1. /\ DOMAIN ring = {} /\ svc.first = NoArea /\ svc.last = NoArea /\ svc.team = NoTeam
      /\ sems = [lock |-> 0, counter |-> 0] /\ snd = NoSend /\ rdr = NoReader
      /\ svc = [first |-> NoArea, last |-> NoArea, team |-> NoTeam]
  BY DEF MessagingInit, NoService
<1>2. snd \in [at : SenderPlaces, size : Nat, area : Area \cup {NoArea}, kept : Area \cup {NoArea}, empty : BOOLEAN]
      /\ snd.at = "idle" /\ snd.kept = NoArea
  BY <1>1 DEF NoSend, SenderPlaces
<1>3. rdr \in [at : ReaderPlaces, area : Area \cup {NoArea}] /\ rdr.at = "none" /\ rdr.area = NoArea
  BY <1>1 DEF NoReader, ReaderPlaces
<1>4. MessagingTypes /\ SenderOK
  BY <1>1, <1>2, <1>3 DEF MessagingTypes, SenderOK
<1> QED BY <1>1, <1>3, <1>4 DEF MessagingInductive

LEMMA MessagingKeeps ==
    ASSUME MessagingInductive, [MessagingStep]_messagingVars
    PROVE  MessagingInductive'
<1>1. CASE UNCHANGED messagingVars
  <2>1. /\ ring' = ring /\ svc' = svc /\ teams' = teams /\ sems' = sems /\ snd' = snd /\ rdr' = rdr
        /\ sent' = sent /\ got' = got
    BY <1>1 DEF messagingVars
  <2>2. MessagingTypes' /\ SenderOK'
    BY <2>1 DEF MessagingInductive, MessagingTypes, SenderOK
  <2>3. \A x \in DOMAIN ring : Kept(ring[x], ring'[x])
    BY <2>1 DEF Kept
  <2>4. Locks => Locks'
    BY <2>1 DEF Locks, Listed, SenderHas, SenderWaits, ReaderHas, ReaderWaits
  <2>5. \A m, n \in Nat : (Roused(m, n) => Roused(m, n)') /\ (Counted(m, n) => Counted(m, n)')
    BY <2>1 DEF Roused, Counted
  <2> QED BY <2>1, <2>2, <2>3, <2>4, <2>5, LocksOnly
<1>2. CASE MessagingStep
  BY <1>2, RegisterServiceKeeps, RegistrarLeavesKeeps, UnregisterServiceKeeps, SendMessageKeeps,
     SenderLocksKeeps, SenderAcquiresKeeps, DiscardKeeps, KeepFirstKeeps, AllocateKeeps, AllocateNewKeeps,
     AllocateFailsKeeps, SenderUnlocksKeeps, CommitKeeps, ReaderWakesKeeps, ReaderLocksKeeps, ReaderAcquiresKeeps,
     ReaderPopsKeeps, ReaderUnlocksKeeps DEF MessagingStep
<1> QED BY <1>1, <1>2

LEMMA MessagesDeliveredThere ==
    ASSUME MessagingInductive
    PROVE  MessagesDelivered
<1>1. CASE rdr.at = "none"
  <2>1. rdr = NoReader
    BY <1>1 DEF MessagingInductive, MessagingTypes, NoReader
  <2> QED BY <2>1, <1>1 DEF MessagesDelivered, MessagesInOrder, ReaderNotStranded
<1>2. CASE rdr.at # "none"
  <2>1. PICK ch \in [Nat -> Area], lo \in Nat, hi \in Nat,
             from \in [Nat -> Nat], at \in [Nat -> Nat], sz \in [Nat -> Nat],
             k \in Nat, m \in Nat, n \in Nat : Delivering(ch, lo, hi, from, at, sz, k, m, n)
    BY <1>2 DEF MessagingInductive
  <2>2. Chain(ch, lo, hi) /\ Reading(ch, lo, hi, from, k, m, n) /\ Filled(ch, hi, from, at, sz, k)
        /\ n <= MaxMessages
    BY <2>1 DEF Delivering, Counted
  <2>3. m <= n /\ Pending(rdr.area) = Numbers(m, n - m)
    <3>1. Chain(ch, lo, hi)
      BY <2>2
    <3>2. Reading(ch, lo, hi, from, k, m, n)
      BY <2>2
    <3>3. Filled(ch, hi, from, at, sz, k)
      BY <2>2
    <3>4. n <= MaxMessages
      BY <2>2
    <3>5. PendingFrom(m, n)
      BY <3>1, <3>2, <3>3, <3>4, PendingIs
    <3> QED BY <3>5 DEF PendingFrom
  <2>4. sent = got \o Pending(rdr.area)
    <3>1. n - m \in Nat /\ 0 + m = m /\ m + (n - m) = n
      BY <2>3
    <3> DEFINE d == n - m
    <3>2. d \in Nat
      BY <3>1
    <3> HIDE DEF d
    <3>3. 0 \in Nat
      OBVIOUS
    <3>4. Numbers(0, m) \o Numbers(0 + m, d) = Numbers(0, m + d)
      BY <3>2, <3>3, NumbersMeet
    <3>5. Numbers(0, m) \o Numbers(m, d) = Numbers(0, n)
      BY <3>1, <3>4 DEF d
    <3> USE DEF d
    <3> QED BY <3>5, <2>1, <2>3 DEF Delivering, Counted
  <2>5. ASSUME snd.at = "idle", rdr.at = "wait", sems.counter = 0
        PROVE  Pending(rdr.area) = <<>>
    <3>1. ~(m < n)
      BY <2>1, <2>5 DEF Delivering, Roused
    <3>2. n - m = 0
      BY <2>3, <3>1
    <3>3. Numbers(m, 0) \in Seq(Nat) /\ Len(Numbers(m, 0)) = 0
      BY NumbersMeet
    <3> QED BY <2>3, <3>2, <3>3, EmptySeq
  <2>6. ASSUME snd.at = "idle", rdr.at = "acquire"
        PROVE  sems.lock > 0
    <3>1. Locks
      BY <2>1 DEF Delivering
    <3> QED BY <3>1, <2>6 DEF Locks, SenderHas
  <2> QED BY <2>4, <2>5, <2>6 DEF MessagesDelivered, MessagesInOrder, ReaderNotStranded
<1> QED BY <1>1, <1>2

\* What SendMessage put into the areas is read once and in order, and the
\* reader does not sleep over it, for any sizes of areas and commands.
THEOREM MessagesAreDelivered == MessagingSpec => []MessagesDelivered
<1>1. MessagingInit => MessagingInductive
  BY MessagingStarts
<1>2. MessagingInductive /\ [MessagingStep]_messagingVars => MessagingInductive'
  BY MessagingKeeps
<1>3. MessagingInductive => MessagesDelivered
  BY MessagesDeliveredThere
<1> QED BY <1>1, <1>2, <1>3, PTL DEF MessagingSpec
=============================================================================
