---------------------------- MODULE ShmRingProof ----------------------------
(***************************************************************************)
(* ShmRing for any number of slots, clients, messages and kills: the       *)
(* budget of the semaphores, the count of overflows, and that the ring is  *)
(* a DropQueue.                                                            *)
(***************************************************************************)
EXTENDS ShmRing, FiniteSetTheorems, SequenceTheorems, TLAPS

USE RingAssumption

----------------------------------------------------------------------------
(* How many clients are at one of some points, as one client moves.        *)
At(points, f) == {c \in Clients : f[c] \in points}

LEMMA AtFinite ==
    ASSUME NEW P, NEW f
    PROVE  IsFiniteSet(At(P, f)) /\ Cardinality(At(P, f)) \in Nat
<1>1. At(P, f) \in SUBSET Clients
  BY DEF At
<1> QED
  BY <1>1, FS_Subset, FS_CardinalityType

LEMMA AtMoves ==
    ASSUME NEW P, NEW f, NEW g, NEW c \in Clients, NEW to,
           g[c] = to, \A d \in Clients \ {c} : g[d] = f[d]
    PROVE  /\ (to \in P <=> f[c] \in P) => At(P, g) = At(P, f)
           /\ to \in P /\ f[c] \notin P => Cardinality(At(P, g)) = Cardinality(At(P, f)) + 1
           /\ to \notin P /\ f[c] \in P => Cardinality(At(P, g)) = Cardinality(At(P, f)) - 1
<1>1. ASSUME to \in P <=> f[c] \in P
      PROVE  At(P, g) = At(P, f)
  BY <1>1 DEF At
<1>2. ASSUME to \in P, f[c] \notin P
      PROVE  Cardinality(At(P, g)) = Cardinality(At(P, f)) + 1
  <2>1. c \notin At(P, f) /\ At(P, g) = At(P, f) \cup {c}
    BY <1>2 DEF At
  <2>2. Cardinality(At(P, f) \cup {c}) = Cardinality(At(P, f)) + 1
    BY <2>1, AtFinite, FS_AddElement, Zenon
  <2> QED
    BY <2>1, <2>2, Zenon
<1>3. ASSUME to \notin P, f[c] \in P
      PROVE  Cardinality(At(P, g)) = Cardinality(At(P, f)) - 1
  <2>1. c \in At(P, f) /\ At(P, g) = At(P, f) \ {c}
    BY <1>3 DEF At
  <2>2. Cardinality(At(P, f) \ {c}) = Cardinality(At(P, f)) - 1
    BY <2>1, AtFinite, FS_RemoveElement, Zenon
  <2> QED
    BY <2>1, <2>2, Zenon
<1> QED
  BY <1>1, <1>2, <1>3

LEMMA MessageType == ASSUME TypeOK, NEW c \in Clients, cpc[c] # "done"
                     PROVE  Message(c) \in Messages /\ Message(c) = <<c, loop[c]>>
  BY DEF TypeOK, Message, Messages

LEMMA WrapType == ASSUME NEW k \in Slots PROVE Wrap(k + 1) \in Slots
  BY DEF Slots, Wrap

----------------------------------------------------------------------------
(* The budget of the semaphores.  Before sem_init of nstored nothing was   *)
(* undone.                                                                 *)
FillPoints == {"lock", "reserve", "copy", "copying", "post"}
Budget == nempty + nstored + Cardinality(Filling) + Draining + wiped
            = IF spc \in {"open", "size", "nempty"} THEN 0 ELSE NMESG
NothingWiped == spc \in {"open", "size", "nempty", "nstored"} => wiped = 0

BudgetInv == TypeOK /\ Budget /\ NothingWiped

LEMMA FillingIsAt == Filling = At(FillPoints, cpc)
  BY DEF Filling, At, FillPoints

LEMMA InitBudget == Init => BudgetInv
<1> SUFFICES ASSUME Init PROVE BudgetInv
  OBVIOUS
<1>1. TypeOK
  BY DEF Init, TypeOK, Up, Slots, Texts
<1>2. Filling = {}
  BY DEF Init, Filling
<1> QED
  BY <1>1, <1>2, FS_EmptySet DEF Init, BudgetInv, Budget, NothingWiped, Draining

LEMMA Fills ==
    ASSUME TypeOK, NEW c \in Clients, NEW from, NEW to, Step(c, from, to)
    PROVE  /\ Cardinality(Filling) \in Nat /\ Cardinality(Filling') \in Nat
           /\ (from \in FillPoints <=> to \in FillPoints) => Filling' = Filling
           /\ from \notin FillPoints /\ to \in FillPoints
                => Cardinality(Filling') = Cardinality(Filling) + 1
           /\ from \in FillPoints /\ to \notin FillPoints
                => Cardinality(Filling') = Cardinality(Filling) - 1
<1>1. Filling = At(FillPoints, cpc) /\ Filling' = At(FillPoints, cpc')
  BY DEF Filling, At, FillPoints
<1>2. DOMAIN cpc = Clients /\ cpc[c] = from /\ cpc' = [cpc EXCEPT ![c] = to]
  BY DEF Step, TypeOK
<1>3. cpc'[c] = to /\ \A d \in Clients \ {c} : cpc'[d] = cpc[d]
  BY <1>2
<1>4. /\ (to \in FillPoints <=> from \in FillPoints) => At(FillPoints, cpc') = At(FillPoints, cpc)
      /\ to \in FillPoints /\ from \notin FillPoints
           => Cardinality(At(FillPoints, cpc')) = Cardinality(At(FillPoints, cpc)) + 1
      /\ to \notin FillPoints /\ from \in FillPoints
           => Cardinality(At(FillPoints, cpc')) = Cardinality(At(FillPoints, cpc)) - 1
  BY <1>2, <1>3, AtMoves, Zenon
<1>5. /\ Cardinality(At(FillPoints, cpc)) \in Nat
      /\ Cardinality(At(FillPoints, cpc')) \in Nat
  BY AtFinite, Zenon
<1> QED
  BY <1>1, <1>4, <1>5

(* A step of a client moves slots between the semaphores and the clients.  *)
LEMMA ClientBudget ==
    ASSUME BudgetInv, NEW c \in Clients, Client(c) \/ Kill(c)
    PROVE  /\ Budget' /\ UNCHANGED <<spc, wiped>>
           /\ nempty' \in Nat /\ nstored' \in Nat /\ wiped' \in Nat
<1> USE DEF BudgetInv
<1>0. /\ nempty \in Nat /\ nstored \in Nat /\ wiped \in Nat
      /\ UNCHANGED <<spc, wiped>> /\ Draining' = Draining /\ Draining \in Nat
  BY DEF TypeOK, Client, Attach, Crash, FallAsleep, TryWait, LockRing, Reserve, BeginCopy,
         EndCopy, PostStored, Turn, Overflow, LockOverflow, CountOverflow, Kill, Step,
         serverVars, Draining
<1>1. ASSUME TryWait(c)
      PROVE  Budget' /\ nempty' \in Nat /\ nstored' \in Nat
  <2>1. Cardinality(Filling) \in Nat /\ Cardinality(Filling') = Cardinality(Filling) + 1
    <3>1. Step(c, "try", "lock")
      BY <1>1 DEF TryWait
    <3> QED
      BY <3>1, Fills DEF FillPoints
  <2> QED
    BY <1>0, <1>1, <2>1 DEF TryWait, HasRoom, Budget
<1>2. ASSUME PostStored(c)
      PROVE  Budget' /\ nempty' \in Nat /\ nstored' \in Nat
  <2>1. /\ Cardinality(Filling) \in Nat /\ Cardinality(Filling') \in Nat
        /\ Cardinality(Filling') = Cardinality(Filling) - 1
    <3>1. Step(c, "post", IF loop[c] + 1 < nloop THEN "try" ELSE "done")
      BY <1>2 DEF PostStored, Turn
    <3> HIDE DEF Step
    <3> QED
      BY <3>1, Fills DEF FillPoints
  <2> QED
    BY <1>0, <1>2, <2>1 DEF PostStored, Budget
<1>3. ASSUME NEW from, NEW to, Step(c, from, to), from \in FillPoints <=> to \in FillPoints,
             UNCHANGED <<nempty, nstored>>
      PROVE  Budget' /\ nempty' \in Nat /\ nstored' \in Nat
  BY <1>0, <1>3, Fills DEF Budget
<1>4. ASSUME Kill(c) PROVE Budget' /\ nempty' \in Nat /\ nstored' \in Nat
  BY <1>0, <1>4 DEF Kill, Budget, Filling, countVars
<1>5. CASE Attach(c)
  BY <1>0, <1>3, <1>5 DEF Attach, countVars, FillPoints
<1>6. CASE Crash(c) \/ FallAsleep(c) \/ Overflow(c) \/ LockOverflow(c)
  BY <1>0, <1>3, <1>6 DEF Crash, FallAsleep, Overflow, LockOverflow, countVars, FillPoints
<1>7. CASE LockRing(c) \/ Reserve(c) \/ BeginCopy(c) \/ EndCopy(c)
  BY <1>0, <1>3, <1>7 DEF LockRing, Reserve, BeginCopy, EndCopy, countVars, FillPoints
<1>8. CASE CountOverflow(c)
  BY <1>0, <1>3, <1>8 DEF CountOverflow, Turn, countVars, FillPoints
<1> QED
  BY <1>0, <1>1, <1>2, <1>4, <1>5, <1>6, <1>7, <1>8 DEF Client

(* The server's sem_init of nempty makes the slots; that of nstored may    *)
(* undo posts; then it carries one slot at a time back to nempty.          *)
LEMMA ServerBudget ==
    ASSUME BudgetInv, ServerNext
    PROVE  Budget' /\ NothingWiped' /\ nempty' \in Nat /\ nstored' \in Nat /\ wiped' \in Nat
<1> USE DEF BudgetInv
<1>1. /\ nempty \in Nat /\ nstored \in Nat /\ wiped \in Nat /\ NMESG \in Nat
      /\ Cardinality(Filling) \in Nat /\ Filling' = Filling
  <2>1. cpc' = cpc
    BY DEF ServerNext, StartUp, Open, Truncate, InitEmpty, InitStored, InitOverflow,
           WaitStored, PrintMessage, PostEmpty, CheckOverflow, SStep, SGo
  <2>2. Filling' = Filling
    BY <2>1 DEF Filling
  <2>3. Cardinality(Filling) \in Nat
    BY FillingIsAt, AtFinite
  <2> QED
    BY <2>2, <2>3 DEF TypeOK
<1> DEFINE F == Cardinality(Filling)
<1>2. Cardinality(Filling') = F /\ F \in Nat
  BY <1>1
<1> HIDE DEF F
<1>3. nempty + nstored + F + Draining + wiped
         = IF spc \in {"open", "size", "nempty"} THEN 0 ELSE NMESG
  BY DEF Budget, F
<1>4. nempty' + nstored' + F + Draining' + wiped'
         = (IF spc' \in {"open", "size", "nempty"} THEN 0 ELSE NMESG)
      /\ NothingWiped' /\ nempty' \in Nat /\ nstored' \in Nat /\ wiped' \in Nat
  <2>1. CASE Open
    BY <1>1, <1>2, <1>3, <2>1 DEF Open, SStep, SGo, Draining, NothingWiped, countVars
  <2>2. CASE Truncate
    BY <1>1, <1>2, <1>3, <2>2 DEF Truncate, SStep, SGo, Draining, NothingWiped, countVars
  <2>3. CASE InitEmpty
    BY <1>1, <1>2, <1>3, <2>3 DEF InitEmpty, SStep, SGo, Draining, NothingWiped, countVars
  <2>4. CASE InitStored
    BY <1>1, <1>2, <1>3, <2>4 DEF InitStored, SGo, Draining, NothingWiped, countVars
  <2>5. CASE InitOverflow
    BY <1>1, <1>2, <1>3, <2>5 DEF InitOverflow, SStep, SGo, Draining, NothingWiped, countVars
  <2>6. CASE WaitStored
    BY <1>1, <1>2, <1>3, <2>6 DEF WaitStored, Stored, SStep, SGo, Draining, NothingWiped, countVars
  <2>7. CASE PrintMessage
    BY <1>1, <1>2, <1>3, <2>7 DEF PrintMessage, SStep, SGo, Draining, NothingWiped, countVars
  <2>8. CASE PostEmpty
    BY <1>1, <1>2, <1>3, <2>8 DEF PostEmpty, Freed, SStep, SGo, Draining, NothingWiped, countVars
  <2>9. CASE CheckOverflow
    BY <1>1, <1>2, <1>3, <2>9 DEF CheckOverflow, SStep, SGo, Draining, NothingWiped, countVars
  <2> QED
    BY <2>1, <2>2, <2>3, <2>4, <2>5, <2>6, <2>7, <2>8, <2>9 DEF ServerNext, StartUp
<1> QED
  BY <1>2, <1>4 DEF Budget

LEMMA InRange ==
    ASSUME NEW a \in Nat, NEW b \in Nat, NEW f \in Nat, NEW d \in {0, 1}, NEW w \in Nat,
           a + b + f + d + w \in {0, NMESG}
    PROVE  {a, b, w} \subseteq 0 .. NMESG
<1>1. NMESG \in Nat
  OBVIOUS
<1> QED
  BY <1>1

(* Types follow: a client goes no further than its loop.                   *)
LEMMA ClientTypes ==
    ASSUME BudgetInv, NEW c \in Clients, Client(c) \/ Kill(c)
    PROVE  TypeOK'
<1>1. /\ Budget' /\ UNCHANGED <<spc, wiped>>
      /\ nempty' \in Nat /\ nstored' \in Nat /\ wiped' \in Nat
  BY ClientBudget
<1>2. nempty' \in 0 .. NMESG /\ nstored' \in 0 .. NMESG /\ wiped' \in 0 .. NMESG
  <2>1. Cardinality(Filling') \in Nat
    <3>1. Filling' = At(FillPoints, cpc')
      BY DEF Filling, At, FillPoints
    <3> QED
      BY <3>1, AtFinite, Zenon
  <2>2. Draining' \in {0, 1}
    BY DEF Draining
  <2>3. nempty' + nstored' + Cardinality(Filling') + Draining' + wiped' \in {0, NMESG}
    BY <1>1 DEF Budget
  <2> QED
    BY <1>1, <2>1, <2>2, <2>3, InRange
<1> DEFINE A == /\ mutex' \in Clients \cup {Nobody} /\ overflowmutex' \in Clients \cup {Nobody}
                /\ nput' \in Slots /\ noverflow' \in Nat /\ msgdata' \in [Slots -> Texts]
                /\ reg' \in [Clients -> Nat] /\ clash' \subseteq Clients
                /\ killed' \subseteq Clients /\ order' \in Seq(Messages)
                /\ dropped' \subseteq Messages
           B == /\ cpc' \in [Clients -> {"attach", "crashed", "asleep", "try", "lock",
                                 "reserve", "copy", "copying", "post", "overflow", "count", "done"}]
                /\ loop' \in [Clients -> 0 .. nloop]
                /\ \A d \in Clients : cpc'[d] # "done" => loop'[d] < nloop
           D == \A d \in Clients : cpc'[d] \in {"reserve", "copy", "copying", "post"}
                                       => reg'[d] \in Slots
           E == UNCHANGED <<spc, index, lastnoverflow, out, early, wiped>>
<1>3. ASSUME A, B, D, E PROVE TypeOK'
  <2>1. TypeOK
    BY DEF BudgetInv
  <2> QED
    BY <1>2, <1>3, <2>1 DEF TypeOK, Up
<1>4. TypeOK /\ Slots \subseteq Nat
  BY DEF BudgetInv, Slots
<1>5. Message(c) \in Messages \/ cpc[c] = "done"
  BY <1>4, MessageType
<1>6. Wrap(nput + 1) \in Slots
  BY <1>4, WrapType DEF TypeOK
<1> SUFFICES A /\ B /\ D /\ E
  BY <1>3
<1> USE <1>4
<1>7. E
  BY DEF Client, Attach, Crash, FallAsleep, TryWait, LockRing, Reserve, BeginCopy,
         EndCopy, PostStored, Turn, Overflow, LockOverflow, CountOverflow, Kill, Step, serverVars
<1>8. B
  <2>1. CASE Attach(c) \/ Crash(c) \/ FallAsleep(c) \/ TryWait(c) \/ LockRing(c) \/ Reserve(c)
    BY <2>1 DEF Attach, Crash, FallAsleep, TryWait, LockRing, Reserve, Step, TypeOK
  <2>2. CASE BeginCopy(c) \/ EndCopy(c) \/ Overflow(c) \/ LockOverflow(c) \/ Kill(c)
    BY <2>2 DEF BeginCopy, EndCopy, Overflow, LockOverflow, Kill, Step, TypeOK
  <2>3. CASE PostStored(c) \/ CountOverflow(c)
    <3>1. PICK from \in {"post", "count"} : Turn(c, from)
      BY <2>3 DEF PostStored, CountOverflow
    <3>2. loop[c] \in 0 .. nloop - 1
      <4>1. cpc[c] # "done"
        BY <3>1 DEF Turn, Step
      <4>2. loop[c] \in 0 .. nloop /\ loop[c] < nloop /\ nloop \in Nat
        BY <4>1 DEF TypeOK
      <4> QED
        BY <4>2
    <3> QED
      BY <3>1, <3>2 DEF Turn, Step, TypeOK
  <2> QED
    BY <2>1, <2>2, <2>3 DEF Client
<1>9. D
  BY DEF Client, Attach, Crash, FallAsleep, TryWait, LockRing, Reserve, BeginCopy,
         EndCopy, PostStored, Turn, Overflow, LockOverflow, CountOverflow, Kill, Step, TypeOK
<1>10. A
  <2>1. CASE LockRing(c)
    <3>1. nput \in Nat
      BY DEF TypeOK
    <3> QED
      BY <2>1, <3>1 DEF LockRing, Step, textVars, overVars, TypeOK
  <2>8. CASE LockOverflow(c)
    BY <2>8 DEF LockOverflow, Step, ringVars, textVars, TypeOK
  <2>2. CASE Reserve(c)
    <3>1. order' \in Seq(Messages)
      BY <2>2, <1>5 DEF Reserve, Step, TypeOK
    <3> QED
      BY <2>2, <3>1, <1>6 DEF Reserve, Step, textVars, overVars, TypeOK
  <2>3. CASE CountOverflow(c)
    <3>1. noverflow' \in Nat /\ dropped' \subseteq Messages
      BY <2>3, <1>5 DEF CountOverflow, Turn, Step, TypeOK
    <3> QED
      BY <2>3, <3>1 DEF CountOverflow, Released, Turn, Step, ringVars, textVars, TypeOK
  <2>5. CASE BeginCopy(c)
    BY <2>5 DEF BeginCopy, Step, Copying, ringVars, overVars, TypeOK
  <2>6. CASE EndCopy(c)
    <3>1. PICK m \in Texts : msgdata' = [msgdata EXCEPT ![reg[c]] = m]
      BY <2>6, <1>5 DEF EndCopy, Step, Texts
    <3>2. msgdata' \in [Slots -> Texts]
      BY <3>1 DEF TypeOK
    <3> QED
      BY <2>6, <3>2 DEF EndCopy, Step, ringVars, overVars, TypeOK
  <2>7. CASE Kill(c)
    <3>1. msgdata' \in [Slots -> Texts]
      BY <2>7 DEF Kill, Texts, TypeOK
    <3> QED
      BY <2>7, <3>1 DEF Kill, ringVars, overVars, TypeOK
  <2>4. CASE Attach(c) \/ Crash(c) \/ FallAsleep(c) \/ TryWait(c) \/ PostStored(c) \/ Overflow(c)
    BY <2>4 DEF Attach, Crash, FallAsleep, TryWait, PostStored, Turn, Overflow, Step,
       ringVars, textVars, overVars, TypeOK
  <2> QED
    BY <2>1, <2>2, <2>3, <2>4, <2>5, <2>6, <2>7, <2>8 DEF Client
<1> QED
  BY <1>7, <1>8, <1>9, <1>10

LEMMA ServerTypes == ASSUME BudgetInv, ServerNext PROVE TypeOK'
<1>1. Budget' /\ nempty' \in Nat /\ nstored' \in Nat /\ wiped' \in Nat
  BY ServerBudget
<1>2. nempty' \in 0 .. NMESG /\ nstored' \in 0 .. NMESG /\ wiped' \in 0 .. NMESG
  <2>1. Cardinality(Filling') \in Nat
    <3>1. Filling' = At(FillPoints, cpc')
      BY DEF Filling, At, FillPoints
    <3> QED
      BY <3>1, AtFinite, Zenon
  <2>2. Draining' \in {0, 1}
    BY DEF Draining
  <2>3. nempty' + nstored' + Cardinality(Filling') + Draining' + wiped' \in {0, NMESG}
    BY <1>1 DEF Budget
  <2> QED
    BY <1>1, <2>1, <2>2, <2>3, InRange
<1>3. TypeOK
  BY DEF BudgetInv
<1>4. UNCHANGED <<ringVars, overVars, textVars, cpc, loop, reg, killed>>
  BY DEF ServerNext, StartUp, Open, Truncate, InitEmpty, InitStored, InitOverflow,
         WaitStored, PrintMessage, PostEmpty, CheckOverflow, SStep, SGo
<1>5. /\ index' \in Slots /\ lastnoverflow' \in Nat /\ out' \in Seq(Texts) /\ early' \in BOOLEAN
      /\ (Up' \/ spc' \in {"open", "size", "nempty", "nstored", "noverflowmutex"})
  <2>1. CASE PrintMessage
    <3>1. Wrap(index + 1) \in Slots
      BY <1>3, WrapType DEF TypeOK
    <3>2. msgdata[index] \in Texts /\ Torn \in Texts
      BY <1>3 DEF TypeOK, Texts
    <3>3. out' \in Seq(Texts)
      BY <1>3, <2>1, <3>2 DEF PrintMessage, TypeOK
    <3> QED
      BY <1>3, <2>1, <3>1, <3>3 DEF PrintMessage, TypeOK, Up, SStep, SGo
  <2>2. CASE StartUp \/ WaitStored \/ PostEmpty \/ CheckOverflow
    BY <1>3, <2>2 DEF StartUp, Open, Truncate, InitEmpty, InitStored, InitOverflow, WaitStored,
       PostEmpty, CheckOverflow, SStep, SGo, TypeOK, Up, overVars
  <2> QED
    BY <2>1, <2>2 DEF ServerNext
<1> QED
  BY <1>2, <1>3, <1>4, <1>5 DEF TypeOK, Up, ringVars, overVars, textVars

LEMMA StepBudget == BudgetInv /\ [Next]_vars => BudgetInv'
<1> SUFFICES ASSUME BudgetInv, [Next]_vars PROVE BudgetInv'
  OBVIOUS
<1>1. CASE \E c \in Clients : Client(c) \/ Kill(c)
  BY <1>1, ClientBudget, ClientTypes DEF BudgetInv, NothingWiped
<1>2. CASE ServerNext
  BY <1>2, ServerBudget, ServerTypes DEF BudgetInv
<1>3. CASE UNCHANGED vars
  BY <1>3 DEF BudgetInv, TypeOK, Budget, NothingWiped, Up, Filling, Draining, vars, ringVars,
     countVars, textVars, overVars, serverVars
<1> QED
  BY <1>1, <1>2, <1>3 DEF Next

LEMMA AllBudget == Spec => []BudgetInv
  BY InitBudget, StepBudget, PTL DEF Spec

(* SemaphoreBudget: no slot of the ring is ever gained, and none lost but  *)
(* to a client that was killed or a post that start-up undid.              *)
THEOREM SlotsAreKept == Spec => []SemaphoreBudget
<1>1. BudgetInv => SemaphoreBudget
  BY DEF BudgetInv, Budget, SemaphoreBudget
<1> QED
  BY <1>1, AllBudget, PTL

----------------------------------------------------------------------------
(* The count of overflows: who counts holds overflowmutex and has loaded   *)
(* what is still there; no turn of a client is counted twice.              *)
Counting == \A c \in Clients : /\ cpc[c] = "count" <=> overflowmutex = c
                               /\ cpc[c] = "count" => reg[c] = noverflow
PastTurns == \A m \in dropped : m[2] < loop[m[1]]
OverflowInv == Counting /\ PastTurns /\ OverflowExact

LEMMA MessagesFinite == IsFiniteSet(Messages)
<1>1. IsFiniteSet(0 .. nloop - 1)
  BY FS_Interval
<1> QED
  BY <1>1, FS_Product DEF Messages

LEMMA InitCounting == Init => OverflowInv
  BY FS_EmptySet DEF Init, OverflowInv, Counting, PastTurns, OverflowExact

(* Other steps change neither the count nor who is counting, and take no   *)
(* turn back.                                                              *)
LEMMA StepOverflow == BudgetInv /\ OverflowInv /\ [Next]_vars => OverflowInv'
<1> SUFFICES ASSUME BudgetInv, OverflowInv, [Next]_vars PROVE OverflowInv'
  OBVIOUS
<1>1. TypeOK /\ Counting /\ PastTurns /\ OverflowExact
  BY DEF BudgetInv, OverflowInv
<1>2. \A m \in dropped : m[1] \in Clients /\ m[2] \in Nat
  BY <1>1 DEF TypeOK, Messages
<1>3. ASSUME NEW c \in Clients, CountOverflow(c) PROVE OverflowInv'
  <2>1. /\ cpc[c] = "count" /\ overflowmutex = c /\ noverflow' = noverflow + 1
        /\ cpc' = [cpc EXCEPT ![c] = IF loop[c] + 1 < nloop THEN "try" ELSE "done"]
        /\ loop' = [loop EXCEPT ![c] = @ + 1] /\ reg' = reg /\ overflowmutex' = Nobody
        /\ dropped' = dropped \cup {<<c, loop[c]>>}
    BY <1>1, <1>3 DEF CountOverflow, Turn, Step, Counting, Released, Message
  <2>2. loop[c] \in Nat
    BY <1>1 DEF TypeOK
  <2>3. Counting'
    BY <1>1, <2>1 DEF Counting, TypeOK
  <2>4. PastTurns'
    BY <1>1, <1>2, <2>1, <2>2 DEF PastTurns, TypeOK
  <2>5. <<c, loop[c]>> \notin dropped
    BY <1>1, <2>2 DEF PastTurns
  <2>6. IsFiniteSet(dropped)
    BY <1>1, MessagesFinite, FS_Subset DEF TypeOK
  <2>7. Cardinality(dropped') = Cardinality(dropped) + 1
    BY <2>1, <2>5, <2>6, FS_AddElement
  <2> QED
    BY <1>1, <2>1, <2>3, <2>4, <2>7 DEF OverflowInv, OverflowExact
<1>4. ASSUME NEW c \in Clients, LockOverflow(c) PROVE OverflowInv'
  BY <1>1, <1>4 DEF LockOverflow, Step, Unlocked, OverflowInv, Counting, PastTurns,
     OverflowExact, TypeOK
<1>5. ASSUME NEW c \in Clients, PostStored(c) PROVE OverflowInv'
  <2>1. /\ cpc[c] = "post" /\ UNCHANGED <<overVars, reg>>
        /\ cpc' = [cpc EXCEPT ![c] = IF loop[c] + 1 < nloop THEN "try" ELSE "done"]
        /\ loop' = [loop EXCEPT ![c] = @ + 1]
    BY <1>5 DEF PostStored, Turn, Step
  <2>2. loop[c] \in Nat
    BY <1>1 DEF TypeOK
  <2>3. Counting'
    BY <1>1, <2>1 DEF Counting, TypeOK, overVars
  <2>4. PastTurns'
    BY <1>1, <1>2, <2>1, <2>2 DEF PastTurns, TypeOK, overVars
  <2> QED
    BY <1>1, <2>1, <2>3, <2>4 DEF OverflowInv, OverflowExact, overVars
<1>6. ASSUME NEW c \in Clients,
             \/ Attach(c) \/ Crash(c) \/ FallAsleep(c) \/ TryWait(c) \/ LockRing(c) \/ Reserve(c)
             \/ BeginCopy(c) \/ EndCopy(c) \/ Overflow(c) \/ Kill(c)
      PROVE  OverflowInv'
  <2>1. /\ UNCHANGED <<overVars, loop>>
        /\ \A d \in Clients : /\ cpc'[d] = "count" <=> cpc[d] = "count"
                              /\ cpc'[d] = "count" => reg'[d] = reg[d]
    BY <1>1, <1>6 DEF Attach, Crash, FallAsleep, TryWait, LockRing, Reserve, BeginCopy, EndCopy,
       Overflow, Kill, Step, TypeOK
  <2> QED
    BY <1>1, <2>1 DEF OverflowInv, Counting, PastTurns, OverflowExact, overVars
<1>7. CASE ServerNext \/ UNCHANGED vars
  <2>1. UNCHANGED <<overVars, loop, cpc, reg>>
    BY <1>7 DEF ServerNext, StartUp, Open, Truncate, InitEmpty, InitStored, InitOverflow,
       WaitStored, PrintMessage, PostEmpty, CheckOverflow, SStep, SGo, vars
  <2> QED
    BY <1>1, <2>1 DEF OverflowInv, Counting, PastTurns, OverflowExact, overVars
<1> QED
  BY <1>3, <1>4, <1>5, <1>6, <1>7 DEF Next, Client

LEMMA AllOverflow == Spec => []OverflowInv
  BY InitCounting, StepOverflow, AllBudget, PTL DEF Spec

(* OverflowExact: whatever the interleaving and whoever is killed, what    *)
(* noverflow counts is the messages dropped, each once.                    *)
THEOREM NoOverflowIsLost == Spec => []OverflowExact
<1>1. OverflowInv => OverflowExact
  BY DEF OverflowInv
<1> QED
  BY <1>1, AllOverflow, PTL

----------------------------------------------------------------------------
(* The ring.  Waiting messages lie from index on; which slot the j-th of   *)
(* them lies in.                                                           *)
Putting == {"copy", "copying", "post"}
Reserves == {"reserve", "copy", "copying", "post"}
Waiting == Len(order) - Len(out)
Place(j) == IF index + j - 1 < NMESG THEN index + j - 1 ELSE index + j - 1 - NMESG
Filler(c, j) == /\ cpc[c] \in {"copy", "copying"} /\ reg[c] = Place(j)
                /\ order[Len(out) + j] = Message(c)

Reserving == \A c \in Clients : /\ cpc[c] = "reserve" <=> mutex = c
                                /\ cpc[c] = "reserve" => reg[c] = nput
WaitingCount == Waiting = nstored + Cardinality(At(Putting, cpc))
                            + (IF spc = "lock" THEN 1 ELSE 0) + wiped
NextPlace == nput \in {index + Waiting, index + Waiting - NMESG}
Increasing == \A k, l \in 1 .. Len(order) :
                 k < l /\ order[k][1] = order[l][1] => order[k][2] < order[l][2]
SentByNow == \A k \in 1 .. Len(order) :
    \/ order[k][2] < loop[order[k][1]]
    \/ order[k][2] = loop[order[k][1]] /\ cpc[order[k][1]] \in Putting

(* Until the server is early, every client that copies has the slot of its *)
(* message to itself, and every other waiting message lies in its slot.    *)
Placed == \A c \in Clients : cpc[c] \in {"copy", "copying"} => \E j \in 1 .. Waiting : Filler(c, j)
Kept == \A j \in 1 .. Waiting : \/ msgdata[Place(j)] = order[Len(out) + j]
                                \/ \E c \in Clients : Filler(c, j)

OrderInv == Reserving /\ WaitingCount /\ NextPlace /\ Increasing /\ SentByNow
RingInv == OrderInv /\ (early \/ (clash = {} /\ Placed /\ Kept))

LEMMA InitRing == Init => RingInv
<1> SUFFICES ASSUME Init PROVE RingInv
  OBVIOUS
<1>1. At(Putting, cpc) = {} /\ Waiting = 0
  BY DEF Init, At, Putting, Waiting
<1>2. WaitingCount
  <2>1. Cardinality(At(Putting, cpc)) = 0
    BY <1>1, FS_EmptySet, Zenon
  <2> QED
    BY <1>1, <2>1 DEF Init, WaitingCount
<1>3. Reserving /\ NextPlace /\ Increasing /\ SentByNow
  BY <1>1 DEF Init, Reserving, NextPlace, Increasing, SentByNow
<1>4. Placed /\ Kept /\ clash = {}
  BY <1>1 DEF Init, Placed, Kept
<1> QED
  BY <1>2, <1>3, <1>4 DEF RingInv, OrderInv

(* What the lengths and the messages are.                                  *)
LEMMA OrderType ==
    ASSUME TypeOK
    PROVE  /\ Len(order) \in Nat /\ Len(out) \in Nat /\ Waiting \in Int
           /\ index \in 0 .. NMESG - 1 /\ nput \in 0 .. NMESG - 1 /\ NMESG \in Nat \ {0}
           /\ \A k \in 1 .. Len(order) : order[k] \in Messages
           /\ \A m \in Messages : m[1] \in Clients /\ m[2] \in Nat /\ m = <<m[1], m[2]>>
<1>1. order \in Seq(Messages) /\ out \in Seq(Texts) /\ index \in Slots /\ nput \in Slots
  BY DEF TypeOK
<1>2. Len(order) \in Nat /\ Len(out) \in Nat /\ \A k \in 1 .. Len(order) : order[k] \in Messages
  BY <1>1
<1>3. \A m \in Messages : m[1] \in Clients /\ m[2] \in Nat /\ m = <<m[1], m[2]>>
  BY DEF Messages
<1> QED
  BY <1>1, <1>2, <1>3 DEF Waiting, Slots

(* The waiting messages fit; and who is about to reserve finds room.       *)
LEMMA RoomLeft ==
    ASSUME BudgetInv, WaitingCount
    PROVE  /\ Waiting \in 0 .. NMESG
           /\ \A c \in Clients : cpc[c] = "reserve" => Waiting < NMESG
<1> DEFINE P == At(Putting, cpc)
           L == IF spc = "lock" THEN 1 ELSE 0
<1>1. /\ IsFiniteSet(Filling) /\ Cardinality(Filling) \in Nat
      /\ IsFiniteSet(P) /\ Cardinality(P) \in Nat
  BY AtFinite, FillingIsAt
<1>2. Cardinality(P) <= Cardinality(Filling)
  <2>1. P \subseteq Filling
    BY DEF At, Putting, Filling
  <2> QED
    BY <1>1, <2>1, FS_Subset
<1>3. ASSUME NEW c \in Clients, cpc[c] = "reserve"
      PROVE  Cardinality(P) + 1 <= Cardinality(Filling)
  <2>1. c \notin P /\ P \cup {c} \subseteq Filling
    BY <1>3 DEF At, Putting, Filling
  <2>2. Cardinality(P \cup {c}) = Cardinality(P) + 1
    BY <1>1, <2>1, FS_AddElement
  <2>3. Cardinality(P \cup {c}) <= Cardinality(Filling)
    BY <1>1, <2>1, FS_Subset
  <2> QED
    BY <2>2, <2>3
<1>4. /\ nempty \in Nat /\ nstored \in Nat /\ wiped \in Nat /\ NMESG \in Nat
      /\ nempty + nstored + Cardinality(Filling) + Draining + wiped \in {0, NMESG}
      /\ Waiting = nstored + Cardinality(P) + L + wiped
      /\ L \in {0, 1} /\ Draining \in {0, 1} /\ L <= Draining
  BY DEF BudgetInv, TypeOK, Budget, WaitingCount, Draining
<1> HIDE DEF P, L
<1> QED
  BY <1>1, <1>2, <1>3, <1>4

LEMMA PlacesDiffer ==
    ASSUME TypeOK, Waiting \in 0 .. NMESG
    PROVE  \A i, j \in 1 .. Waiting : Place(i) \in Slots /\ (Place(i) = Place(j) => i = j)
<1>1. index \in 0 .. NMESG - 1 /\ NMESG \in Nat \ {0}
  BY OrderType
<1> QED
  BY <1>1 DEF Place, Slots

(* Where nobody starts or ends filling, places and fillers stay.           *)
LEMMA Fillers ==
    ASSUME UNCHANGED <<order, out, index>>,
           \A d \in Clients : /\ cpc'[d] \in {"copy", "copying"} <=> cpc[d] \in {"copy", "copying"}
                              /\ cpc[d] \in {"copy", "copying"}
                                   => reg'[d] = reg[d] /\ loop'[d] = loop[d]
    PROVE  /\ Waiting' = Waiting
           /\ Placed => Placed'
           /\ Kept /\ msgdata' = msgdata => Kept'
<1>1. Waiting' = Waiting /\ \A j : Place(j)' = Place(j)
  BY DEF Waiting, Place
<1>2. \A d \in Clients : \A j : Filler(d, j) <=> Filler(d, j)'
  BY <1>1 DEF Filler, Message
<1> QED
  BY <1>1, <1>2 DEF Placed, Kept

LEMMA SentStays ==
    ASSUME TypeOK, SentByNow, order' = order,
           \A d \in Clients : \/ loop'[d] = loop[d] + 1
                              \/ loop'[d] = loop[d] /\ (cpc[d] \in Putting => cpc'[d] \in Putting)
    PROVE  SentByNow'
<1> SUFFICES ASSUME NEW k \in 1 .. Len(order)
             PROVE  \/ order[k][2] < loop'[order[k][1]]
                    \/ order[k][2] = loop'[order[k][1]] /\ cpc'[order[k][1]] \in Putting
  BY DEF SentByNow
<1>1. order[k][1] \in Clients /\ order[k][2] \in Nat
  BY OrderType
<1> DEFINE d == order[k][1]
<1>2. loop[d] \in Nat /\ d \in Clients
  BY <1>1 DEF TypeOK
<1>3. order[k][2] < loop[d] \/ (order[k][2] = loop[d] /\ cpc[d] \in Putting)
  BY DEF SentByNow
<1> HIDE DEF d
<1>4. order[k][2] < loop'[d] \/ (order[k][2] = loop'[d] /\ cpc'[d] \in Putting)
  BY <1>1, <1>2, <1>3
<1> QED
  BY <1>4 DEF d

(* Away from the ring a client disturbs nothing: its number only rises.    *)
LEMMA QuietClient ==
    ASSUME BudgetInv, RingInv, NEW c \in Clients,
           \/ Attach(c) \/ Crash(c) \/ FallAsleep(c) \/ TryWait(c) \/ Overflow(c)
           \/ LockOverflow(c) \/ CountOverflow(c)
    PROVE  RingInv'
<1> USE DEF BudgetInv, RingInv, OrderInv
<1>1. /\ UNCHANGED <<mutex, nput, order, msgdata, clash, nstored, spc, index, out, early, wiped>>
      /\ cpc[c] \notin Reserves /\ cpc'[c] \notin Reserves /\ loop'[c] \in {loop[c], loop[c] + 1}
      /\ \A d \in Clients \ {c} : cpc'[d] = cpc[d] /\ reg'[d] = reg[d] /\ loop'[d] = loop[d]
  BY DEF Attach, Crash, FallAsleep, TryWait, Overflow, LockOverflow, CountOverflow, Turn, Step,
     ringVars, textVars, countVars, serverVars, Reserves, TypeOK
<1>2. Reserving'
  BY <1>1 DEF Reserving, Reserves
<1>3. At(Putting, cpc') = At(Putting, cpc)
  BY <1>1 DEF At, Putting, Reserves
<1>4. SentByNow'
  BY <1>1, SentStays DEF Putting, Reserves, TypeOK
<1>5. Waiting' = Waiting /\ (Placed => Placed') /\ (Kept => Kept')
  BY <1>1, Fillers DEF Reserves
<1>6. NextPlace' /\ Increasing'
  BY <1>1, <1>5 DEF NextPlace, Increasing
<1>7. WaitingCount'
  BY <1>1, <1>3, <1>5 DEF WaitingCount, At
<1> QED
  BY <1>1, <1>2, <1>4, <1>5, <1>6, <1>7

LEMMA LockRingKeeps == ASSUME BudgetInv, RingInv, NEW c \in Clients, LockRing(c) PROVE RingInv'
<1> USE DEF BudgetInv, RingInv, OrderInv
<1>1. /\ UNCHANGED <<nput, order, msgdata, clash, nstored, spc, index, out, early, wiped, loop>>
      /\ mutex = Nobody /\ mutex' = c /\ cpc[c] = "lock" /\ cpc'[c] = "reserve" /\ reg'[c] = nput
      /\ \A d \in Clients \ {c} : cpc'[d] = cpc[d] /\ reg'[d] = reg[d]
  BY DEF LockRing, Step, Unlocked, textVars, countVars, serverVars, TypeOK
<1>2. Reserving'
  BY <1>1 DEF Reserving
<1>3. At(Putting, cpc') = At(Putting, cpc)
  BY <1>1 DEF At, Putting
<1>4. SentByNow'
  BY <1>1, SentStays DEF Putting
<1>5. Waiting' = Waiting /\ (Placed => Placed') /\ (Kept => Kept')
  BY <1>1, Fillers
<1>6. NextPlace' /\ Increasing'
  BY <1>1, <1>5 DEF NextPlace, Increasing
<1>7. WaitingCount'
  BY <1>1, <1>3, <1>5 DEF WaitingCount, At
<1> QED
  BY <1>1, <1>2, <1>4, <1>5, <1>6, <1>7

(* A reservation takes the next place, for a message not yet sent.         *)
LEMMA ReserveKeeps == ASSUME BudgetInv, RingInv, NEW c \in Clients, Reserve(c) PROVE RingInv'
<1> USE DEF BudgetInv, RingInv, OrderInv
<1> DEFINE n == Len(order)
<1>1. /\ UNCHANGED <<msgdata, clash, nstored, spc, index, out, early, wiped, loop, reg>>
      /\ mutex' = Nobody /\ cpc[c] = "reserve" /\ cpc'[c] = "copy" /\ nput' = Wrap(nput + 1)
      /\ order' = Append(order, Message(c))
      /\ \A d \in Clients \ {c} : cpc'[d] = cpc[d]
  BY DEF Reserve, Step, textVars, countVars, serverVars, TypeOK
<1>2. /\ mutex = c /\ reg[c] = nput /\ Waiting \in 0 .. NMESG - 1
      /\ \A d \in Clients : cpc[d] = "reserve" => d = c
  <2>1. NMESG \in Nat /\ Waiting \in 0 .. NMESG /\ Waiting < NMESG
    BY <1>1, RoomLeft
  <2> QED
    BY <1>1, <2>1 DEF Reserving
<1>3. /\ n \in Nat /\ Len(order') = n + 1 /\ order'[n + 1] = Message(c)
      /\ Message(c) = <<c, loop[c]>> /\ loop[c] \in Nat
      /\ \A k \in 1 .. n : order'[k] = order[k]
  <2>1. Message(c) \in Messages
    BY <1>1, MessageType
  <2> QED
    BY <1>1, <2>1 DEF TypeOK, Message
<1>4. /\ n \in Nat /\ Len(out) \in Nat /\ Waiting \in Int
      /\ index \in 0 .. NMESG - 1 /\ nput \in 0 .. NMESG - 1 /\ NMESG \in Nat \ {0}
      /\ \A k \in 1 .. n : order[k][1] \in Clients /\ order[k][2] \in Nat
  BY OrderType
<1> HIDE DEF n
<1>5. Waiting' = Waiting + 1 /\ Waiting = n - Len(out)
  BY <1>1, <1>3, <1>4 DEF Waiting, n
<1>6. Reserving'
  <2>1. c # Nobody
    OBVIOUS
  <2> QED
    BY <1>1, <1>2 DEF Reserving
<1>7. WaitingCount'
  <2>1. Cardinality(At(Putting, cpc')) = Cardinality(At(Putting, cpc)) + 1
    BY <1>1, AtMoves DEF Putting
  <2>2. Cardinality(At(Putting, cpc)) \in Nat /\ nstored \in Nat /\ wiped \in Nat
    BY AtFinite DEF TypeOK
  <2>3. At(Putting, cpc)' = At(Putting, cpc')
    BY DEF At, Putting
  <2> QED
    BY <1>1, <1>5, <2>1, <2>2, <2>3 DEF WaitingCount
<1>8. NextPlace'
  <2>1. nput = index + Waiting \/ nput = index + Waiting - NMESG
    BY DEF NextPlace
  <2>2. nput' = IF nput + 1 >= NMESG THEN 0 ELSE nput + 1
    BY <1>1 DEF Wrap
  <2>3. nput' = index + (Waiting + 1) \/ nput' = index + (Waiting + 1) - NMESG
    BY <1>2, <1>4, <2>1, <2>2
  <2> QED
    BY <1>1, <1>5, <2>3 DEF NextPlace
<1>9. \A k \in 1 .. n : order[k][1] = c => order[k][2] < loop[c]
  BY <1>1, <1>4 DEF SentByNow, Putting, n
<1>10. Increasing'
  <2> SUFFICES ASSUME NEW k \in 1 .. n + 1, NEW l \in 1 .. n + 1, k < l,
                      order'[k][1] = order'[l][1]
               PROVE  order'[k][2] < order'[l][2]
    BY <1>3 DEF Increasing
  <2>1. k \in 1 .. n /\ order'[k] = order[k]
    BY <1>3
  <2>2. CASE l \in 1 .. n
    BY <1>3, <2>1, <2>2 DEF Increasing, n
  <2>3. CASE l = n + 1
    BY <1>3, <1>9, <2>1, <2>3
  <2> QED
    BY <1>3, <2>2, <2>3
<1>11. SentByNow'
  <2> SUFFICES ASSUME NEW k \in 1 .. n + 1
               PROVE  \/ order'[k][2] < loop[order'[k][1]]
                      \/ order'[k][2] = loop[order'[k][1]] /\ cpc'[order'[k][1]] \in Putting
    BY <1>1, <1>3 DEF SentByNow
  <2>1. CASE k = n + 1
    BY <1>1, <1>3, <2>1 DEF Putting
  <2>2. CASE k \in 1 .. n
    <3>1. /\ order'[k] = order[k] /\ order[k][1] \in Clients
          /\ \/ order[k][2] < loop[order[k][1]]
             \/ order[k][2] = loop[order[k][1]] /\ cpc[order[k][1]] \in Putting
      BY <1>3, <1>4, <2>2 DEF SentByNow, n
    <3> QED
      BY <1>1, <3>1 DEF Putting
  <2> QED
    BY <1>3, <2>1, <2>2
<1>12. ASSUME clash = {}, Placed, Kept PROVE clash' = {} /\ Placed' /\ Kept'
  <2>1. \A j : Place(j)' = Place(j)
    BY <1>1 DEF Place
  <2>2. \A j \in 1 .. Waiting : Len(out) + j \in 1 .. n /\ order'[Len(out) + j] = order[Len(out) + j]
    BY <1>2, <1>3, <1>4, <1>5
  <2>3. \A d \in Clients : \A j \in 1 .. Waiting : Filler(d, j) => Filler(d, j)'
    BY <1>1, <2>1, <2>2 DEF Filler, Message
  <2>4. PICK w \in 0 .. NMESG - 1 : w = Waiting
    BY <1>2
  <2>5. Filler(c, w + 1)'
    <3>1. Place(w + 1) = nput
      <4>1. nput = index + w \/ nput = index + w - NMESG
        BY <2>4 DEF NextPlace
      <4>2. Place(w + 1) = IF index + w < NMESG THEN index + w ELSE index + w - NMESG
        BY <1>4 DEF Place
      <4> QED
        BY <1>4, <4>1, <4>2
    <3>2. Len(out) + (w + 1) = n + 1
      BY <1>4, <1>5, <2>4
    <3> QED
      BY <1>1, <1>2, <1>3, <2>1, <3>1, <3>2 DEF Filler, Message
  <2>6. Placed'
    <3>1. \A d \in Clients : cpc[d] \in {"copy", "copying"} => \E j \in 1 .. w : Filler(d, j)'
      BY <1>12, <2>3, <2>4 DEF Placed
    <3>2. Waiting' = w + 1
      BY <1>5, <2>4
    <3> QED
      BY <1>1, <2>5, <3>1, <3>2 DEF Placed
  <2>7. Kept'
    <3> SUFFICES ASSUME NEW j \in 1 .. w + 1
                 PROVE  \/ msgdata'[Place(j)'] = order'[Len(out') + j]
                        \/ \E d \in Clients : Filler(d, j)'
      BY <1>5, <2>4 DEF Kept
    <3>1. CASE j = w + 1
      BY <2>5, <3>1
    <3>2. CASE j \in 1 .. w
      BY <1>1, <1>12, <2>1, <2>2, <2>3, <2>4, <3>2 DEF Kept
    <3> QED
      BY <3>1, <3>2
  <2> QED
    BY <1>1, <1>12, <2>6, <2>7
<1> QED
  BY <1>1, <1>6, <1>7, <1>8, <1>10, <1>11, <1>12

(* Copying clients have slots of their own, so no copy clashes.            *)
LEMMA OwnPlaces ==
    ASSUME BudgetInv, WaitingCount, Placed, NEW c \in Clients, NEW d \in Clients,
           {cpc[c], cpc[d]} \subseteq {"copy", "copying"}, reg[c] = reg[d]
    PROVE  c = d
<1>1. PICK i \in 1 .. Waiting, j \in 1 .. Waiting : Filler(c, i) /\ Filler(d, j)
  BY DEF Placed
<1>2. i = j
  BY <1>1, RoomLeft, PlacesDiffer DEF Filler, BudgetInv
<1> QED
  BY <1>1, <1>2 DEF Filler, Message

LEMMA BeginCopyKeeps == ASSUME BudgetInv, RingInv, NEW c \in Clients, BeginCopy(c) PROVE RingInv'
<1> USE DEF BudgetInv, RingInv, OrderInv
<1>1. /\ UNCHANGED <<mutex, nput, order, msgdata, nstored, spc, index, out, early, wiped, loop, reg>>
      /\ cpc[c] = "copy" /\ cpc'[c] = "copying"
      /\ \A d \in Clients \ {c} : cpc'[d] = cpc[d]
  BY DEF BeginCopy, Step, ringVars, countVars, serverVars, TypeOK
<1>2. Reserving'
  BY <1>1 DEF Reserving
<1>3. At(Putting, cpc') = At(Putting, cpc)
  BY <1>1 DEF At, Putting
<1>4. SentByNow'
  BY <1>1, SentStays DEF Putting
<1>5. Waiting' = Waiting /\ (Placed => Placed') /\ (Kept => Kept')
  BY <1>1, Fillers
<1>6. NextPlace' /\ Increasing'
  BY <1>1, <1>5 DEF NextPlace, Increasing
<1>7. WaitingCount'
  BY <1>1, <1>3, <1>5 DEF WaitingCount, At
<1>8. ASSUME clash = {}, Placed PROVE clash' = {}
  <2>1. Copying(reg[c]) = {}
    BY <1>1, <1>8, OwnPlaces DEF Copying
  <2> QED
    BY <1>8, <2>1 DEF BeginCopy
<1> QED
  BY <1>1, <1>2, <1>4, <1>5, <1>6, <1>7, <1>8

(* The text arrives whole, and in no other message's slot.                 *)
LEMMA EndCopyKeeps == ASSUME BudgetInv, RingInv, NEW c \in Clients, EndCopy(c) PROVE RingInv'
<1> USE DEF BudgetInv, RingInv, OrderInv
<1>1. /\ UNCHANGED <<mutex, nput, order, clash, nstored, spc, index, out, early, wiped, loop, reg>>
      /\ cpc[c] = "copying" /\ cpc'[c] = "post"
      /\ \A d \in Clients \ {c} : cpc'[d] = cpc[d]
  BY DEF EndCopy, Step, ringVars, countVars, serverVars, TypeOK
<1>2. Reserving'
  BY <1>1 DEF Reserving
<1>3. At(Putting, cpc') = At(Putting, cpc)
  BY <1>1 DEF At, Putting
<1>4. SentByNow'
  BY <1>1, SentStays DEF Putting
<1>5. Waiting' = Waiting /\ \A j : Place(j)' = Place(j)
  BY <1>1 DEF Waiting, Place
<1>6. NextPlace' /\ Increasing'
  BY <1>1, <1>5 DEF NextPlace, Increasing
<1>7. WaitingCount'
  BY <1>1, <1>3, <1>5 DEF WaitingCount, At
<1>8. \A d \in Clients \ {c} : \A j : Filler(d, j)' <=> Filler(d, j)
  BY <1>1, <1>5 DEF Filler, Message
<1>9. Placed => Placed'
  BY <1>1, <1>5, <1>8 DEF Placed
<1>10. ASSUME clash = {}, Placed, Kept PROVE Kept'
  <2>1. msgdata' = [msgdata EXCEPT ![reg[c]] = Message(c)]
    BY <1>10 DEF EndCopy
  <2>2. PICK i \in 1 .. Waiting : Filler(c, i)
    BY <1>1, <1>10 DEF Placed
  <2>3. \A j \in 1 .. Waiting : Place(j) \in Slots /\ (Place(j) = Place(i) => j = i)
    BY <2>2, RoomLeft, PlacesDiffer
  <2> SUFFICES ASSUME NEW j \in 1 .. Waiting
               PROVE  \/ msgdata'[Place(j)] = order[Len(out) + j]
                      \/ \E d \in Clients : Filler(d, j)'
    BY <1>1, <1>5 DEF Kept
  <2>4. CASE j = i
    BY <2>1, <2>2, <2>3, <2>4 DEF Filler, TypeOK
  <2>5. CASE j # i
    <3>1. Place(j) # reg[c] /\ ~ Filler(c, j)
      BY <2>2, <2>3, <2>5 DEF Filler
    <3>2. msgdata'[Place(j)] = msgdata[Place(j)]
      BY <2>1, <2>3, <3>1 DEF TypeOK
    <3> QED
      BY <1>8, <1>10, <3>1, <3>2 DEF Kept
  <2> QED
    BY <2>4, <2>5
<1> QED
  BY <1>1, <1>2, <1>4, <1>5, <1>6, <1>7, <1>9, <1>10

LEMMA PostKeeps == ASSUME BudgetInv, RingInv, NEW c \in Clients, PostStored(c) PROVE RingInv'
<1> USE DEF BudgetInv, RingInv, OrderInv
<1>1. /\ UNCHANGED <<mutex, nput, order, msgdata, clash, spc, index, out, early, wiped, reg>>
      /\ nstored' = nstored + 1 /\ loop'[c] = loop[c] + 1
      /\ cpc[c] = "post" /\ cpc'[c] \in {"try", "done"}
      /\ \A d \in Clients \ {c} : cpc'[d] = cpc[d] /\ loop'[d] = loop[d]
  BY DEF PostStored, Turn, Step, ringVars, textVars, serverVars, TypeOK
<1>2. Reserving'
  BY <1>1 DEF Reserving
<1>3. Cardinality(At(Putting, cpc')) = Cardinality(At(Putting, cpc)) - 1
  BY <1>1, AtMoves DEF Putting
<1>4. SentByNow'
  BY <1>1, SentStays
<1>5. Waiting' = Waiting /\ (Placed => Placed') /\ (Kept => Kept')
  BY <1>1, Fillers
<1>6. NextPlace' /\ Increasing'
  BY <1>1, <1>5 DEF NextPlace, Increasing
<1>7. WaitingCount'
  <2>1. Cardinality(At(Putting, cpc)) \in Nat /\ nstored \in Nat /\ wiped \in Nat
    BY AtFinite DEF TypeOK
  <2>2. At(Putting, cpc)' = At(Putting, cpc')
    BY DEF At, Putting
  <2> QED
    BY <1>1, <1>3, <1>5, <2>1, <2>2 DEF WaitingCount
<1> QED
  BY <1>1, <1>2, <1>4, <1>5, <1>6, <1>7

(* A client that is killed while it copies spoils its own message only.    *)
LEMMA KillKeeps == ASSUME BudgetInv, RingInv, NEW c \in Clients, Kill(c) PROVE RingInv'
<1> USE DEF BudgetInv, RingInv, OrderInv
<1>1. UNCHANGED <<mutex, nput, order, clash, nstored, spc, index, out, early, wiped, cpc, loop, reg>>
  BY DEF Kill, ringVars, countVars, serverVars
<1>2. OrderInv'
  BY <1>1 DEF Reserving, WaitingCount, NextPlace, Increasing, SentByNow, Waiting, At
<1>3. Waiting' = Waiting /\ (Placed => Placed') /\ (Kept /\ msgdata' = msgdata => Kept')
  BY <1>1, Fillers
<1>4. ASSUME Placed, Kept, cpc[c] = "copying" PROVE Kept'
  <2>1. msgdata' = [msgdata EXCEPT ![reg[c]] = Torn]
    BY <1>4 DEF Kill
  <2>2. PICK i \in 1 .. Waiting : Filler(c, i)
    BY <1>4 DEF Placed
  <2>3. \A j \in 1 .. Waiting : Place(j) \in Slots /\ (Place(j) = Place(i) => j = i)
    BY <2>2, RoomLeft, PlacesDiffer
  <2>4. \A j : Place(j)' = Place(j) /\ \A d \in Clients : Filler(d, j)' <=> Filler(d, j)
    BY <1>1 DEF Place, Filler, Message
  <2> SUFFICES ASSUME NEW j \in 1 .. Waiting
               PROVE  \/ msgdata'[Place(j)] = order[Len(out) + j]
                      \/ \E d \in Clients : Filler(d, j)
    BY <1>1, <1>3, <2>4 DEF Kept
  <2>5. CASE j # i
    <3>1. msgdata'[Place(j)] = msgdata[Place(j)]
      BY <2>1, <2>2, <2>3, <2>5 DEF TypeOK, Filler
    <3> QED
      BY <1>4, <3>1 DEF Kept
  <2> QED
    BY <2>2, <2>5
<1>5. cpc[c] # "copying" => msgdata' = msgdata
  BY DEF Kill
<1> QED
  BY <1>1, <1>2, <1>3, <1>4, <1>5

LEMMA QuietServer ==
    ASSUME BudgetInv, RingInv, StartUp \/ WaitStored \/ PostEmpty \/ CheckOverflow
    PROVE  RingInv'
<1> USE DEF BudgetInv, RingInv, OrderInv
<1>1. UNCHANGED <<mutex, nput, order, msgdata, clash, index, out, early, cpc, loop, reg>>
  BY DEF StartUp, Open, Truncate, InitEmpty, InitStored, InitOverflow, WaitStored, PostEmpty,
     CheckOverflow, SStep, SGo, ringVars, textVars
<1>2. Waiting' = Waiting /\ (Placed => Placed') /\ (Kept => Kept')
  BY <1>1, Fillers
<1>3. Reserving' /\ NextPlace' /\ Increasing' /\ SentByNow'
  BY <1>1, <1>2 DEF Reserving, NextPlace, Increasing, SentByNow
<1>4. nstored \in Nat /\ wiped \in Nat /\ (spc = "nstored" => wiped = 0)
  BY DEF TypeOK, NothingWiped
<1>5. nstored' + (IF spc' = "lock" THEN 1 ELSE 0) + wiped'
         = nstored + (IF spc = "lock" THEN 1 ELSE 0) + wiped
  <2>1. CASE StartUp
    BY <1>4, <2>1 DEF StartUp, Open, Truncate, InitEmpty, InitStored, InitOverflow, SStep, SGo,
       countVars
  <2>2. CASE WaitStored \/ PostEmpty \/ CheckOverflow
    BY <1>4, <2>2 DEF WaitStored, Stored, PostEmpty, CheckOverflow, SStep, SGo, countVars
  <2> QED
    BY <2>1, <2>2
<1>6. At(Putting, cpc)' = At(Putting, cpc)
  BY <1>1 DEF At, Putting
<1>7. WaitingCount'
  <2> DEFINE P == Cardinality(At(Putting, cpc))
             K == IF spc = "lock" THEN 1 ELSE 0
             L == IF spc' = "lock" THEN 1 ELSE 0
  <2>1. P \in Nat /\ nstored' \in Nat /\ wiped' \in Nat /\ K \in Nat /\ L \in Nat
    BY AtFinite, ServerBudget DEF ServerNext
  <2>2. Cardinality(At(Putting, cpc)') = P
    BY <1>6
  <2>3. nstored' + L + wiped' = nstored + K + wiped
    BY <1>5
  <2>4. Waiting = nstored + P + K + wiped
    BY DEF WaitingCount
  <2> HIDE DEF P, K, L
  <2>5. Waiting' = nstored' + P + L + wiped'
    <3>1. nstored \in Nat /\ wiped \in Nat
      BY <1>4
    <3>2. nstored' + P + L + wiped' = (nstored' + L + wiped') + P
      BY <2>1
    <3>3. nstored + P + K + wiped = (nstored + K + wiped) + P
      BY <2>1, <3>1
    <3> QED
      BY <1>2, <2>3, <2>4, <3>2, <3>3
  <2> QED
    BY <2>2, <2>5 DEF WaitingCount, L
<1> QED
  BY <1>1, <1>2, <1>3, <1>7

(* Printing takes the first place away; the others move up.                *)
LEMMA PrintKeeps == ASSUME BudgetInv, RingInv, PrintMessage PROVE RingInv'
<1> USE DEF BudgetInv, RingInv, OrderInv
<1>1. /\ UNCHANGED <<mutex, nput, order, msgdata, clash, nstored, wiped, cpc, loop, reg>>
      /\ spc = "lock" /\ spc' = "post" /\ index' = Wrap(index + 1)
      /\ Len(out') = Len(out) + 1
      /\ early' = (early \/ Reserved(index) # {})
  <2>1. PICK m : out' = Append(out, m)
    BY DEF PrintMessage
  <2>2. Len(out') = Len(out) + 1
    BY <2>1 DEF TypeOK
  <2> QED
    BY <2>2 DEF PrintMessage, SStep, SGo, ringVars, textVars, countVars
<1>2. /\ Len(order) \in Nat /\ Len(out) \in Nat /\ Waiting \in Int
      /\ index \in 0 .. NMESG - 1 /\ nput \in 0 .. NMESG - 1 /\ NMESG \in Nat \ {0}
  BY OrderType
<1>3. Waiting' = Waiting - 1 /\ Waiting = Len(order) - Len(out)
  BY <1>1, <1>2 DEF Waiting
<1>4. At(Putting, cpc)' = At(Putting, cpc)
  BY <1>1 DEF At, Putting
<1>5. Waiting \in 1 .. NMESG
  <2>1. Cardinality(At(Putting, cpc)) \in Nat /\ nstored \in Nat /\ wiped \in Nat
    BY AtFinite DEF TypeOK
  <2>2. Waiting >= 1
    BY <1>1, <2>1 DEF WaitingCount
  <2> QED
    BY <1>2, <2>2, RoomLeft
<1>6. WaitingCount'
  <2>1. Cardinality(At(Putting, cpc)) \in Nat /\ nstored \in Nat /\ wiped \in Nat
    BY AtFinite DEF TypeOK
  <2> QED
    BY <1>1, <1>3, <1>4, <2>1 DEF WaitingCount
<1>7. NextPlace'
  <2>1. nput = index + Waiting \/ nput = index + Waiting - NMESG
    BY DEF NextPlace
  <2>2. index' = IF index + 1 >= NMESG THEN 0 ELSE index + 1
    BY <1>1 DEF Wrap
  <2>3. nput = index' + (Waiting - 1) \/ nput = index' + (Waiting - 1) - NMESG
    BY <1>2, <1>5, <2>1, <2>2
  <2> QED
    BY <1>1, <1>3, <2>3 DEF NextPlace
<1>8. Reserving' /\ Increasing' /\ SentByNow'
  BY <1>1 DEF Reserving, Increasing, SentByNow
<1>9. \A j \in 1 .. Waiting - 1 :
         /\ j + 1 \in 1 .. Waiting /\ Place(j)' = Place(j + 1)
         /\ Len(out') + j = Len(out) + (j + 1)
  BY <1>1, <1>2, <1>5 DEF Place, Wrap
<1>10. \A d \in Clients : \A j \in 1 .. Waiting - 1 : Filler(d, j)' <=> Filler(d, j + 1)
  BY <1>1, <1>9 DEF Filler, Message
<1>11. ASSUME ~ early', Placed, Kept PROVE Placed' /\ Kept'
  <2>1. Place(1) = index
    BY <1>2 DEF Place
  <2>2. \A d \in Clients : ~ Filler(d, 1)
    BY <1>1, <1>11, <2>1 DEF Filler, Reserved
  <2>3. Placed'
    <3> SUFFICES ASSUME NEW d \in Clients, cpc[d] \in {"copy", "copying"}
                 PROVE  \E j \in 1 .. Waiting - 1 : Filler(d, j)'
      BY <1>1, <1>3 DEF Placed
    <3>1. PICK i \in 1 .. Waiting : Filler(d, i)
      BY <1>11 DEF Placed
    <3>2. i - 1 \in 1 .. Waiting - 1 /\ (i - 1) + 1 = i
      BY <1>5, <2>2, <3>1
    <3> QED
      BY <1>10, <3>1, <3>2
  <2>4. Kept'
    <3> SUFFICES ASSUME NEW j \in 1 .. Waiting - 1
                 PROVE  \/ msgdata[Place(j)'] = order[Len(out') + j]
                        \/ \E d \in Clients : Filler(d, j)'
      BY <1>1, <1>3 DEF Kept
    <3>1. \/ msgdata[Place(j + 1)] = order[Len(out) + (j + 1)]
          \/ \E d \in Clients : Filler(d, j + 1)
      BY <1>9, <1>11 DEF Kept
    <3> QED
      BY <1>9, <1>10, <3>1
  <2> QED
    BY <2>3, <2>4
<1> QED
  BY <1>1, <1>6, <1>7, <1>8, <1>11

LEMMA StepRing == BudgetInv /\ RingInv /\ [Next]_vars => RingInv'
<1> SUFFICES ASSUME BudgetInv, RingInv, [Next]_vars PROVE RingInv'
  OBVIOUS
<1>1. CASE \E c \in Clients : Client(c) \/ Kill(c)
  BY <1>1, QuietClient, LockRingKeeps, ReserveKeeps, BeginCopyKeeps, EndCopyKeeps, PostKeeps,
     KillKeeps DEF Client
<1>2. CASE ServerNext
  BY <1>2, QuietServer, PrintKeeps DEF ServerNext
<1>3. CASE UNCHANGED vars
  <2>1. UNCHANGED <<mutex, nput, order, msgdata, clash, nstored, spc, index, out, early, wiped,
                    cpc, loop, reg>>
    BY <1>3 DEF vars, ringVars, countVars, textVars, serverVars
  <2>2. Waiting' = Waiting /\ (Placed => Placed') /\ (Kept => Kept')
    BY <2>1, Fillers
  <2> QED
    BY <2>1, <2>2 DEF RingInv, OrderInv, Reserving, WaitingCount, NextPlace, Increasing,
       SentByNow, At
<1> QED
  BY <1>1, <1>2, <1>3 DEF Next

LEMMA AllRing == Spec => []RingInv
  BY InitRing, StepRing, AllBudget, PTL DEF Spec

----------------------------------------------------------------------------
(* The ring as a DropQueue.                                                *)
LEMMA Window ==
    ASSUME NEW S, NEW s, NEW b \in Nat, NEW n \in Nat, b <= n, \A i \in b + 1 .. n : s[i] \in S
    PROVE  /\ SubSeq(s, b + 1, n) \in Seq(S) /\ Len(SubSeq(s, b + 1, n)) = n - b
           /\ \A j \in 1 .. n - b : SubSeq(s, b + 1, n)[j] = s[b + j]
<1> DEFINE q == SubSeq(s, b + 1, n)
<1>1. /\ q \in Seq(S) /\ Len(q) = IF b + 1 <= n THEN n - (b + 1) + 1 ELSE 0
      /\ \A i \in 1 .. n - (b + 1) + 1 : q[i] = s[b + 1 + i - 1]
  BY SubSeqProperties
<1> HIDE DEF q
<1>2. Len(q) = n - b
  BY <1>1
<1>3. \A j \in 1 .. n - b : q[j] = s[b + j]
  <2> TAKE j \in 1 .. n - b
  <2>1. j \in 1 .. n - (b + 1) + 1 /\ b + 1 + j - 1 = b + j
    OBVIOUS
  <2>2. q[j] = s[b + 1 + j - 1]
    BY <1>1, <2>1
  <2> QED
    BY <2>1, <2>2
<1> QED
  BY <1>1, <1>2, <1>3 DEF q

LEMMA QueueGrows ==
    ASSUME NEW M, NEW s \in Seq(M), NEW m \in M, NEW b \in 0 .. Len(s)
    PROVE  SubSeq(Append(s, m), b + 1, Len(Append(s, m))) = Append(SubSeq(s, b + 1, Len(s)), m)
<1>1. PICK n \in Nat : n = Len(s)
  OBVIOUS
<1>2. PICK t \in Seq(M) : t = Append(s, m)
  BY AppendProperties
<1>3. Len(t) = n + 1 /\ t[n + 1] = m /\ \A i \in 1 .. n : t[i] = s[i]
  BY <1>1, <1>2, AppendProperties
<1>4. b \in Nat /\ b <= n /\ b <= n + 1 /\ \A i \in b + 1 .. n : s[i] \in M
  BY <1>1
<1>5. \A i \in b + 1 .. n + 1 : t[i] \in M
  BY <1>1, <1>3
<1>6. PICK q : /\ q = SubSeq(s, b + 1, n) /\ q \in Seq(M) /\ Len(q) = n - b
               /\ \A j \in 1 .. n - b : q[j] = s[b + j]
  <2>1. /\ SubSeq(s, b + 1, n) \in Seq(M) /\ Len(SubSeq(s, b + 1, n)) = n - b
        /\ \A j \in 1 .. n - b : SubSeq(s, b + 1, n)[j] = s[b + j]
    BY <1>4, Window
  <2> QED
    BY <2>1, Zenon
<1>7. PICK r : /\ r = SubSeq(t, b + 1, n + 1) /\ r \in Seq(M) /\ Len(r) = n + 1 - b
               /\ \A j \in 1 .. n + 1 - b : r[j] = t[b + j]
  <2>1. PICK k \in Nat : k = n + 1
    OBVIOUS
  <2>2. /\ SubSeq(t, b + 1, k) \in Seq(M) /\ Len(SubSeq(t, b + 1, k)) = k - b
        /\ \A j \in 1 .. k - b : SubSeq(t, b + 1, k)[j] = t[b + j]
    BY <1>4, <1>5, <2>1, Window
  <2>3. /\ SubSeq(t, b + 1, n + 1) \in Seq(M) /\ Len(SubSeq(t, b + 1, n + 1)) = n + 1 - b
        /\ \A j \in 1 .. n + 1 - b : SubSeq(t, b + 1, n + 1)[j] = t[b + j]
    BY <2>1, <2>2
  <2> QED
    BY <2>3, Zenon
<1>8. PICK a \in Seq(M) : a = Append(q, m)
  BY <1>6, AppendProperties
<1>9. /\ Len(a) = n - b + 1 /\ a[n - b + 1] = m
      /\ \A j \in 1 .. n - b : a[j] = q[j]
  BY <1>6, <1>8, AppendProperties
<1>10. \A j \in 1 .. n + 1 - b : r[j] = a[j]
  <2> TAKE j \in 1 .. n + 1 - b
  <2>1. r[j] = t[b + j]
    BY <1>7
  <2>2. CASE j = n - b + 1
    <3>1. b + j = n + 1
      BY <1>1, <2>2
    <3> QED
      BY <1>3, <1>9, <2>1, <2>2, <3>1
  <2>3. CASE j \in 1 .. n - b
    <3>1. b + j \in 1 .. n
      BY <1>1, <2>3
    <3> QED
      BY <1>3, <1>6, <1>9, <2>1, <2>3, <3>1
  <2>4. j \in 1 .. n - b \/ j = n - b + 1
    BY <1>4
  <2> QED
    BY <2>2, <2>3, <2>4
<1>11. Len(r) = Len(a)
  BY <1>4, <1>7, <1>9
<1>12. r = a
  BY <1>7, <1>8, <1>10, <1>11, SeqEqual
<1> QED
  BY <1>1, <1>2, <1>3, <1>6, <1>7, <1>8, <1>12

LEMMA Queued ==
    ASSUME BudgetInv, RingInv
    PROVE  /\ SubSeq(order, Len(out) + 1, Len(order)) \in Seq(Messages)
           /\ Len(SubSeq(order, Len(out) + 1, Len(order))) = Waiting
           /\ \A j \in 1 .. Waiting :
                 SubSeq(order, Len(out) + 1, Len(order))[j] = order[Len(out) + j]
<1>1. /\ Len(order) \in Nat /\ Len(out) \in Nat /\ Len(order) - Len(out) \in 0 .. NMESG
      /\ \A k \in 1 .. Len(order) : order[k] \in Messages
  BY OrderType, RoomLeft DEF BudgetInv, RingInv, OrderInv, Waiting
<1>2. \A i \in Len(out) + 1 .. Len(order) : order[i] \in Messages
  BY <1>1
<1>3. Len(out) <= Len(order)
  BY <1>1
<1> QED
  BY <1>1, <1>2, <1>3, Window DEF Waiting

LEMMA ReserveAccepts ==
    ASSUME BudgetInv, RingInv, NEW c \in Clients, Reserve(c)
    PROVE  \E m \in Messages : Queue!Accept(m)
<1>1. /\ cpc[c] = "reserve" /\ order' = Append(order, Message(c))
      /\ UNCHANGED <<out, noverflow, early>>
  BY DEF Reserve, Step, overVars, serverVars
<1>2. Message(c) \in Messages /\ order \in Seq(Messages)
  BY <1>1, MessageType DEF BudgetInv, TypeOK
<1>3. Len(SubSeq(order, Len(out) + 1, Len(order))) < NMESG /\ Len(out) \in 0 .. Len(order)
  <2>1. Waiting < NMESG /\ Waiting \in 0 .. NMESG
    BY <1>1, RoomLeft DEF RingInv, OrderInv
  <2>2. Len(out) \in Nat /\ Len(order) \in Nat
    BY OrderType DEF BudgetInv
  <2> QED
    BY <2>1, <2>2, Queued DEF Waiting
<1>4. SubSeq(order, Len(out) + 1, Len(order))'
         = Append(SubSeq(order, Len(out) + 1, Len(order)), Message(c))
  BY <1>1, <1>2, <1>3, QueueGrows
<1> QED
  BY <1>1, <1>2, <1>3, <1>4 DEF Queue!Accept

(* What the server prints, and that there is something to print.           *)
LEMMA PrintsWaiting ==
    ASSUME BudgetInv, RingInv, PrintMessage
    PROVE  /\ Waiting \in 1 .. NMESG /\ Place(1) = index
           /\ early' = (early \/ Reserved(index) # {})
           /\ UNCHANGED <<order, noverflow>>
           /\ Waiting >= 1 + Cardinality(At(Putting, cpc))
<1>1. /\ spc = "lock" /\ early' = (early \/ Reserved(index) # {})
      /\ UNCHANGED <<order, noverflow>>
  BY DEF PrintMessage, SStep, SGo, ringVars, overVars
<1>2. Cardinality(At(Putting, cpc)) \in Nat /\ nstored \in Nat /\ wiped \in Nat
  BY AtFinite DEF BudgetInv, TypeOK
<1>3. Waiting >= 1 + Cardinality(At(Putting, cpc)) /\ Waiting >= 1
  BY <1>1, <1>2 DEF RingInv, OrderInv, WaitingCount
<1>4. Place(1) = index
  BY OrderType DEF Place, BudgetInv
<1> QED
  BY <1>1, <1>3, <1>4, RoomLeft DEF RingInv, OrderInv

LEMMA PrintDelivers ==
    ASSUME BudgetInv, RingInv, PrintMessage, ~ early'
    PROVE  Queue!Deliver
<1> DEFINE b == Len(out)
           q == SubSeq(order, b + 1, Len(order))
<1>1. /\ Waiting \in 1 .. NMESG /\ Place(1) = index /\ ~ early /\ Reserved(index) = {}
      /\ UNCHANGED <<order, noverflow, early>>
  BY PrintsWaiting DEF BudgetInv, TypeOK
<1>2. b \in Nat /\ Len(order) \in Nat /\ b + 1 \in 1 .. Len(order) /\ order \in Seq(Messages)
  BY <1>1, OrderType DEF Waiting, BudgetInv, TypeOK
<1>3. Head(q) = order[b + 1] /\ Tail(q) = SubSeq(order, b + 1 + 1, Len(order))
  BY <1>2, HeadTailOfSubSeq
<1>4. q # << >>
  <2>1. Len(q) = Waiting
    BY Queued
  <2> HIDE DEF q
  <2> QED
    BY <1>1, <2>1
<1>5. msgdata[index] = order[b + 1]
  <2>1. 1 \in 1 .. Waiting /\ \A d \in Clients : ~ Filler(d, 1)
    BY <1>1 DEF Filler, Reserved
  <2> QED
    BY <1>1, <2>1 DEF RingInv, Kept
<1>6. out' = Append(out, order[b + 1])
  <2>1. Copying(index) = {}
    BY <1>1 DEF Copying, Reserved
  <2> QED
    BY <1>5, <2>1 DEF PrintMessage
<1>7. q' = SubSeq(order, b + 1 + 1, Len(order))
  <2>1. Len(out') = b + 1
    BY <1>6 DEF BudgetInv, TypeOK
  <2> QED
    BY <1>1, <2>1
<1> HIDE DEF b
<1> QED
  BY <1>1, <1>3, <1>4, <1>6, <1>7 DEF Queue!Deliver, b

(* The first early print: the slot is that of the first message waiting,   *)
(* and the message behind it is another client's, since a client has one   *)
(* message at a time in the making, its last.                              *)
LEMMA PrintBreaks ==
    ASSUME BudgetInv, RingInv, PrintMessage, early'
    PROVE  Queue!Break
<1> SUFFICES ASSUME ~ early PROVE Queue!TwoSenders
  BY DEF Queue!Break
<1> DEFINE b == Len(out)
           q == SubSeq(order, b + 1, Len(order))
<1>1. /\ Waiting \in 1 .. NMESG /\ Place(1) = index
      /\ Waiting >= 1 + Cardinality(At(Putting, cpc))
  BY PrintsWaiting
<1>2. PICK c \in Clients : cpc[c] \in {"copy", "copying"} /\ reg[c] = index
  BY PrintsWaiting DEF Reserved
<1>3. order[b + 1] = Message(c)
  <2>1. PICK j \in 1 .. Waiting : Filler(c, j)
    BY <1>2 DEF RingInv, Placed
  <2>2. j = 1
    BY <1>1, <1>2, <2>1, PlacesDiffer DEF Filler, BudgetInv
  <2> QED
    BY <2>1, <2>2 DEF Filler
<1>4. Waiting >= 2
  <2>1. c \in At(Putting, cpc)
    BY <1>2 DEF At, Putting
  <2>2. Cardinality(At(Putting, cpc)) # 0 /\ Cardinality(At(Putting, cpc)) \in Nat
    BY <2>1, AtFinite, FS_EmptySet
  <2> QED
    BY <1>1, <2>2
<1>5. /\ b \in Nat /\ Len(order) \in Nat /\ b + 1 \in 1 .. Len(order) /\ b + 2 \in 1 .. Len(order)
      /\ order[b + 2] \in Messages
  BY <1>4, OrderType DEF Waiting, BudgetInv
<1>6. order[b + 2][1] # c
  <2> SUFFICES ASSUME order[b + 2][1] = c PROVE FALSE
    OBVIOUS
  <2>1. order[b + 1][1] = c /\ order[b + 1][2] = loop[c] /\ loop[c] \in Nat
    BY <1>3 DEF Message, BudgetInv, TypeOK
  <2>2. order[b + 1][2] < order[b + 2][2]
    BY <1>5, <2>1 DEF RingInv, OrderInv, Increasing
  <2>3. order[b + 2][2] <= loop[c] /\ order[b + 2][2] \in Nat
    <3>1. PICK k \in 1 .. Len(order) : k = b + 2
      BY <1>5
    <3>2. order[k][2] \in Nat /\ order[k][1] = c
      BY <1>5, <3>1 DEF Messages
    <3>3. order[k][2] < loop[c] \/ order[k][2] = loop[c]
      BY <3>2 DEF RingInv, OrderInv, SentByNow
    <3> QED
      BY <2>1, <3>1, <3>2, <3>3
  <2> QED
    BY <2>1, <2>2, <2>3
<1>7. Len(q) = Waiting /\ q[1] = order[b + 1] /\ q[2] = order[b + 2] /\ q \in Seq(Messages)
  BY <1>1, <1>4, Queued
<1>8. {1, 2} \subseteq DOMAIN q
  BY <1>1, <1>4, <1>7
<1>9. q[1][1] # q[2][1]
  <2>1. order[b + 1][1] = c
    BY <1>3 DEF Message
  <2> HIDE DEF q, b
  <2> QED
    BY <1>6, <1>7, <2>1
<1> QED
  BY <1>8, <1>9 DEF Queue!TwoSenders

LEMMA InitQueue == Init => Queue!Init
<1> SUFFICES ASSUME Init PROVE Queue!Init
  OBVIOUS
<1>1. out = << >> /\ order = << >> /\ noverflow = 0 /\ early = FALSE
  BY DEF Init
<1>2. SubSeq(order, Len(out) + 1, Len(order)) = << >>
  <2>1. Len(out) + 1 = 1 /\ Len(order) = 0
    BY <1>1
  <2>2. SubSeq(order, 1, 0) = << >>
    BY SubSeqEmpty
  <2> QED
    BY <2>1, <2>2
<1> QED
  BY <1>1, <1>2 DEF Queue!Init

LEMMA StepQueue == BudgetInv /\ OverflowInv /\ RingInv /\ [Next]_vars => [Queue!Next]_(Queue!vars)
<1> SUFFICES ASSUME BudgetInv, OverflowInv, RingInv, [Next]_vars PROVE [Queue!Next]_(Queue!vars)
  OBVIOUS
<1>1. ASSUME UNCHANGED <<order, out, noverflow, early>> PROVE UNCHANGED Queue!vars
  BY <1>1 DEF Queue!vars
<1>2. ASSUME NEW c \in Clients, Client(c) \/ Kill(c) PROVE [Queue!Next]_(Queue!vars)
  <2>1. CASE Reserve(c)
    BY <2>1, ReserveAccepts DEF Queue!Next
  <2>2. CASE CountOverflow(c)
    <3>1. noverflow' = noverflow + 1 /\ UNCHANGED <<order, out, early>>
      BY <2>2 DEF CountOverflow, Turn, Step, ringVars, serverVars, OverflowInv, Counting
    <3> QED
      BY <3>1 DEF Queue!Next, Queue!Drop
  <2>3. CASE \/ Attach(c) \/ Crash(c) \/ FallAsleep(c) \/ TryWait(c) \/ LockRing(c)
             \/ BeginCopy(c) \/ EndCopy(c) \/ PostStored(c) \/ Overflow(c) \/ LockOverflow(c)
             \/ Kill(c)
    <3>1. UNCHANGED <<order, out, noverflow, early>>
      BY <2>3 DEF Attach, Crash, FallAsleep, TryWait, LockRing, BeginCopy, EndCopy, PostStored,
         Turn, Overflow, LockOverflow, Kill, Step, ringVars, overVars, serverVars
    <3> QED
      BY <1>1, <3>1
  <2> QED
    BY <1>2, <2>1, <2>2, <2>3 DEF Client
<1>3. ASSUME ServerNext PROVE [Queue!Next]_(Queue!vars)
  <2>1. CASE PrintMessage
    BY <2>1, PrintDelivers, PrintBreaks DEF Queue!Next
  <2>2. CASE StartUp \/ WaitStored \/ PostEmpty \/ CheckOverflow
    <3>1. UNCHANGED <<order, out, noverflow, early>>
      BY <2>2 DEF StartUp, Open, Truncate, InitEmpty, InitStored, InitOverflow, WaitStored,
         PostEmpty, CheckOverflow, SStep, SGo, ringVars, overVars
    <3> QED
      BY <1>1, <3>1
  <2> QED
    BY <1>3, <2>1, <2>2 DEF ServerNext
<1>4. CASE UNCHANGED vars
  BY <1>1, <1>4 DEF vars, ringVars, overVars, serverVars
<1> QED
  BY <1>2, <1>3, <1>4 DEF Next

(* ImplementsDropQueue: every step of clients and server is an Accept, a   *)
(* Deliver, a Drop or a stutter of the queue, until the server prints a    *)
(* slot that a client is still filling: a Break, which takes messages of   *)
(* two clients.                                                            *)
THEOREM Refinement == Spec => ImplementsDropQueue
BY InitQueue, StepQueue, AllBudget, AllOverflow, AllRing, PTL
   DEF Spec, ImplementsDropQueue, Queue!Spec

(* A client on its own never makes the server print too early (the slot    *)
(* printed is then never one that is still being filled), so that the      *)
(* queue it sees never breaks.                                             *)
THEOREM SingleClientIsSafe ==
    ASSUME \A c, d \in Clients : c = d
    PROVE  Spec => [](~ early)
<1>1. Init => ~ early
  BY DEF Init
<1>2. BudgetInv /\ RingInv /\ ~ early /\ [Next]_vars => ~ early'
  <2> SUFFICES ASSUME BudgetInv, RingInv, ~ early, [Next]_vars, early' PROVE FALSE
    OBVIOUS
  <2>1. PrintMessage
    BY DEF Next, Client, Attach, Crash, FallAsleep, TryWait, LockRing, Reserve, BeginCopy,
       EndCopy, PostStored, Turn, Overflow, LockOverflow, CountOverflow, Kill, Step,
       ServerNext, StartUp, Open, Truncate, InitEmpty, InitStored, InitOverflow, WaitStored,
       PostEmpty, CheckOverflow, SStep, SGo, vars, serverVars
  <2>2. Queue!TwoSenders
    BY <2>1, PrintBreaks DEF Queue!Break
  <2>3. \A j \in 1 .. Waiting : SubSeq(order, Len(out) + 1, Len(order))[j] \in Messages
    BY Queued
  <2>4. DOMAIN SubSeq(order, Len(out) + 1, Len(order)) = 1 .. Waiting
    BY Queued
  <2>5. \A m \in Messages : m[1] \in Clients
    BY DEF Messages
  <2> QED
    BY <2>2, <2>3, <2>4, <2>5 DEF Queue!TwoSenders
<1> QED
  BY <1>1, <1>2, AllBudget, AllRing, PTL DEF Spec

----------------------------------------------------------------------------
(* Who can take a step: sem_wait returns when the semaphore is there.      *)
ClientRuns(c) ==
    \/ cpc[c] \in {"attach", "try", "reserve", "copy", "copying", "post", "count"}
    \/ cpc[c] = "lock" /\ Unlocked(mutex)
    \/ cpc[c] = "overflow" /\ (~ Up \/ Unlocked(overflowmutex))
ServerRuns == \/ ~ Up \/ spc = "post"
              \/ spc = "wait" /\ Stored
              \/ spc = "lock" /\ Unlocked(mutex)
              \/ spc = "overflow" /\ Unlocked(overflowmutex)

(* All is quiet: what was sent is out, but for the messages whose post was *)
(* undone or whose client was killed over them; each of those, and each    *)
(* client killed before it reserved its slot, costs the ring one slot.     *)
AtRest == /\ \A c \in Clients \ killed : cpc[c] \in {"done", "crashed", "asleep"}
          /\ spc = "wait" /\ nstored = 0 /\ Filling \subseteq killed
          /\ nempty + wiped + Cardinality(Filling) = NMESG
          /\ Len(out) + wiped + Cardinality(At(Putting, cpc)) = Len(order)

OnlyTheDeadHold == \/ (\E c \in Clients \ killed : ClientRuns(c)) \/ ServerRuns
                   \/ mutex \in killed \/ overflowmutex \in killed \/ AtRest

(* The four semaphores never lock up clients and server but over a mutex   *)
(* whose owner was killed: else one of them can go on, or all is quiet.    *)
THEOREM NoLockUp == Spec => []OnlyTheDeadHold
<1>1. ASSUME BudgetInv, OverflowInv, RingInv, ~ ServerRuns,
             \A c \in Clients \ killed : ~ ClientRuns(c),
             mutex \notin killed, overflowmutex \notin killed
      PROVE  AtRest
  <2>1. /\ TypeOK /\ Reserving /\ Counting /\ WaitingCount
        /\ Cardinality(Filling) \in Nat /\ Cardinality(At(Putting, cpc)) \in Nat
    <3>1. Cardinality(Filling) \in Nat
      BY AtFinite, FillingIsAt, Zenon
    <3> QED
      BY <1>1, <3>1, AtFinite DEF BudgetInv, RingInv, OrderInv, OverflowInv
  <2>2. mutex = Nobody
    BY <1>1, <2>1 DEF TypeOK, Reserving, ClientRuns
  <2>3. overflowmutex = Nobody
    BY <1>1, <2>1 DEF TypeOK, Counting, ClientRuns
  <2>4. \A c \in Clients \ killed : cpc[c] \in {"done", "crashed", "asleep"}
    BY <1>1, <2>1, <2>2, <2>3 DEF TypeOK, ClientRuns, Unlocked
  <2>5. spc = "wait" /\ nstored = 0
    BY <1>1, <2>1, <2>2, <2>3 DEF TypeOK, Up, ServerRuns, Unlocked, Stored
  <2>6. Filling \subseteq killed
    BY <2>4 DEF Filling
  <2>7. nempty + wiped + Cardinality(Filling) = NMESG
    BY <1>1, <2>1, <2>5 DEF BudgetInv, Budget, Draining, TypeOK
  <2>8. Len(out) + wiped + Cardinality(At(Putting, cpc)) = Len(order)
    <3>1. Len(order) \in Nat /\ Len(out) \in Nat /\ wiped \in Nat
      BY <2>1, OrderType DEF TypeOK
    <3> QED
      BY <2>1, <2>5, <3>1 DEF WaitingCount, Waiting
  <2> QED
    BY <2>4, <2>5, <2>6, <2>7, <2>8 DEF AtRest
<1>2. BudgetInv /\ OverflowInv /\ RingInv => OnlyTheDeadHold
  BY <1>1 DEF OnlyTheDeadHold
<1> QED
  BY <1>2, AllBudget, AllOverflow, AllRing, PTL
=============================================================================
