--------------------------- MODULE ProdCons2Proof ---------------------------
(***************************************************************************)
(* ProdCons2 is correct for every number of producers and of items.        *)
(***************************************************************************)
EXTENDS ProdCons2, FiniteSetTheorems, TLAPS

(* A mutex belongs to the one thread that is inside its section.           *)
Owners == /\ \A p \in Producers : pc[p] \in {"put", "stored"} <=> putMutex = p
          /\ \A p \in Producers : pc[p] = "announce" <=> readyMutex = p
          /\ pc[Consumer] = "test" <=> readyMutex = Consumer

(* Entry k holds item k below nput, and at nput once it is stored.         *)
Filled == /\ nval = nput
          /\ \A k \in 0 .. nput - 1 : buff[k] = k
          /\ \A p \in Producers :
                pc[p] = "stored" => nput < nitems /\ buff[nput] = nput

(* The consumer's loop: i items read, and no more to read only at its end. *)
Progress == /\ pc[Consumer] # "done" => i < nitems
            /\ pc[Consumer] = "done" => i = nitems
            /\ mpc = "done" => pc[Consumer] = "done"

IInv == /\ TypeOK /\ Owners /\ Filled /\ Progress
        /\ EveryItemAccountedFor /\ NoLostWakeup /\ NoMismatch

USE ProdConsAssumption

(* The set Announcing is finite, so that its cardinality is a number, and  *)
(* one producer's step changes that number by one.                         *)
LEMMA AnnouncingFinite ==
    /\ IsFiniteSet(Announcing)
    /\ Cardinality(Announcing) \in Nat
<1>1. IsFiniteSet(Producers)
  BY FS_Interval DEF Producers
<1>2. Announcing \in SUBSET Producers
  BY DEF Announcing
<1> QED
  BY <1>1, <1>2, FS_Subset, FS_CardinalityType

LEMMA AnnouncingJoined ==
    ASSUME NEW p \in Producers, p \notin Announcing, Announcing' = Announcing \cup {p}
    PROVE  Cardinality(Announcing') = Cardinality(Announcing) + 1
  BY AnnouncingFinite, FS_AddElement

LEMMA AnnouncingLeft ==
    ASSUME NEW p \in Producers, p \in Announcing, Announcing' = Announcing \ {p}
    PROVE  Cardinality(Announcing') = Cardinality(Announcing) - 1
  BY AnnouncingFinite, FS_RemoveElement

LEMMA InitInv == Init => IInv
<1> SUFFICES ASSUME Init PROVE IInv
  OBVIOUS
<1>1. TypeOK
  BY DEF Init, TypeOK, Threads, Consumer, Producers, Free
<1>2. Announcing = {}
  BY DEF Init, Announcing, Threads
<1>3. Cardinality(Announcing) = 0
  BY <1>2, FS_EmptySet
<1> QED
  BY <1>1, <1>3 DEF Init, IInv, Owners, Filled, Progress, EveryItemAccountedFor,
     Granted, NoLostWakeup, NoMismatch, Threads, Consumer, Producers, Free

(* The owners of a mutex are told apart.                                   *)
Distinct == /\ \A q \in Producers : q \in Threads /\ q # Consumer /\ q # Free
            /\ Consumer \in Threads /\ Consumer # Free

LEMMA ThreadsDistinct == Distinct
  BY DEF Distinct, Producers, Consumer, Threads, Free

(* What a producer's step leaves alone: the consumer's place in its loop.  *)
LEMMA ProduceInv == ASSUME IInv, NEW p \in Producers, Produce(p) PROVE IInv'
<1> USE DEF Step, putVars, readyVars, consumeVars, mainVars
<1> DEFINE Kept == Announcing' = Announcing
<1>p. Distinct
  BY ThreadsDistinct
<1>t. TypeOK /\ Cardinality(Announcing) \in Nat /\ Granted \in Nat
  BY AnnouncingFinite DEF IInv, Granted
<1>1. CASE LockPut(p)
  <2>1. TypeOK'
    BY <1>1, <1>p DEF Distinct, IInv, TypeOK, LockPut
  <2>2. Owners' /\ Filled' /\ Progress'
    <3>1. Owners'
      BY <1>1, <1>p DEF Distinct, IInv, TypeOK, LockPut, Owners, Filled, Progress, Unlocked
    <3>2. Filled'
      BY <1>1, <1>p DEF Distinct, IInv, TypeOK, LockPut, Owners, Filled, Progress, Unlocked
    <3>3. Progress'
      BY <1>1, <1>p DEF Distinct, IInv, TypeOK, LockPut, Owners, Filled, Progress, Unlocked
    <3> QED
      BY <3>1, <3>2, <3>3
  <2>3. Kept
    BY <1>1, <1>t DEF TypeOK, LockPut, Announcing, Threads
  <2> QED
    BY <1>1, <1>p, <2>1, <2>2, <2>3 DEF Distinct, IInv, TypeOK, LockPut,
       EveryItemAccountedFor, Granted, NoLostWakeup, NoMismatch
<1>2. CASE NoMoreItems(p)
  <2>1. TypeOK'
    BY <1>2, <1>p DEF Distinct, IInv, TypeOK, NoMoreItems
  <2>2. Owners' /\ Filled' /\ Progress'
    <3>1. Owners'
      BY <1>2, <1>p DEF Distinct, IInv, TypeOK, NoMoreItems, Owners, Filled, Progress
    <3>2. Filled'
      BY <1>2, <1>p DEF Distinct, IInv, TypeOK, NoMoreItems, Owners, Filled, Progress
    <3>3. Progress'
      BY <1>2, <1>p DEF Distinct, IInv, TypeOK, NoMoreItems, Owners, Filled, Progress
    <3> QED
      BY <3>1, <3>2, <3>3
  <2>3. Kept
    BY <1>2, <1>t DEF TypeOK, NoMoreItems, Announcing, Threads
  <2> QED
    BY <1>2, <1>p, <2>1, <2>2, <2>3 DEF Distinct, IInv, TypeOK, NoMoreItems,
       EveryItemAccountedFor, Granted, NoLostWakeup, NoMismatch
<1>3. CASE StoreItem(p)
  <2>1. TypeOK'
    BY <1>3, <1>p DEF Distinct, IInv, TypeOK, StoreItem, Full
  <2>2. Owners' /\ Filled' /\ Progress'
    <3>1. Owners'
      BY <1>3, <1>p DEF Distinct, IInv, TypeOK, StoreItem, Owners, Filled, Progress, Full
    <3>2. Filled'
      BY <1>3, <1>p DEF Distinct, IInv, TypeOK, StoreItem, Owners, Filled, Progress, Full
    <3>3. Progress'
      BY <1>3, <1>p DEF Distinct, IInv, TypeOK, StoreItem, Owners, Filled, Progress, Full
    <3> QED
      BY <3>1, <3>2, <3>3
  <2>3. Kept
    BY <1>3, <1>t DEF TypeOK, StoreItem, Announcing, Threads
  <2> QED
    BY <1>3, <1>p, <2>1, <2>2, <2>3 DEF Distinct, IInv, TypeOK, StoreItem,
       EveryItemAccountedFor, Granted, NoLostWakeup, NoMismatch
<1>4. CASE AdvancePut(p)
  <2>1. TypeOK'
    BY <1>4, <1>p DEF Distinct, IInv, TypeOK, AdvancePut, Filled
  <2>2. Owners' /\ Filled' /\ Progress'
    <3>1. Owners'
      BY <1>4, <1>p DEF Distinct, IInv, TypeOK, AdvancePut, Owners, Filled, Progress
    <3>2. Filled'
      BY <1>4, <1>p DEF Distinct, IInv, TypeOK, AdvancePut, Owners, Filled, Progress
    <3>3. Progress'
      BY <1>4, <1>p DEF Distinct, IInv, TypeOK, AdvancePut, Owners, Filled, Progress
    <3> QED
      BY <3>1, <3>2, <3>3
  <2>3. p \notin Announcing /\ Announcing' = Announcing \cup {p}
    BY <1>4, <1>t DEF TypeOK, AdvancePut, Announcing, Threads
  <2>4. Cardinality(Announcing') = Cardinality(Announcing) + 1
    BY <2>3, AnnouncingJoined
  <2>5. Granted' = Granted
    BY <1>4, <1>p DEF Distinct, IInv, TypeOK, AdvancePut, Granted
  <2>a. nput' = nput + 1 /\ nready' = nready /\ i' = i
    BY <1>4 DEF AdvancePut
  <2>b. i \in Nat /\ nready \in Nat /\ EveryItemAccountedFor
    BY <1>t DEF IInv, TypeOK
  <2>6. EveryItemAccountedFor'
    BY <1>t, <2>4, <2>5, <2>a, <2>b DEF EveryItemAccountedFor
  <2> QED
    BY <1>4, <1>p, <2>1, <2>2, <2>6 DEF Distinct, IInv, TypeOK, AdvancePut,
       NoLostWakeup, NoMismatch
<1>5. CASE LockReady(p)
  <2>1. TypeOK'
    BY <1>5, <1>p DEF Distinct, IInv, TypeOK, LockReady
  <2>2. Owners' /\ Filled' /\ Progress'
    <3>1. Owners'
      BY <1>5, <1>p DEF Distinct, IInv, TypeOK, LockReady, Owners, Filled, Progress, Unlocked
    <3>2. Filled'
      BY <1>5, <1>p DEF Distinct, IInv, TypeOK, LockReady, Owners, Filled, Progress, Unlocked
    <3>3. Progress'
      BY <1>5, <1>p DEF Distinct, IInv, TypeOK, LockReady, Owners, Filled, Progress, Unlocked
    <3> QED
      BY <3>1, <3>2, <3>3
  <2>3. Kept
    BY <1>5, <1>t DEF TypeOK, LockReady, Announcing, Threads
  <2> QED
    BY <1>5, <1>p, <2>1, <2>2, <2>3 DEF Distinct, IInv, TypeOK, LockReady,
       EveryItemAccountedFor, Granted, NoLostWakeup, NoMismatch
<1>6. CASE Announce(p)
  <2>1. TypeOK'
    BY <1>6, <1>p DEF Distinct, IInv, TypeOK, Announce
  <2>2. Owners' /\ Filled' /\ Progress'
    <3>1. Owners'
      BY <1>6, <1>p DEF Distinct, IInv, TypeOK, Announce, Owners, Filled, Progress
    <3>2. Filled'
      BY <1>6, <1>p DEF Distinct, IInv, TypeOK, Announce, Owners, Filled, Progress
    <3>3. Progress'
      BY <1>6, <1>p DEF Distinct, IInv, TypeOK, Announce, Owners, Filled, Progress
    <3> QED
      BY <3>1, <3>2, <3>3
  <2>3. p \in Announcing /\ Announcing' = Announcing \ {p}
    BY <1>6, <1>t, <1>p DEF Distinct, TypeOK, Announce, Announcing
  <2>4. Cardinality(Announcing') = Cardinality(Announcing) - 1
    BY <2>3, AnnouncingLeft
  <2>5. Granted' = Granted
    BY <1>6, <1>p DEF Distinct, IInv, TypeOK, Announce, Granted
  <2>6. EveryItemAccountedFor'
    BY <1>6, <1>t, <2>4, <2>5 DEF IInv, Announce, EveryItemAccountedFor, TypeOK
  <2>7. NoLostWakeup'
    BY <1>6, <1>p DEF Distinct, IInv, TypeOK, Announce, MustSignal, NoLostWakeup
  <2> QED
    BY <1>6, <2>1, <2>2, <2>6, <2>7 DEF IInv, Announce, NoMismatch
<1>7. CASE Tally(p)
  <2>1. TypeOK'
    BY <1>7, <1>p DEF Distinct, IInv, TypeOK, Tally
  <2>2. Owners' /\ Filled' /\ Progress'
    <3>1. Owners'
      BY <1>7, <1>p DEF Distinct, IInv, TypeOK, Tally, Owners, Filled, Progress
    <3>2. Filled'
      BY <1>7, <1>p DEF Distinct, IInv, TypeOK, Tally, Owners, Filled, Progress
    <3>3. Progress'
      BY <1>7, <1>p DEF Distinct, IInv, TypeOK, Tally, Owners, Filled, Progress
    <3> QED
      BY <3>1, <3>2, <3>3
  <2>3. Kept
    BY <1>7, <1>t DEF TypeOK, Tally, Announcing, Threads
  <2> QED
    BY <1>7, <1>p, <2>1, <2>2, <2>3 DEF Distinct, IInv, TypeOK, Tally,
       EveryItemAccountedFor, Granted, NoLostWakeup, NoMismatch
<1> QED
  BY <1>1, <1>2, <1>3, <1>4, <1>5, <1>6, <1>7 DEF Produce

(* What the consumer's step leaves alone: the producers' places.           *)
LEMMA ConsumerKeeps ==
    ASSUME TypeOK, TypeOK', \A p \in Producers : pc'[p] = pc[p]
    PROVE  Announcing' = Announcing
  BY DEF Announcing

LEMMA ConsumeInv == ASSUME IInv, Consume \/ SpuriousWakeup PROVE IInv'
<1> USE DEF Step, putVars, readyVars, consumeVars, mainVars
<1>p. Distinct
  BY ThreadsDistinct
<1>t. TypeOK /\ Cardinality(Announcing) \in Nat /\ Granted \in Nat
  BY AnnouncingFinite DEF IInv, Granted
<1>1. CASE ConsumerLock
  <2>1. TypeOK'
    BY <1>1, <1>p, <1>t DEF Distinct, TypeOK, ConsumerLock, Unlocked
  <2>2. Owners'
    BY <1>1, <1>p, <1>t DEF Distinct, IInv, TypeOK, ConsumerLock, Unlocked, Owners
  <2>3. Filled'
    BY <1>1, <1>p, <1>t DEF Distinct, IInv, TypeOK, ConsumerLock, Unlocked, Filled
  <2>4. Progress'
    BY <1>1, <1>p, <1>t DEF Distinct, IInv, TypeOK, ConsumerLock, Unlocked, Progress
  <2>5. Announcing' = Announcing
    BY <1>1, <1>p, <1>t, <2>1, ConsumerKeeps DEF Distinct, ConsumerLock, TypeOK
  <2>6. EveryItemAccountedFor'
    BY <1>1, <1>p, <1>t, <2>5 DEF Distinct, IInv, TypeOK, ConsumerLock, Unlocked, EveryItemAccountedFor, Granted
  <2>7. NoLostWakeup'
    BY <1>1, <1>p, <1>t DEF Distinct, IInv, TypeOK, ConsumerLock, Unlocked, NoLostWakeup
  <2> QED
    BY <1>1, <2>1, <2>2, <2>3, <2>4, <2>6, <2>7 DEF IInv, NoMismatch, ConsumerLock
<1>2. CASE Wait
  <2>1. TypeOK'
    BY <1>2, <1>p, <1>t DEF Distinct, TypeOK, Wait, NothingReady
  <2>2. Owners'
    BY <1>2, <1>p, <1>t DEF Distinct, IInv, TypeOK, Wait, NothingReady, Owners
  <2>3. Filled'
    BY <1>2, <1>p, <1>t DEF Distinct, IInv, TypeOK, Wait, NothingReady, Filled
  <2>4. Progress'
    BY <1>2, <1>p, <1>t DEF Distinct, IInv, TypeOK, Wait, NothingReady, Progress
  <2>5. Announcing' = Announcing
    BY <1>2, <1>p, <1>t, <2>1, ConsumerKeeps DEF Distinct, Wait, TypeOK
  <2>6. EveryItemAccountedFor'
    BY <1>2, <1>p, <1>t, <2>5 DEF Distinct, IInv, TypeOK, Wait, NothingReady, EveryItemAccountedFor, Granted
  <2>7. NoLostWakeup'
    BY <1>2, <1>p, <1>t DEF Distinct, IInv, TypeOK, Wait, NothingReady, NoLostWakeup
  <2> QED
    BY <1>2, <2>1, <2>2, <2>3, <2>4, <2>6, <2>7 DEF IInv, NoMismatch, Wait
<1>3. CASE SpuriousWakeup
  <2>1. TypeOK'
    BY <1>3, <1>p, <1>t DEF Distinct, TypeOK, SpuriousWakeup
  <2>2. Owners'
    BY <1>3, <1>p, <1>t DEF Distinct, IInv, TypeOK, SpuriousWakeup, Owners
  <2>3. Filled'
    BY <1>3, <1>p, <1>t DEF Distinct, IInv, TypeOK, SpuriousWakeup, Filled
  <2>4. Progress'
    BY <1>3, <1>p, <1>t DEF Distinct, IInv, TypeOK, SpuriousWakeup, Progress
  <2>5. Announcing' = Announcing
    BY <1>3, <1>p, <1>t, <2>1, ConsumerKeeps DEF Distinct, SpuriousWakeup, TypeOK
  <2>6. EveryItemAccountedFor'
    BY <1>3, <1>p, <1>t, <2>5 DEF Distinct, IInv, TypeOK, SpuriousWakeup, EveryItemAccountedFor, Granted
  <2>7. NoLostWakeup'
    BY <1>3, <1>p, <1>t DEF Distinct, IInv, TypeOK, SpuriousWakeup, NoLostWakeup
  <2> QED
    BY <1>3, <2>1, <2>2, <2>3, <2>4, <2>6, <2>7 DEF IInv, NoMismatch, SpuriousWakeup
<1>4. CASE TakeReady
  <2>1. TypeOK'
    BY <1>4, <1>p, <1>t DEF Distinct, TypeOK, TakeReady, NothingReady, Taken
  <2>2. Owners'
    BY <1>4, <1>p, <1>t DEF Distinct, IInv, TypeOK, TakeReady, NothingReady, Taken, Owners
  <2>3. Filled'
    BY <1>4, <1>p, <1>t DEF Distinct, IInv, TypeOK, TakeReady, NothingReady, Taken, Filled
  <2>4. Progress'
    BY <1>4, <1>p, <1>t DEF Distinct, IInv, TypeOK, TakeReady, NothingReady, Taken, Progress
  <2>5. Announcing' = Announcing
    BY <1>4, <1>p, <1>t, <2>1, ConsumerKeeps DEF Distinct, TakeReady, TypeOK
  <2>6. EveryItemAccountedFor'
    BY <1>4, <1>p, <1>t, <2>5 DEF Distinct, IInv, TypeOK, TakeReady, NothingReady, Taken, EveryItemAccountedFor, Granted
  <2>7. NoLostWakeup'
    BY <1>4, <1>p, <1>t DEF Distinct, IInv, TypeOK, TakeReady, NothingReady, Taken, NoLostWakeup
  <2> QED
    BY <1>4, <2>1, <2>2, <2>3, <2>4, <2>6, <2>7 DEF IInv, NoMismatch, TakeReady
<1>5. CASE CheckItem
  <2>1. TypeOK'
    BY <1>5, <1>p, <1>t DEF Distinct, TypeOK, CheckItem, IInv, Progress
  <2>2. Owners'
    BY <1>5, <1>p, <1>t DEF Distinct, IInv, TypeOK, CheckItem, Owners, Progress
  <2>3. Filled'
    BY <1>5, <1>p, <1>t DEF Distinct, IInv, TypeOK, CheckItem, Filled, Progress
  <2>4. Progress'
    BY <1>5, <1>p, <1>t DEF Distinct, IInv, TypeOK, CheckItem, Progress
  <2>5. Announcing' = Announcing
    BY <1>5, <1>p, <1>t, <2>1, ConsumerKeeps DEF Distinct, CheckItem, TypeOK
  <2>6. EveryItemAccountedFor'
    BY <1>5, <1>p, <1>t, <2>5 DEF Distinct, IInv, TypeOK, CheckItem, EveryItemAccountedFor, Granted
  <2>7. NoLostWakeup'
    BY <1>5, <1>p, <1>t DEF Distinct, IInv, TypeOK, CheckItem, NoLostWakeup
  <2>8. i < nput
    BY <1>5, <1>p, <1>t DEF IInv, TypeOK, CheckItem, EveryItemAccountedFor, Granted
  <2>9. NoMismatch'
    BY <1>5, <1>t, <2>8 DEF IInv, TypeOK, CheckItem, NoMismatch, Filled
  <2> QED
    BY <2>1, <2>2, <2>3, <2>4, <2>6, <2>7, <2>9 DEF IInv
<1> QED
  BY <1>1, <1>2, <1>3, <1>4, <1>5 DEF Consume

LEMMA MainInv == ASSUME IInv, Main PROVE IInv'
<1> USE DEF Step, putVars, readyVars, consumeVars, mainVars
<1>p. Distinct
  BY ThreadsDistinct
<1>t. TypeOK /\ Cardinality(Announcing) \in Nat /\ Granted \in Nat
  BY AnnouncingFinite DEF IInv, Granted
<1>m. mi < nthreads => mi \in Producers
  BY <1>t DEF TypeOK, Producers
<1>1. CASE CreateProducer
  <2>1. TypeOK'
    BY <1>1, <1>p, <1>t, <1>m DEF Distinct, TypeOK, CreateProducer, Producers, Joinable
  <2>2. Owners'
    BY <1>1, <1>p, <1>t, <1>m DEF Distinct, IInv, TypeOK, CreateProducer, Owners
  <2>3. Filled'
    BY <1>1, <1>p, <1>t, <1>m DEF Distinct, IInv, TypeOK, CreateProducer, Filled
  <2>4. Progress'
    BY <1>1, <1>p, <1>t, <1>m DEF Distinct, IInv, TypeOK, CreateProducer, Progress
  <2>5. Announcing' = Announcing /\ Granted' = Granted
    BY <1>1, <1>p, <1>t, <1>m DEF Distinct, CreateProducer, TypeOK, Announcing, Granted
  <2>6. EveryItemAccountedFor'
    BY <1>1, <1>t, <2>5 DEF IInv, CreateProducer, EveryItemAccountedFor
  <2>7. NoLostWakeup'
    BY <1>1, <1>p, <1>t, <1>m DEF Distinct, IInv, TypeOK, CreateProducer, NoLostWakeup
  <2> QED
    BY <1>1, <2>1, <2>2, <2>3, <2>4, <2>6, <2>7 DEF IInv, NoMismatch, CreateProducer
<1>2. CASE CreateFails \/ JoinNobody
  <2>1. TypeOK'
    BY <1>2, <1>p, <1>t, <1>m DEF Distinct, TypeOK, CreateFails, JoinNobody, Producers, Joinable
  <2>2. Owners'
    BY <1>2, <1>p, <1>t, <1>m DEF Distinct, IInv, TypeOK, CreateFails, JoinNobody, Owners
  <2>3. Filled'
    BY <1>2, <1>p, <1>t, <1>m DEF Distinct, IInv, TypeOK, CreateFails, JoinNobody, Filled
  <2>4. Progress'
    BY <1>2, <1>p, <1>t, <1>m DEF Distinct, IInv, TypeOK, CreateFails, JoinNobody, Progress
  <2>5. Announcing' = Announcing /\ Granted' = Granted
    BY <1>2, <1>p, <1>t, <1>m DEF Distinct, CreateFails, JoinNobody, TypeOK, Announcing, Granted
  <2>6. EveryItemAccountedFor'
    BY <1>2, <1>t, <2>5 DEF IInv, CreateFails, JoinNobody, EveryItemAccountedFor
  <2>7. NoLostWakeup'
    BY <1>2, <1>p, <1>t, <1>m DEF Distinct, IInv, TypeOK, CreateFails, JoinNobody, NoLostWakeup
  <2> QED
    BY <1>2, <2>1, <2>2, <2>3, <2>4, <2>6, <2>7 DEF IInv, NoMismatch, CreateFails, JoinNobody
<1>3. CASE CreateConsumer
  <2>1. TypeOK'
    BY <1>3, <1>p, <1>t, <1>m DEF Distinct, TypeOK, CreateConsumer, Producers, Joinable
  <2>2. Owners'
    BY <1>3, <1>p, <1>t, <1>m DEF Distinct, IInv, TypeOK, CreateConsumer, Owners
  <2>3. Filled'
    BY <1>3, <1>p, <1>t, <1>m DEF Distinct, IInv, TypeOK, CreateConsumer, Filled
  <2>4. Progress'
    BY <1>3, <1>p, <1>t, <1>m DEF Distinct, IInv, TypeOK, CreateConsumer, Progress
  <2>5. Announcing' = Announcing /\ Granted' = Granted
    BY <1>3, <1>p, <1>t, <1>m DEF Distinct, CreateConsumer, TypeOK, Announcing, Granted
  <2>6. EveryItemAccountedFor'
    BY <1>3, <1>t, <2>5 DEF IInv, CreateConsumer, EveryItemAccountedFor
  <2>7. NoLostWakeup'
    BY <1>3, <1>p, <1>t, <1>m DEF Distinct, IInv, TypeOK, CreateConsumer, NoLostWakeup
  <2> QED
    BY <1>3, <2>1, <2>2, <2>3, <2>4, <2>6, <2>7 DEF IInv, NoMismatch, CreateConsumer
<1>4. CASE JoinProducer
  <2>1. TypeOK'
    BY <1>4, <1>p, <1>t, <1>m DEF Distinct, TypeOK, JoinProducer, Producers, Joinable
  <2>2. Owners'
    BY <1>4, <1>p, <1>t, <1>m DEF Distinct, IInv, TypeOK, JoinProducer, Owners
  <2>3. Filled'
    BY <1>4, <1>p, <1>t, <1>m DEF Distinct, IInv, TypeOK, JoinProducer, Filled
  <2>4. Progress'
    BY <1>4, <1>p, <1>t, <1>m DEF Distinct, IInv, TypeOK, JoinProducer, Progress
  <2>5. Announcing' = Announcing /\ Granted' = Granted
    BY <1>4, <1>p, <1>t, <1>m DEF Distinct, JoinProducer, TypeOK, Announcing, Granted
  <2>6. EveryItemAccountedFor'
    BY <1>4, <1>t, <2>5 DEF IInv, JoinProducer, EveryItemAccountedFor
  <2>7. NoLostWakeup'
    BY <1>4, <1>p, <1>t, <1>m DEF Distinct, IInv, TypeOK, JoinProducer, NoLostWakeup
  <2> QED
    BY <1>4, <2>1, <2>2, <2>3, <2>4, <2>6, <2>7 DEF IInv, NoMismatch, JoinProducer
<1>5. CASE JoinConsumer
  <2>1. TypeOK'
    BY <1>5, <1>p, <1>t, <1>m DEF Distinct, TypeOK, JoinConsumer, Joinable
  <2>2. Owners'
    BY <1>5, <1>p, <1>t, <1>m DEF Distinct, IInv, TypeOK, JoinConsumer, Joinable, Consumer, Owners
  <2>3. Filled'
    BY <1>5, <1>p, <1>t, <1>m DEF Distinct, IInv, TypeOK, JoinConsumer, Joinable, Consumer, Filled
  <2>4. Progress'
    BY <1>5, <1>p, <1>t, <1>m DEF Distinct, IInv, TypeOK, JoinConsumer, Joinable, Consumer, Progress
  <2>5. Announcing' = Announcing /\ Granted' = Granted
    BY <1>5, <1>p, <1>t, <1>m DEF Distinct, JoinConsumer, TypeOK, Announcing, Granted
  <2>6. EveryItemAccountedFor'
    BY <1>5, <1>t, <2>5 DEF IInv, JoinConsumer, EveryItemAccountedFor
  <2>7. NoLostWakeup'
    BY <1>5, <1>p, <1>t, <1>m DEF Distinct, IInv, TypeOK, JoinConsumer, NoLostWakeup
  <2> QED
    BY <1>5, <2>1, <2>2, <2>3, <2>4, <2>6, <2>7 DEF IInv, NoMismatch, JoinConsumer
<1> QED
  BY <1>1, <1>2, <1>3, <1>4, <1>5 DEF Main

LEMMA StepInv == IInv /\ [Next]_vars => IInv'
<1> SUFFICES ASSUME IInv, [Next]_vars PROVE IInv'
  OBVIOUS
<1>1. CASE Next
  BY <1>1, ProduceInv, ConsumeInv, MainInv DEF Next
<1>2. CASE UNCHANGED vars
  BY <1>2 DEF vars, putVars, readyVars, consumeVars, mainVars, IInv, TypeOK,
     Owners, Filled, Progress, EveryItemAccountedFor, Announcing, Granted,
     NoLostWakeup, NoMismatch
<1> QED
  BY <1>1, <1>2

LEMMA Inductive == Spec => []IInv
  BY InitInv, StepInv, PTL DEF Spec

(* The types of produce(), consume() and main() hold in every run.         *)
THEOREM TypeCorrect == Spec => []TypeOK
<1>1. IInv => TypeOK
  BY DEF IInv
<1> QED
  BY <1>1, Inductive, PTL

(* consume() never prints a mismatch, with any number of producers.        *)
THEOREM NoMismatchEver == Spec => []NoMismatch
<1>1. IInv => NoMismatch
  BY DEF IInv
<1> QED
  BY <1>1, Inductive, PTL

(* consume() never sleeps in pthread_cond_wait while an item is ready.     *)
THEOREM NoWakeupIsLost == Spec => []NoLostWakeup
<1>1. IInv => NoLostWakeup
  BY DEF IInv
<1> QED
  BY <1>1, Inductive, PTL

(* Every entry put is consumed, granted, ready or about to be announced.   *)
THEOREM ItemsAccountedFor == Spec => []EveryItemAccountedFor
<1>1. IInv => EveryItemAccountedFor
  BY DEF IInv
<1> QED
  BY <1>1, Inductive, PTL

(* Each step of the program is one of the stream's, or leaves it alone:    *)
(* AdvancePut makes an item, CheckItem gets one, JoinConsumer finishes and *)
(* CreateFails gives up.                                                   *)
LEMMA StreamStep == IInv /\ [Next]_vars => [Stream!Next]_(Stream!vars)
<1> SUFFICES ASSUME IInv, [Next]_vars PROVE [Stream!Next]_(Stream!vars)
  OBVIOUS
<1> USE DEF Step, putVars, readyVars, consumeVars, mainVars, Stream!vars
<1>p. Distinct
  BY ThreadsDistinct
<1>t. TypeOK /\ Cardinality(Announcing) \in Nat /\ Granted \in Nat
  BY AnnouncingFinite DEF IInv, Granted
<1>1. ASSUME NEW p \in Producers, AdvancePut(p) PROVE Stream!Make
  <2>1. mpc # "failed" /\ nput < nitems
    BY <1>1 DEF IInv, Filled, AdvancePut
  <2>2. mpc # "done"
    <3>1. SUFFICES ASSUME mpc = "done" PROVE FALSE
      OBVIOUS
    <3>2. i = nitems
      BY <3>1 DEF IInv, Progress
    <3>3. nput >= nitems
      BY <1>t, <3>2 DEF IInv, TypeOK, EveryItemAccountedFor
    <3> QED
      BY <2>1, <3>3, <1>t DEF TypeOK
  <2> QED
    BY <1>1, <2>1, <2>2, <1>t DEF AdvancePut, Stream!Make, TypeOK
<1>2. ASSUME CheckItem PROVE Stream!Get
  <2>1. mpc # "failed" /\ mpc # "done"
    BY <1>2 DEF IInv, Progress, CheckItem
  <2>2. i < nput
    BY <1>2, <1>t DEF IInv, TypeOK, CheckItem, EveryItemAccountedFor, Granted
  <2> QED
    BY <1>2, <2>1, <2>2, <1>t DEF CheckItem, Stream!Get, TypeOK
<1>3. ASSUME JoinConsumer PROVE Stream!Finish
  <2>1. i = nitems
    BY <1>3, <1>t DEF IInv, JoinConsumer, Joinable, Progress, TypeOK, Consumer
  <2>2. nput = nitems
    BY <2>1, <1>t DEF IInv, TypeOK, EveryItemAccountedFor
  <2> QED
    BY <1>3, <2>1, <2>2 DEF JoinConsumer, Stream!Finish
<1>4. ASSUME CreateFails \/ JoinNobody PROVE Stream!GiveUp
  BY <1>4 DEF CreateFails, JoinNobody, Stream!GiveUp
<1>5. CASE UNCHANGED vars
  BY <1>5 DEF vars
<1>6. ASSUME NEW p \in Producers, Produce(p) PROVE [Stream!Next]_(Stream!vars)
  BY <1>6, <1>1 DEF Produce, LockPut, NoMoreItems, StoreItem, LockReady,
     Announce, Tally, Stream!Next
<1>7. ASSUME Consume \/ SpuriousWakeup PROVE [Stream!Next]_(Stream!vars)
  BY <1>7, <1>2 DEF Consume, ConsumerLock, Wait, TakeReady, SpuriousWakeup, Stream!Next
<1>8. ASSUME Main PROVE [Stream!Next]_(Stream!vars)
  BY <1>8, <1>3, <1>4 DEF Main, CreateProducer, CreateConsumer, JoinProducer, Stream!Next
<1> QED
  BY <1>5, <1>6, <1>7, <1>8 DEF Next

(* prodcons2 implements the item stream, for every number of threads.      *)
THEOREM Refinement == Spec => ImplementsStream
<1>1. Init => Stream!Init
  BY DEF Init, Stream!Init
<1> QED
  BY <1>1, Inductive, StreamStep, PTL DEF Spec, ImplementsStream, Stream!Spec

----------------------------------------------------------------------------
(* main's total.  Items put by each producer, of which the last may not be *)
(* in count yet; they add up to nput, and those of joined producers to     *)
(* sum.  The sum over the producers is the last of the partial sums s.     *)
Made == [p \in Producers |->
            count[p] + (IF pc[p] \in {"ready", "announce", "tally"} THEN 1 ELSE 0)]

Sums(s, f) == /\ s \in [0 .. nthreads -> Nat] /\ s[0] = 0
              /\ \A p \in Producers : s[p + 1] = s[p] + f[p]

Account == \E s \in [0 .. nthreads -> Nat] :
    /\ Sums(s, Made) /\ s[nthreads] = nput
    /\ mpc \in {"join", "done"} => s[mi] = sum

(* main has joined the producers below mi.                                 *)
Joined == /\ mpc = "create" => sum = 0
          /\ mpc = "join" => \A p \in Producers : p < mi => pc[p] = "done"
          /\ mpc = "done" => mi = nthreads /\ \A p \in Producers : pc[p] = "done"

Totals == Joined /\ Account

(* One more item of one producer: the partial sums behind it grow by one.  *)
LEMMA SumsRaised ==
    ASSUME NEW f \in [Producers -> Nat], NEW p \in Producers, NEW s, Sums(s, f)
    PROVE  \E t \in [0 .. nthreads -> Nat] :
              /\ Sums(t, [f EXCEPT ![p] = @ + 1])
              /\ t[nthreads] = s[nthreads] + 1
              /\ \A k \in 0 .. p : t[k] = s[k]
<1> DEFINE g == [f EXCEPT ![p] = @ + 1]
           t == [k \in 0 .. nthreads |-> IF k > p THEN s[k] + 1 ELSE s[k]]
<1>1. p \in 0 .. nthreads - 1 /\ s \in [0 .. nthreads -> Nat]
  BY DEF Producers, Sums
<1>2. t \in [0 .. nthreads -> Nat]
  BY <1>1
<1>3. t[0] = 0 /\ t[nthreads] = s[nthreads] + 1 /\ \A k \in 0 .. p : t[k] = s[k]
  BY <1>1 DEF Sums
<1>4. ASSUME NEW q \in Producers PROVE t[q + 1] = t[q] + g[q]
  <2>1. q \in 0 .. nthreads - 1 /\ q \in 0 .. nthreads /\ q + 1 \in 0 .. nthreads
    BY DEF Producers
  <2>2. s[q + 1] = s[q] + f[q] /\ s[q] \in Nat /\ f[q] \in Nat
    BY <1>1, <2>1 DEF Sums
  <2>3. g[q] = IF q = p THEN f[q] + 1 ELSE f[q]
    OBVIOUS
  <2>4. /\ t[q] = IF q > p THEN s[q] + 1 ELSE s[q]
        /\ t[q + 1] = IF q + 1 > p THEN s[q + 1] + 1 ELSE s[q + 1]
    BY <2>1
  <2> HIDE DEF t, g
  <2> QED
    BY <1>1, <2>1, <2>2, <2>3, <2>4
<1> QED
  BY <1>2, <1>3, <1>4 DEF Sums


LEMMA InitTotals == Init => Totals
<1> SUFFICES ASSUME Init PROVE Totals
  OBVIOUS
<1> DEFINE s == [k \in 0 .. nthreads |-> 0]
<1>1. Sums(s, Made)
  BY ThreadsDistinct DEF Distinct, Init, Sums, Made, Producers
<1>2. s[nthreads] = nput /\ mpc = "create" /\ sum = 0
  BY DEF Init
<1> QED
  BY <1>1, <1>2 DEF Totals, Joined, Account

(* A step that makes no item, and leaves main's place and sum alone.       *)
LEMMA TotalsKept ==
    ASSUME Totals, UNCHANGED <<Made, nput, mpc, mi, sum>>,
           \A p \in Producers : pc[p] = "done" => pc'[p] = "done"
    PROVE  Totals'
  BY DEF Totals, Joined, Account

LEMMA StepTotals == ASSUME IInv, Totals, [Next]_vars PROVE Totals'
<1> USE DEF Step, putVars, readyVars, consumeVars, mainVars
<1>p. Distinct
  BY ThreadsDistinct
<1>t. TypeOK /\ Joined /\ Account
  BY DEF IInv, Totals
<1>f. Made \in [Producers -> Nat] /\ \A q \in Producers : count[q] \in Nat
  BY <1>t DEF TypeOK, Made
<1>1. ASSUME NEW p \in Producers, Produce(p), ~AdvancePut(p) PROVE Totals'
  <2>1. /\ UNCHANGED <<nput, mpc, mi, sum>> /\ pc[p] # "done"
        /\ \A q \in Producers \ {p} : pc'[q] = pc[q] /\ count'[q] = count[q]
    BY <1>1, <1>t, <1>p DEF Distinct, TypeOK, Produce, LockPut, NoMoreItems, StoreItem, LockReady,
       Announce, Tally
  <2>2. \/ count'[p] = count[p] /\ pc[p] \in {"ready", "announce"}
                                /\ pc'[p] \in {"announce", "tally"}
        \/ count'[p] = count[p] + 1 /\ pc[p] = "tally" /\ pc'[p] = "lock"
        \/ count'[p] = count[p] /\ pc[p] \in {"lock", "put"} /\ pc'[p] \in {"put", "done", "stored"}
    BY <1>1, <1>t, <1>p DEF Distinct, TypeOK, Produce, LockPut, NoMoreItems, StoreItem, LockReady,
       Announce, Tally
  <2>3. \A q \in Producers : Made'[q] = Made[q]
    BY <1>f, <2>1, <2>2 DEF Made
  <2>4. Made' = Made
    BY <2>3 DEF Made
  <2> QED
    BY <2>1, <2>4, TotalsKept
<1>2. ASSUME NEW p \in Producers, AdvancePut(p) PROVE Totals'
  <2>1. /\ UNCHANGED <<count, mpc, mi, sum>> /\ nput' = nput + 1
        /\ pc[p] = "stored" /\ pc'[p] = "ready"
        /\ \A q \in Producers \ {p} : pc'[q] = pc[q]
    BY <1>2, <1>t, <1>p DEF Distinct, TypeOK, AdvancePut
  <2>2. \A q \in Producers : Made'[q] = [Made EXCEPT ![p] = @ + 1][q]
    BY <1>f, <2>1 DEF Made
  <2>3. Made' = [Made EXCEPT ![p] = @ + 1]
    BY <2>2 DEF Made
  <2>4. PICK s : /\ Sums(s, Made) /\ s[nthreads] = nput
                 /\ mpc \in {"join", "done"} => s[mi] = sum
    BY <1>t DEF Account
  <2>5. PICK t \in [0 .. nthreads -> Nat] :
           /\ Sums(t, [Made EXCEPT ![p] = @ + 1])
           /\ t[nthreads] = s[nthreads] + 1
           /\ \A k \in 0 .. p : t[k] = s[k]
    BY <1>f, <2>4, SumsRaised
  <2>6. mpc # "done" /\ (mpc = "join" => mi \in 0 .. p)
    <3>1. mi \in 0 .. nthreads /\ p \in 0 .. nthreads - 1
      BY <1>t DEF TypeOK, Producers
    <3>2. mpc # "done" /\ (mpc = "join" => ~(p < mi))
      BY <1>t, <2>1 DEF Joined
    <3> QED
      BY <3>1, <3>2
  <2>7. Sums(t, Made)'
    BY <2>3, <2>5 DEF Sums
  <2>8. t[nthreads] = nput' /\ (mpc' \in {"join", "done"} => t[mi'] = sum')
    BY <2>1, <2>4, <2>5, <2>6
  <2>9. Joined'
    BY <1>t, <2>1 DEF Joined
  <2> QED
    BY <2>7, <2>8, <2>9, <2>5 DEF Totals, Account
<1>3. ASSUME Consume \/ SpuriousWakeup PROVE Totals'
  <2>1. UNCHANGED <<nput, count, mpc, mi, sum>> /\ \A q \in Producers : pc'[q] = pc[q]
    BY <1>3, <1>t, <1>p DEF Distinct, TypeOK, Consume, ConsumerLock, Wait, TakeReady, CheckItem,
       SpuriousWakeup
  <2> QED
    BY <2>1, TotalsKept DEF Made
<1>4. CASE CreateProducer
  <2>1. /\ UNCHANGED <<nput, count, mpc, sum>> /\ mpc = "create"
        /\ mi \in Producers /\ pc[mi] = "new" /\ pc'[mi] = "lock"
        /\ \A q \in Threads \ {mi} : pc'[q] = pc[q]
    BY <1>4, <1>t, <1>p DEF Distinct, CreateProducer, TypeOK, Producers
  <2>2. Made' = Made
    BY <1>p, <2>1 DEF Distinct, Made
  <2> QED
    BY <1>t, <2>1, <2>2 DEF Totals, Joined, Account
<1>5. CASE CreateFails \/ JoinNobody
  BY <1>5, <1>t DEF CreateFails, JoinNobody, Totals, Joined, Account, Made
<1>6. CASE CreateConsumer
  <2>1. /\ UNCHANGED <<nput, count, sum>> /\ mpc = "create" /\ mpc' = "join" /\ mi' = 0
        /\ \A q \in Producers : pc'[q] = pc[q]
    BY <1>6, <1>t, <1>p DEF Distinct, CreateConsumer, TypeOK
  <2>2. Made' = Made
    BY <2>1 DEF Made
  <2>3. \A q \in Producers : ~(q < 0)
    BY DEF Producers
  <2> QED
    BY <1>t, <2>1, <2>2, <2>3 DEF Totals, Joined, Account, Sums
<1>7. CASE JoinProducer
  <2>1. /\ UNCHANGED <<nput, count, pc, mpc>> /\ mpc = "join" /\ mi \in Producers
        /\ pc[mi] = "done" /\ mi' = mi + 1 /\ sum' = sum + count[mi]
    BY <1>7, <1>t DEF JoinProducer, Joinable, TypeOK, Producers
  <2>2. Made' = Made /\ Made[mi] = count[mi]
    BY <1>f, <2>1 DEF Made
  <2>3. PICK s \in [0 .. nthreads -> Nat] :
           Sums(s, Made) /\ s[nthreads] = nput /\ s[mi] = sum
    BY <1>t, <2>1 DEF Account
  <2>4. s[mi'] = sum'
    BY <2>1, <2>2, <2>3 DEF Sums
  <2>5. \A q \in Producers : q < mi' => q < mi \/ q = mi
    BY <2>1 DEF Producers
  <2>6. Joined'
    BY <1>t, <2>1, <2>5 DEF Joined
  <2>7. Account'
    BY <2>1, <2>2, <2>3, <2>4 DEF Account
  <2> QED
    BY <2>6, <2>7 DEF Totals
<1>8. CASE JoinConsumer
  <2>1. /\ UNCHANGED <<nput, count, pc, mi, sum>> /\ mpc = "join" /\ mpc' = "done"
        /\ mi = nthreads
    BY <1>8 DEF JoinConsumer
  <2>2. \A q \in Producers : q < nthreads
    BY DEF Producers
  <2> QED
    BY <1>t, <2>1, <2>2 DEF Totals, Joined, Account, Made
<1>9. CASE UNCHANGED vars
  BY <1>9, TotalsKept DEF vars, Made
<1> QED
  BY <1>1, <1>2, <1>3, <1>4, <1>5, <1>6, <1>7, <1>8, <1>9 DEF Next, Main

LEMMA AllTotals == Spec => []Totals
  BY InitTotals, StepTotals, Inductive, PTL DEF Spec

(* MainReport: when main() is through, the counts of any number of threads *)
(* add up to nitems, and no item is left ready.                            *)
THEOREM ReportIsRight == Spec => []MainReport
<1>1. ASSUME IInv, Totals, mpc = "done" PROVE sum = nitems /\ nready = 0
  <2>1. i = nitems /\ TypeOK
    BY <1>1 DEF IInv, Progress
  <2>2. Cardinality(Announcing) \in Nat /\ Granted \in Nat
    BY AnnouncingFinite DEF Granted
  <2>3. nput = nitems /\ nready = 0
    BY <1>1, <2>1, <2>2 DEF IInv, TypeOK, EveryItemAccountedFor
  <2>4. sum = nput
    BY <1>1 DEF Totals, Joined, Account
  <2> QED
    BY <2>3, <2>4
<1>2. IInv /\ Totals => MainReport
  BY <1>1 DEF MainReport
<1> QED
  BY <1>2, Inductive, AllTotals, PTL

----------------------------------------------------------------------------
(* No deadlock.  A thread can take a step when it is at no lock and at no  *)
(* wait, or when what it waits for is there; nobody counts on spurious     *)
(* wake-ups, or on a pthread_create that fails.  The join of a consumer    *)
(* that was never created is not held to wait.                             *)
ProducerRuns(p) == \/ pc[p] \in {"put", "stored", "announce", "tally"}
                   \/ pc[p] = "lock" /\ Unlocked(putMutex)
                   \/ pc[p] = "ready" /\ Unlocked(readyMutex)
ConsumerRuns == \/ pc[Consumer] \in {"test", "item"}
                \/ pc[Consumer] = "lock" /\ Unlocked(readyMutex)
MainRuns == \/ mpc = "create"
            \/ mpc = "join" /\ (Joinable \/ (mi = nthreads /\ pc[Consumer] = "new"))

SomeoneRuns == mpc \in {"create", "join"} =>
    (\E p \in Producers : ProducerRuns(p)) \/ ConsumerRuns \/ MainRuns

(* main() joins threads that it created, and a producer ends at the limit. *)
Begun == /\ mpc = "create" => /\ \A p \in Producers : p >= mi <=> pc[p] = "new"
                              /\ pc[Consumer] = "new"
         /\ mpc = "join" => \A p \in Producers : pc[p] # "new"
         /\ \A p \in Producers : pc[p] = "done" => nput = nitems

LEMMA InitBegun == Init => Begun
  BY DEF Init, Begun, Threads, Producers, Consumer

LEMMA StepBegun == ASSUME IInv, Begun, [Next]_vars PROVE Begun'
<1> USE DEF Step, putVars, readyVars, consumeVars, mainVars
<1>p. Distinct
  BY ThreadsDistinct
<1>t. TypeOK
  BY DEF IInv
<1>1. ASSUME NEW p \in Producers, Produce(p) PROVE Begun'
  <2>1. /\ UNCHANGED <<mpc, mi>> /\ pc[p] \notin {"new", "done"} /\ pc'[p] # "new"
        /\ \A q \in Producers \ {p} : pc'[q] = pc[q]
        /\ pc[Consumer] # "new" => pc'[Consumer] # "new"
        /\ pc[Consumer] = "new" => pc'[Consumer] = "new"
    BY <1>1, <1>t, <1>p DEF Distinct, TypeOK, Produce, LockPut, NoMoreItems, StoreItem, AdvancePut,
       LockReady, Announce, Tally
  <2>2. pc'[p] = "done" => nput' = nput /\ nput = nitems
    BY <1>1, <1>t, <1>p DEF Distinct, TypeOK, Produce, LockPut, NoMoreItems, StoreItem, AdvancePut,
       LockReady, Announce, Tally, Full
  <2>3. nput' = nput \/ (pc[p] = "stored" /\ nput < nitems)
    BY <1>1 DEF IInv, Filled, Produce, LockPut, NoMoreItems, StoreItem, AdvancePut, LockReady,
       Announce, Tally
  <2>4. \A q \in Producers : pc'[q] = "done" => nput' = nitems
    BY <1>t, <2>1, <2>2, <2>3 DEF Begun, TypeOK
  <2>5. \A t \in Threads : pc[t] # "new" => pc'[t] # "new"
    BY <2>1 DEF Threads
  <2> QED
    BY <2>1, <2>4, <2>5 DEF Begun
<1>2. CASE Consume \/ SpuriousWakeup
  <2>1. /\ UNCHANGED <<nput, mpc, mi>> /\ \A q \in Producers : pc'[q] = pc[q]
        /\ pc[Consumer] # "new" /\ pc'[Consumer] # "new"
    BY <1>2, <1>t, <1>p DEF Distinct, TypeOK, Consume, ConsumerLock, Wait, TakeReady, CheckItem,
       SpuriousWakeup
  <2> QED
    BY <2>1 DEF Begun, Threads
<1>3. CASE CreateProducer
  <2>1. /\ UNCHANGED <<nput, mpc>> /\ mpc = "create" /\ mi \in Producers /\ mi' = mi + 1
        /\ pc'[mi] = "lock" /\ \A q \in Threads \ {mi} : pc'[q] = pc[q]
    BY <1>3, <1>t, <1>p DEF Distinct, CreateProducer, TypeOK, Producers
  <2>2. \A q \in Producers : q >= mi' <=> q >= mi /\ q # mi
    BY <2>1 DEF Producers
  <2> QED
    BY <1>p, <2>1, <2>2 DEF Distinct, Begun
<1>4. CASE CreateConsumer
  <2>1. /\ UNCHANGED nput /\ mpc = "create" /\ mpc' = "join" /\ mi = nthreads
        /\ \A q \in Producers : pc'[q] = pc[q]
    BY <1>4, <1>t, <1>p DEF Distinct, CreateConsumer, TypeOK
  <2>2. \A q \in Producers : ~(q >= mi)
    BY <2>1 DEF Producers
  <2> QED
    BY <2>1, <2>2 DEF Begun, Threads
<1>5. CASE CreateFails \/ JoinNobody \/ JoinProducer \/ JoinConsumer
  BY <1>5 DEF CreateFails, JoinNobody, JoinProducer, JoinConsumer, Begun
<1>6. CASE UNCHANGED vars
  BY <1>6 DEF vars, Begun
<1> QED
  BY <1>1, <1>2, <1>3, <1>4, <1>5, <1>6 DEF Next, Main

(* Until main() is through, a thread can go on, whatever the interleaving: *)
(* the two mutexes, the condition and the joins never wait for each other. *)
(* One producer is enough; with none, consume() would sleep for ever.      *)
THEOREM NeverStuck == ASSUME nthreads > 0 PROVE Spec => []SomeoneRuns
<1>1. ASSUME IInv, Begun, mpc = "join", ~ConsumerRuns, ~MainRuns,
             \A p \in Producers : ~ProducerRuns(p)
      PROVE  FALSE
  <2>1. /\ TypeOK /\ Distinct /\ 0 \in Producers
        /\ \A p \in Producers : pc[p] # "new"
    BY <1>1, ThreadsDistinct DEF IInv, Begun, Producers
  <2>2. putMutex = Free
    BY <1>1, <2>1 DEF TypeOK, IInv, Owners, ProducerRuns
  <2>3. readyMutex = Free
    BY <1>1, <2>1 DEF TypeOK, IInv, Owners, ProducerRuns, ConsumerRuns, Threads
  <2>4. \A p \in Producers : pc[p] = "done"
    BY <1>1, <2>1, <2>2, <2>3 DEF Distinct, TypeOK, ProducerRuns, Unlocked
  <2>5. pc[Consumer] = "wait"
    <3>1. pc[Consumer] \in {"wait", "done", "new"}
      BY <1>1, <2>1, <2>3 DEF Distinct, TypeOK, ConsumerRuns, Unlocked
    <3>2. mi \in Producers \cup {Consumer}
      BY <2>1 DEF TypeOK, Producers, Consumer
    <3>3. mi \in Producers => Joinable
      BY <2>4 DEF Joinable
    <3>4. mi = Consumer => mi = nthreads
      BY DEF Consumer
    <3>5. mi = Consumer /\ pc[Consumer] \notin {"done", "new"}
      BY <1>1, <3>2, <3>3, <3>4 DEF MainRuns, Joinable
    <3> QED
      BY <3>1, <3>5
  <2>6. Announcing = {} /\ Granted = 0 /\ nready = 0
    BY <1>1, <2>4, <2>5 DEF Announcing, Granted, IInv, NoLostWakeup
  <2>7. i = nput
    BY <1>1, <2>1, <2>6, FS_EmptySet DEF IInv, TypeOK, EveryItemAccountedFor
  <2>8. nput = nitems /\ i < nitems
    BY <1>1, <2>1, <2>4, <2>5 DEF IInv, Begun, Progress
  <2> QED
    BY <2>7, <2>8
<1>2. IInv /\ Begun => SomeoneRuns
  BY <1>1 DEF SomeoneRuns, MainRuns
<1>3. Spec => []Begun
  BY InitBegun, StepBegun, Inductive, PTL DEF Spec
<1> QED
  BY <1>2, <1>3, Inductive, PTL
=============================================================================
