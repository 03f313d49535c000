------------------------------ MODULE ProdCons2 -----------------------------
(***************************************************************************)
(* mutex/prodcons2.c: nthreads producers fill buff under put.mutex and     *)
(* count the filled entries in nready under a second mutex; one consumer   *)
(* sleeps on a condition variable until nready is positive and then reads  *)
(* buff without any lock.  main() creates the threads, joins them and sums *)
(* their counts.  Thread nthreads is the consumer.                         *)
(***************************************************************************)
EXTENDS Integers, FiniteSets

CONSTANTS nitems,       \* items to produce (MAXNITEMS)
          nthreads,     \* producers (MAXNTHREADS)
          MaxSpurious   \* bound on spurious wake-ups of pthread_cond_wait

ASSUME ProdConsAssumption == /\ nitems \in Nat \ {0}
                             /\ nthreads \in Nat
                             /\ MaxSpurious \in Nat

Producers == 0 .. nthreads - 1
Consumer == nthreads
Threads == Producers \cup {Consumer}
Free == -1

VARIABLES buff, nput, nval, putMutex,   \* buff[] and struct put
          nready, readyMutex, index,    \* struct nready, and its signals
          pc, count, i, mismatch,       \* the threads; what consume printed
          mpc, mi, sum,                 \* main: where, loop index, total
          spurious

putVars == <<buff, nput, nval, putMutex>>
readyVars == <<nready, readyMutex, index>>
consumeVars == <<i, mismatch, spurious>>
mainVars == <<mpc, mi, sum>>
vars == <<putVars, readyVars, consumeVars, mainVars, pc, count>>

Init == /\ buff = [k \in 0 .. nitems - 1 |-> 0]
        /\ nput = 0 /\ nval = 0 /\ putMutex = Free
        /\ nready = 0 /\ readyMutex = Free /\ index = 0
        /\ pc = [t \in Threads |-> "new"]
        /\ count = [p \in Producers |-> 0]
        /\ i = 0 /\ mismatch = {} /\ spurious = 0
        /\ mpc = "create" /\ mi = 0 /\ sum = 0

(* A thread of a live process steps from one program point to the next.    *)
Step(t, from, to) == /\ mpc # "failed"
                     /\ pc[t] = from
                     /\ pc' = [pc EXCEPT ![t] = to]

UnlockedMutant(mutex) == TRUE
Unlocked(mutex) == mutex = Free

----------------------------------------------------------------------------
(* produce(): fill the next entry under put.mutex, ...                     *)
FullMutant == nput > nitems
Full == nput >= nitems

LockPut(p) == /\ Step(p, "lock", "put") /\ Unlocked(putMutex)
              /\ putMutex' = p
              /\ UNCHANGED <<buff, nput, nval, readyVars, count, consumeVars, mainVars>>

NoMoreItems(p) == /\ Step(p, "put", "done") /\ Full
                  /\ putMutex' = Free
                  /\ UNCHANGED <<buff, nput, nval, readyVars, count, consumeVars, mainVars>>

StoreItem(p) == /\ Step(p, "put", "stored") /\ ~Full
                /\ buff' = [buff EXCEPT ![nput] = nval]
                /\ UNCHANGED <<nput, nval, putMutex, readyVars, count, consumeVars, mainVars>>

AdvancePut(p) == /\ Step(p, "stored", "ready")
                 /\ nput' = nput + 1 /\ nval' = nval + 1
                 /\ putMutex' = Free
                 /\ UNCHANGED <<buff, readyVars, count, consumeVars, mainVars>>

(* ... then count it under nready.mutex, signalling if none was ready.     *)
LockReady(p) == /\ Step(p, "ready", "announce") /\ Unlocked(readyMutex)
                /\ readyMutex' = p
                /\ UNCHANGED <<putVars, nready, index, count, consumeVars, mainVars>>

MustSignalMutant == nready = 1
MustSignal == nready = 0

Announce(p) == /\ mpc # "failed" /\ pc[p] = "announce"
               /\ pc' = [pc EXCEPT ![p] = "tally",
                                   ![Consumer] = IF MustSignal /\ @ = "wait"
                                                 THEN "lock" ELSE @]
               /\ index' = IF MustSignal THEN index + 1 ELSE index
               /\ nready' = nready + 1
               /\ readyMutex' = Free
               /\ UNCHANGED <<putVars, count, consumeVars, mainVars>>

Tally(p) == /\ Step(p, "tally", "lock")
            /\ count' = [count EXCEPT ![p] = @ + 1]
            /\ UNCHANGED <<putVars, readyVars, consumeVars, mainVars>>

Produce(p) == \/ LockPut(p) \/ NoMoreItems(p) \/ StoreItem(p) \/ AdvancePut(p)
              \/ LockReady(p) \/ Announce(p) \/ Tally(p)

----------------------------------------------------------------------------
(* consume(): a wake-up leads back to "lock", as pthread_cond_wait takes   *)
(* the mutex again and the while loop then tests nready again.             *)
ConsumerLock == /\ Step(Consumer, "lock", "test") /\ Unlocked(readyMutex)
                /\ readyMutex' = Consumer
                /\ UNCHANGED <<putVars, nready, index, count, consumeVars, mainVars>>

NothingReadyMutant == nready = 0 /\ spurious = 0   \* if for while
NothingReady == nready = 0

Wait == /\ Step(Consumer, "test", "wait") /\ NothingReady
        /\ readyMutex' = Free
        /\ UNCHANGED <<putVars, nready, index, count, consumeVars, mainVars>>

SpuriousWakeup == /\ Step(Consumer, "wait", "lock") /\ spurious < MaxSpurious
                  /\ spurious' = spurious + 1
                  /\ UNCHANGED <<putVars, readyVars, count, i, mismatch, mainVars>>

TakenMutant == 0
Taken == nready - 1

TakeReady == /\ Step(Consumer, "test", "item") /\ ~NothingReady
             /\ nready' = Taken
             /\ readyMutex' = Free
             /\ UNCHANGED <<putVars, index, count, consumeVars, mainVars>>

CheckItem == /\ Step(Consumer, "item", IF i + 1 < nitems THEN "lock" ELSE "done")
             /\ mismatch' = IF buff[i] # i THEN mismatch \cup {i} ELSE mismatch
             /\ i' = i + 1
             /\ UNCHANGED <<putVars, readyVars, count, spurious, mainVars>>

Consume == ConsumerLock \/ Wait \/ TakeReady \/ CheckItem

----------------------------------------------------------------------------
(* main(): a failed pthread_create ends the process and all its threads.   *)
CreateProducer == /\ mpc = "create" /\ mi < nthreads
                  /\ Step(mi, "new", "lock")
                  /\ mi' = mi + 1
                  /\ UNCHANGED <<putVars, readyVars, count, consumeVars, mpc, sum>>

CreateFails == /\ mpc = "create" /\ mi < nthreads
               /\ mpc' = "failed"
               /\ UNCHANGED <<putVars, readyVars, pc, count, consumeVars, mi, sum>>

(* The consumer's pthread_create is not checked: without it main() goes on *)
(* to join a thread id that was never set, and nothing is said of that.    *)
CreateConsumer == /\ mpc = "create" /\ mi = nthreads
                  /\ \E to \in {"lock", "new"} : Step(Consumer, "new", to)
                  /\ mpc' = "join" /\ mi' = 0
                  /\ UNCHANGED <<putVars, readyVars, count, consumeVars, sum>>

JoinableMutant == pc[mi] # "put"
Joinable == pc[mi] = "done"

JoinProducer == /\ mpc = "join" /\ mi < nthreads /\ Joinable
                /\ sum' = sum + count[mi]
                /\ mi' = mi + 1
                /\ UNCHANGED <<putVars, readyVars, pc, count, consumeVars, mpc>>

JoinConsumer == /\ mpc = "join" /\ mi = nthreads /\ Joinable
                /\ mpc' = "done"
                /\ UNCHANGED <<putVars, readyVars, pc, count, consumeVars, mi, sum>>

JoinNobody == /\ mpc = "join" /\ mi = nthreads /\ pc[Consumer] = "new"
              /\ mpc' = "failed"
              /\ UNCHANGED <<putVars, readyVars, pc, count, consumeVars, mi, sum>>

Main == \/ CreateProducer \/ CreateFails \/ CreateConsumer
        \/ JoinProducer \/ JoinConsumer \/ JoinNobody

Next == \/ \E p \in Producers : Produce(p)
        \/ Consume \/ SpuriousWakeup \/ Main

Spec == Init /\ [][Next]_vars

(* Every runnable thread is scheduled in the end.                          *)
Fairness == /\ \A p \in Producers : WF_vars(Produce(p))
            /\ WF_vars(Consume) /\ WF_vars(Main)

FairSpec == Spec /\ Fairness

----------------------------------------------------------------------------
(* Properties.                                                             *)

TypeOK == /\ buff \in [0 .. nitems - 1 -> Nat]
          /\ nput \in 0 .. nitems /\ nval \in Nat
          /\ putMutex \in Producers \cup {Free}
          /\ nready \in Nat /\ index \in Nat
          /\ readyMutex \in Threads \cup {Free}
          /\ pc \in [Threads -> {"new", "lock", "put", "stored", "ready",
                 "announce", "tally", "test", "wait", "item", "done"}]
          /\ \A p \in Producers : pc[p] \notin {"test", "wait", "item"}
          /\ pc[Consumer] \in {"new", "lock", "test", "wait", "item", "done"}
          /\ count \in [Producers -> Nat]
          /\ i \in 0 .. nitems /\ mismatch \subseteq 0 .. nitems - 1
          /\ spurious \in 0 .. MaxSpurious
          /\ mpc \in {"create", "join", "done", "failed"}
          /\ mi \in 0 .. nthreads /\ sum \in Nat

(* consume()'s check buff[i] != i never prints: though it reads buff with  *)
(* no lock, the entry it was granted has been stored, whichever producer   *)
(* announced it and in whatever order.                                     *)
NoMismatch == mismatch = {}

(* No lost wake-up: the consumer sleeps only while nready is zero.         *)
NoLostWakeup == pc[Consumer] = "wait" => nready = 0

(* Every entry put is in exactly one place: consumed, granted to the       *)
(* consumer, counted ready, or with a producer that has not announced it.  *)
Announcing == {p \in Producers : pc[p] \in {"ready", "announce"}}
Granted == IF pc[Consumer] = "item" THEN 1 ELSE 0
EveryItemAccountedFor == i + Granted + nready + Cardinality(Announcing) = nput

(* What main() prints: the counts add up to nitems, and nothing is left.   *)
MainReport == mpc = "done" => sum = nitems /\ nready = 0

(* With a producer, the program ends: no thread is left waiting for ever.  *)
Terminates == <>(mpc \in {"done", "failed"})

(* prodcons2 implements the stream of items.                               *)
Stream == INSTANCE ItemStream
              WITH made <- nput, got <- i,
                   status <- CASE mpc = "done" -> "finished"
                               [] mpc = "failed" -> "gaveup"
                               [] OTHER -> "running"
ImplementsStream == Stream!Spec
=============================================================================
