------------------------------ MODULE ProdCons ------------------------------
(***************************************************************************)
(* mutex/prodcons.c: nthreads producers fill shared.buff under one mutex.  *)
(* The consumer reads the entries without it: consume_wait(), which would  *)
(* wait until an entry is there, is defined but never called.              *)
(***************************************************************************)
EXTENDS Integers

CONSTANTS nitems,    \* items to produce (MAXNITEMS)
          nthreads   \* producers (MAXNTHREADS)

ASSUME ProdConsAssumption == nitems \in Nat \ {0} /\ nthreads \in Nat \ {0}

Producers == 0 .. nthreads - 1
Consumer == nthreads
Threads == Producers \cup {Consumer}
Free == -1

VARIABLES buff, nput, nval, mutex,   \* struct shared
          pc, count,                 \* the threads and their counts
          i, seen, printed,          \* consume(): index, value read, output
          mpc, mi, sum               \* main(): where, loop index, total

shared == <<buff, nput, nval, mutex>>
consumeVars == <<i, seen, printed>>
mainVars == <<mpc, mi, sum>>
vars == <<shared, consumeVars, mainVars, pc, count>>

Init == /\ buff = [k \in 0 .. nitems - 1 |-> 0]   \* static storage
        /\ nput = 0 /\ nval = 0 /\ mutex = Free
        /\ pc = [t \in Threads |-> "new"]
        /\ count = [p \in Producers |-> 0]
        /\ i = 0 /\ seen = 0 /\ printed = {}
        /\ mpc = "create" /\ mi = 0 /\ sum = 0

Step(t, from, to) == /\ mpc \notin {"failed", "done"}
                     /\ pc[t] = from
                     /\ pc' = [pc EXCEPT ![t] = to]

----------------------------------------------------------------------------
(* produce()                                                               *)
UnlockedMutant == TRUE
Unlocked == mutex = Free

Full == nput >= nitems

Lock(p) == /\ Step(p, "lock", "put") /\ Unlocked
           /\ mutex' = p
           /\ UNCHANGED <<buff, nput, nval, count, consumeVars, mainVars>>

ReleasedMutant == mutex   \* return NULL without the unlock
Released == Free

NoMoreItems(p) == /\ Step(p, "put", "done") /\ Full
                  /\ mutex' = Released
                  /\ UNCHANGED <<buff, nput, nval, count, consumeVars, mainVars>>

StoreItem(p) == /\ Step(p, "put", "stored") /\ ~Full
                /\ buff' = [buff EXCEPT ![nput] = nval]
                /\ UNCHANGED <<nput, nval, mutex, count, consumeVars, mainVars>>

AdvancePut(p) == /\ Step(p, "stored", "tally")
                 /\ nput' = nput + 1 /\ nval' = nval + 1
                 /\ mutex' = Free
                 /\ UNCHANGED <<buff, count, consumeVars, mainVars>>

Tally(p) == /\ Step(p, "tally", "lock")
            /\ count' = [count EXCEPT ![p] = @ + 1]
            /\ UNCHANGED <<shared, consumeVars, mainVars>>

Produce(p) == \/ Lock(p) \/ NoMoreItems(p) \/ StoreItem(p)
              \/ AdvancePut(p) \/ Tally(p)

----------------------------------------------------------------------------
(* consume(): the entry is tested, and on a mismatch printed; a build may  *)
(* load it once for both or twice.                                         *)
After == IF i + 1 < nitems THEN "test" ELSE "done"

ItemThere == /\ Step(Consumer, "test", After) /\ buff[i] = i
             /\ i' = i + 1
             /\ UNCHANGED <<shared, count, seen, printed, mainVars>>

ItemDiffers == /\ Step(Consumer, "test", "print") /\ buff[i] # i
               /\ seen' = buff[i]
               /\ UNCHANGED <<shared, count, i, printed, mainVars>>

PrintItem == /\ Step(Consumer, "print", After)
             /\ \E v \in {seen, buff[i]} : printed' = printed \cup {<<i, v>>}
             /\ i' = i + 1
             /\ UNCHANGED <<shared, count, seen, mainVars>>

Consume == ItemThere \/ ItemDiffers \/ PrintItem

----------------------------------------------------------------------------
(* main()                                                                  *)
CreateProducer == /\ mpc = "create" /\ mi < nthreads
                  /\ Step(mi, "new", "lock")
                  /\ mi' = mi + 1
                  /\ UNCHANGED <<shared, count, consumeVars, mpc, sum>>

CreateFails == /\ mpc = "create" /\ mi < nthreads
               /\ mpc' = "failed"
               /\ UNCHANGED <<shared, pc, count, consumeVars, mi, sum>>

(* The consumer's pthread_create is not checked: without it main() goes on *)
(* to join a thread id that was never set, and nothing is said of that.    *)
CreateConsumer == /\ mpc = "create" /\ mi = nthreads
                  /\ \E to \in {"test", "new"} : Step(Consumer, "new", to)
                  /\ mpc' = "join" /\ mi' = 0
                  /\ UNCHANGED <<shared, count, consumeVars, sum>>

JoinableMutant == pc[mi] # "put"
Joinable == pc[mi] = "done"

JoinProducer == /\ mpc = "join" /\ mi < nthreads /\ Joinable
                /\ sum' = sum + count[mi]
                /\ mi' = mi + 1
                /\ UNCHANGED <<shared, pc, count, consumeVars, mpc>>

JoinConsumer == /\ mpc = "join" /\ mi = nthreads /\ Joinable
                /\ mpc' = "done"
                /\ UNCHANGED <<shared, pc, count, consumeVars, mi, sum>>

JoinNobody == /\ mpc = "join" /\ mi = nthreads /\ pc[Consumer] = "new"
              /\ mpc' = "failed"
              /\ UNCHANGED <<shared, pc, count, consumeVars, mi, sum>>

Main == \/ CreateProducer \/ CreateFails \/ CreateConsumer
        \/ JoinProducer \/ JoinConsumer \/ JoinNobody

Next == (\E p \in Producers : Produce(p)) \/ Consume \/ Main

Spec == Init /\ [][Next]_vars

(* Every runnable thread is scheduled in the end.                          *)
FairSpec == /\ Spec
            /\ \A p \in Producers : WF_vars(Produce(p))
            /\ WF_vars(Consume) /\ WF_vars(Main)

----------------------------------------------------------------------------
(* Properties.                                                             *)

TypeOK == /\ buff \in [0 .. nitems - 1 -> 0 .. nitems - 1]
          /\ nput \in 0 .. nitems /\ nval = nput
          /\ mutex \in Producers \cup {Free}
          /\ pc \in [Threads -> {"new", "lock", "put", "stored", "tally",
                                 "test", "print", "done"}]
          /\ count \in [Producers -> 0 .. nitems]
          /\ i \in 0 .. nitems /\ seen \in 0 .. nitems - 1
          /\ printed \subseteq (0 .. nitems - 1) \X (0 .. nitems - 1)
          /\ mpc \in {"create", "join", "done", "failed"}
          /\ mi \in 0 .. nthreads /\ sum \in 0 .. nitems

(* The consumer's check l.56 fails for one reason only, that it overtook   *)
(* the producers: an entry below nput is never read wrong or changed.      *)
OnlyEarlyReadsDiffer == [][ItemDiffers => i >= nput]_vars

(* What main() prints: the counts add up to nitems, and by then every      *)
(* entry was filled in order, whatever the consumer saw.                   *)
MainReport == /\ TypeOK
              /\ mpc = "done" => sum = nitems /\ \A k \in 0 .. nitems - 1 : buff[k] = k

(* Creation failure aside, main() joins every thread.                      *)
Terminates == <>(mpc \in {"done", "failed"})
=============================================================================
