---------------------------- MODULE SharedCounter ---------------------------
(***************************************************************************)
(* Processes that increment a counter nloop times each.  shm/incr1.c,      *)
(* incr2.c and incr3.c: a parent and its child around a semaphore, the     *)
(* counter of incr1 being a global variable, of which each has a copy      *)
(* after fork.  lock/lockmain.c: any processes on the file seqno, around   *)
(* my_lock and my_unlock, whose bodies are empty.  pxshm/client1.c: any    *)
(* processes on a shared object and a semaphore that they open by name,    *)
(* while server1.c removes and recreates both, one after the other.        *)
(***************************************************************************)
EXTENDS Integers, Sequences, FiniteSets

CONSTANTS Procs, nloop,
          MaxStarts,      \* bound on the runs of server1
          Free

Programs == {"incr1", "incr2", "lockmain", "client1"}    \* incr3 is as incr2
Absent == 0

ASSUME CounterAssumption == /\ nloop \in Nat \ {0} /\ MaxStarts \in Nat \ {0}
                            /\ IsFiniteSet(Procs) /\ Procs \cap {Free, Absent} = {}

Objects == 1 .. MaxStarts     \* the object, or semaphore, made by each run

VARIABLES program,
          spc, run, shmname, semname,     \* server1, and what the names denote
          cell, sem,                      \* a process: what it counts in, and
          pc, i, seqno,                   \* under; where, turn, value loaded
          sized, count, mutex,            \* objects: of full size, counters,
          log                             \* semaphores; values printed
serverVars == <<spc, run, shmname, semname, sized>>
vars == <<program, serverVars, cell, sem, pc, i, seqno, count, mutex, log>>

(* lockmain prints what it read before it writes; count++ in a call's      *)
(* arguments is stored before the call prints.                             *)
PrintsFirst == program = "lockmain"

Cells == IF program = "incr1" THEN Procs ELSE Objects
Locks == program # "lockmain"

Init == /\ program \in Programs
        /\ spc = IF program = "client1" THEN "unlink" ELSE "exited"
        /\ run = 1 /\ shmname = Absent /\ semname = Absent
        /\ sized = IF program = "client1" THEN {} ELSE Cells
        /\ cell = [p \in Procs |-> CASE program = "client1" -> Absent
                                     [] program = "incr1"   -> p
                                     [] OTHER               -> 1]
        /\ sem = [p \in Procs |-> IF program = "client1" THEN Absent ELSE 1]
        /\ pc = [p \in Procs |-> IF program = "client1" THEN "shm_open" ELSE "lock"]
        /\ i = [p \in Procs |-> 0] /\ seqno = [p \in Procs |-> 0]
        /\ count = [x \in Cells |-> 0] /\ mutex = [s \in Objects |-> Free]
        /\ log = [x \in Cells |-> << >>]

----------------------------------------------------------------------------
(* server1.c.                                                              *)
ServerStep(from, to) == /\ spc = from /\ spc' = to
                        /\ UNCHANGED <<program, cell, sem, pc, i, seqno, count, mutex, log>>

UnlinkShm == /\ ServerStep("unlink", "create") /\ shmname' = Absent
             /\ UNCHANGED <<run, semname, sized>>
CreateShm == /\ ServerStep("create", "truncate") /\ shmname' = run
             /\ UNCHANGED <<run, semname, sized>>
Truncate  == /\ ServerStep("truncate", "sem_unlink") /\ sized' = sized \cup {run}
             /\ UNCHANGED <<run, shmname, semname>>
UnlinkSem == /\ ServerStep("sem_unlink", "sem_create") /\ semname' = Absent
             /\ UNCHANGED <<run, shmname, sized>>
CreateSem == /\ ServerStep("sem_create", "exited") /\ semname' = run
             /\ UNCHANGED <<run, shmname, sized>>
RunAgain  == /\ program = "client1" /\ run < MaxStarts
             /\ ServerStep("exited", "unlink") /\ run' = run + 1
             /\ UNCHANGED <<shmname, semname, sized>>

Server == UnlinkShm \/ CreateShm \/ Truncate \/ UnlinkSem \/ CreateSem \/ RunAgain

----------------------------------------------------------------------------
Step(p, from, to) == /\ pc[p] = from /\ pc' = [pc EXCEPT ![p] = to]
                     /\ UNCHANGED <<program, serverVars>>

(* client1.c: what does not exist is not noticed.                          *)
OpenShm(p) == /\ Step(p, "shm_open", "sem_open")
              /\ cell' = [cell EXCEPT ![p] = shmname]
              /\ UNCHANGED <<sem, i, seqno, count, mutex, log>>
OpenSem(p) == /\ Step(p, "sem_open", "lock")
              /\ sem' = [sem EXCEPT ![p] = semname]
              /\ UNCHANGED <<cell, i, seqno, count, mutex, log>>

(* sem_wait without a semaphore, or a counter that is not mapped or lies   *)
(* beyond the end of the object: the process dies, semaphore in hand.      *)
Crash(p) == /\ \/ Step(p, "lock", "crashed") /\ sem[p] = Absent
               \/ Step(p, "load", "crashed") /\ cell[p] \notin sized
            /\ UNCHANGED <<cell, sem, i, seqno, count, mutex, log>>

----------------------------------------------------------------------------
(* The loop of every program.                                              *)
ObtainableMutant(s) == TRUE
Obtainable(s) == Locks => mutex[s] = Free

Lock(p) == /\ Step(p, "lock", "load") /\ sem[p] # Absent /\ Obtainable(sem[p])
           /\ mutex' = IF Locks THEN [mutex EXCEPT ![sem[p]] = p] ELSE mutex
           /\ UNCHANGED <<cell, sem, i, seqno, count, log>>

LoadedMutant(p) == IF i[p] = 0 THEN count[cell[p]] ELSE 0   \* no lseek: EOF
Loaded(p) == count[cell[p]]

Load(p) == /\ Step(p, "load", IF PrintsFirst THEN "print" ELSE "store")
           /\ cell[p] \in sized
           /\ seqno' = [seqno EXCEPT ![p] = Loaded(p)]
           /\ UNCHANGED <<cell, sem, i, count, mutex, log>>

Stored(p) == seqno[p] + 1

Store(p) == /\ Step(p, "store", IF PrintsFirst THEN "unlock" ELSE "print")
            /\ count' = [count EXCEPT ![cell[p]] = Stored(p)]
            /\ UNCHANGED <<cell, sem, i, seqno, mutex, log>>

Printf(p) == /\ Step(p, "print", IF PrintsFirst THEN "store" ELSE "unlock")
             /\ log' = [log EXCEPT ![cell[p]] = Append(@, seqno[p])]
             /\ UNCHANGED <<cell, sem, i, seqno, count, mutex>>

ReleasedMutant(s) == mutex
Released(s) == IF Locks THEN [mutex EXCEPT ![s] = Free] ELSE mutex

Unlock(p) == /\ Step(p, "unlock", IF i[p] + 1 < nloop THEN "lock" ELSE "done")
             /\ mutex' = Released(sem[p])
             /\ i' = [i EXCEPT ![p] = @ + 1]
             /\ UNCHANGED <<cell, sem, seqno, count, log>>

Process(p) == \/ OpenShm(p) \/ OpenSem(p) \/ Crash(p)
              \/ Lock(p) \/ Load(p) \/ Store(p) \/ Printf(p) \/ Unlock(p)

Next == (\E p \in Procs : Process(p)) \/ Server

Spec == Init /\ [][Next]_vars

(* Every process that can run does, and what sem_post frees is taken.      *)
FairSpec == Spec /\ \A p \in Procs : WF_vars(Process(p))

----------------------------------------------------------------------------
(* Properties.                                                             *)

TypeOK == /\ program \in Programs
          /\ spc \in {"unlink", "create", "truncate", "sem_unlink", "sem_create", "exited"}
          /\ run \in Objects /\ sized \subseteq Cells
          /\ {shmname, semname} \subseteq Objects \cup {Absent}
          /\ cell \in [Procs -> Cells \cup {Absent}]
          /\ sem \in [Procs -> Objects \cup {Absent}]
          /\ pc \in [Procs -> {"shm_open", "sem_open", "lock", "load", "store",
                               "print", "unlock", "done", "crashed"}]
          /\ i \in [Procs -> 0 .. nloop] /\ seqno \in [Procs -> Nat]
          /\ count \in [Cells -> 0 .. nloop * Cardinality(Procs)]
          /\ mutex \in [Objects -> Procs \cup {Free}] /\ log \in [Cells -> Seq(Nat)]

(* All who count in x do it under one semaphore.                           *)
Users(x) == {p \in Procs : cell[p] = x}
Guarded(x) == Locks /\ \A p, q \in Users(x) : sem[p] = sem[q]

(* A counter that is guarded is printed value by value, each once and in   *)
(* order, whichever process prints it.  One that is not, because my_lock   *)
(* is empty or because server1 replaced one name but not yet the other,    *)
(* may repeat values but leaves none out: lockmain prints a number only    *)
(* after all smaller ones, and of client1 a smaller one that is missing is *)
(* in the hands of a process that has stored and is about to print it.     *)
Printed == TypeOK /\ \A x \in Cells : \A k \in DOMAIN log[x] :
    /\ Guarded(x) => log[x][k] = k - 1
    /\ \A v \in 0 .. log[x][k] :
          \/ \E m \in 1 .. (IF PrintsFirst THEN k ELSE Len(log[x])) : log[x][m] = v
          \/ ~PrintsFirst /\ \E p \in Users(x) : pc[p] = "print" /\ seqno[p] = v

(* In the end a guarded counter holds every increment, and an unguarded    *)
(* one at least 2 if anyone counted twice, however many were lost.         *)
Ended == \A p \in Procs : pc[p] \in {"done", "crashed"}
FinalCount == Ended => \A x \in Cells :
    LET turns == nloop * Cardinality({p \in Users(x) : pc[p] = "done"})
    IN /\ count[x] <= turns
       /\ Guarded(x) => count[x] = turns
       /\ turns > 0 /\ nloop > 1 => count[x] >= 2

(* All processes finish, unless one died: it may have the semaphore.       *)
Finish == <>(Ended \/ \E p \in Procs : pc[p] = "crashed")

(* Whatever the names denote when a process opens them, the programs count *)
(* as CounterService does: processes are attached when they have opened    *)
(* both names, and incr1's and lockmain's from the start.                  *)
Opened(p) == pc[p] \notin {"shm_open", "sem_open"} /\ cell[p] # Absent
Raising(p) == pc[p] = "store" \/ (pc[p] = "print" /\ PrintsFirst)
Owing(p)   == pc[p] = "print" \/ (pc[p] = "store" /\ ~PrintsFirst)
Raised(p)  == pc[p] = "unlock" \/ (pc[p] = "print" /\ ~PrintsFirst)
Service == INSTANCE CounterService
    WITH Locks <- Objects, None <- Absent, value <- count, shown <- log,
         counter <- [p \in Procs |-> IF Opened(p) THEN cell[p] ELSE Absent],
         lock <- [p \in Procs |-> IF Opened(p) /\ Locks THEN sem[p] ELSE Absent],
         turns <- [p \in Procs |-> i[p] + (IF Raised(p) THEN 1 ELSE 0)],
         hand <- [p \in Procs |-> IF Raising(p) THEN {seqno[p]} ELSE {}],
         owed <- [p \in Procs |-> IF Owing(p) THEN {seqno[p]} ELSE {}]
ImplementsService == Service!Spec
=============================================================================
