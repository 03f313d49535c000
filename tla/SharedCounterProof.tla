------------------------- MODULE SharedCounterProof -------------------------
(***************************************************************************)
(* SharedCounter for any number of processes, turns and runs of server1:   *)
(* what is printed, and what the counters hold in the end, with a common   *)
(* semaphore and without.                                                  *)
(***************************************************************************)
EXTENDS SharedCounter, FiniteSetTheorems, SequenceTheorems, TLAPS

USE CounterAssumption

----------------------------------------------------------------------------
(* The inductive invariant.  Stores(x) are the turns, of those who use x,  *)
(* in which they stored.                                                   *)
Turns(p) == i[p] + (IF Raised(p) THEN 1 ELSE 0)
Stores(x) == {t \in Procs \X (0 .. nloop - 1) : cell[t[1]] = x /\ t[2] < Turns(t[1])}

(* Who is at which point: nobody dies after the first load, and who is     *)
(* between sem_wait and sem_post has the semaphore.                        *)
Stages == \A p \in Procs :
    /\ pc[p] = "shm_open" => cell[p] = Absent
    /\ pc[p] \in {"shm_open", "sem_open", "crashed"} => i[p] = 0
    /\ pc[p] \in {"lock", "load", "store", "print", "unlock"} => i[p] < nloop
    /\ pc[p] = "done" => i[p] = nloop
    /\ pc[p] \in {"store", "print", "unlock"} \/ i[p] > 0 => cell[p] \in sized
    /\ pc[p] \in {"load", "store", "print", "unlock"} \/ i[p] > 0 => sem[p] # Absent
    /\ pc[p] \in {"load", "store", "print", "unlock"} /\ Locks => mutex[sem[p]] = p
Roles == program # "client1" => /\ spc = "exited"
                                /\ \A p \in Procs : pc[p] \notin {"shm_open", "sem_open"}

(* Guarded(x), but for those that have still to open their semaphore: once *)
(* false it stays so.                                                      *)
OneLock(x) == Locks /\ \A p, q \in Users(x) :
                 pc[p] # "sem_open" /\ pc[q] # "sem_open" => sem[p] = sem[q]

Numbered(s) == \A k \in 1 .. Len(s) : s[k] = k - 1
Bounded(x) == /\ count[x] <= Cardinality(Stores(x))
              /\ \A p \in Users(x) : Raising(p) => seqno[p] <= Cardinality(Stores(x))
Exact(x) == OneLock(x) =>
    /\ count[x] = Cardinality(Stores(x))
    /\ Numbered(log[x])
    /\ \A p \in Users(x) : /\ pc[p] = "store" => seqno[p] = count[x]
                           /\ pc[p] = "print" => seqno[p] + 1 = count[x] /\ Len(log[x]) = seqno[p]
    /\ (\A p \in Users(x) : pc[p] # "print") => Len(log[x]) = count[x]

(* Without a lock: every value below one that is stored, loaded or printed *)
(* was printed, or is with a process that stores first and is about to     *)
(* print it; lockmain printed it, and what it is about to store, before.   *)
Occurs(s, v) == \E m \in 1 .. Len(s) : s[m] = v
Gapless(s) == \A k \in 1 .. Len(s) : \A v \in 0 .. s[k] : \E m \in 1 .. k : s[m] = v
Given(x, v) == \/ Occurs(log[x], v)
               \/ ~PrintsFirst /\ \E p \in Users(x) : pc[p] = "print" /\ seqno[p] = v
NoneSkipped(x) ==
    /\ PrintsFirst => Gapless(log[x])
    /\ \A k \in 1 .. Len(log[x]) : \A v \in 0 .. log[x][k] : Given(x, v)
    /\ \A v \in 0 .. count[x] - 1 : Given(x, v)
    /\ \A p \in Users(x) : pc[p] \in {"store", "print"} =>
          /\ \A v \in 0 .. seqno[p] - 1 : Given(x, v)
          /\ PrintsFirst /\ pc[p] = "store" => Given(x, seqno[p])

(* A count of 1 is the work of a process in its first turn, or with        *)
(* another turn to raise it.                                               *)
NotReset(x) ==
    /\ count[x] = 0 => \A p \in Users(x) : Turns(p) = 0
    /\ count[x] = 1 /\ nloop > 1 => \E r \in Users(x) : Turns(r) = 1
    /\ \A p \in Users(x) : Raising(p) /\ Turns(p) > 0 => seqno[p] > 0

Counted(x) == Bounded(x) /\ Exact(x) /\ NoneSkipped(x) /\ NotReset(x)
IInv == TypeOK /\ Stages /\ Roles /\ \A x \in Cells : Counted(x)

----------------------------------------------------------------------------
(* Counting stores.                                                        *)
LEMMA TurnsFinite ==
    ASSUME NEW S \in SUBSET (Procs \X (0 .. nloop - 1))
    PROVE  IsFiniteSet(S) /\ Cardinality(S) \in 0 .. nloop * Cardinality(Procs)
<1>1. IsFiniteSet(0 .. nloop - 1) /\ Cardinality(0 .. nloop - 1) = nloop
  <2>1. nloop - 1 >= 0 /\ (nloop - 1) - 0 + 1 = nloop
    OBVIOUS
  <2> QED
    BY <2>1, FS_Interval
<1>2. /\ IsFiniteSet(Procs \X (0 .. nloop - 1))
      /\ Cardinality(Procs \X (0 .. nloop - 1)) = Cardinality(Procs) * nloop
  BY <1>1, FS_Product
<1>3. /\ IsFiniteSet(S) /\ Cardinality(S) \in Nat
      /\ Cardinality(S) <= Cardinality(Procs) * nloop
  BY <1>2, FS_Subset, FS_CardinalityType
<1>4. Cardinality(Procs) \in Nat /\ nloop \in Nat
  BY FS_CardinalityType
<1>5. Cardinality(Procs) * nloop = nloop * Cardinality(Procs)
      /\ nloop * Cardinality(Procs) \in Nat
  BY <1>4
<1> QED
  BY <1>3, <1>5

(* Once two users have different semaphores it stays so.                   *)
LEMMA OneLockStays ==
    ASSUME program' = program,
           \A q \in Procs : cell[q] \in Cells =>
               /\ cell'[q] = cell[q]
               /\ pc[q] # "sem_open" => pc'[q] # "sem_open" /\ sem'[q] = sem[q]
    PROVE  \A x \in Cells : OneLock(x)' => OneLock(x)
BY DEF OneLock, Users, Locks

LEMMA Typed ==
    ASSUME TypeOK
    PROVE  /\ Absent \notin Cells /\ Absent \notin Objects
           /\ \A p \in Procs : i[p] \in Nat /\ seqno[p] \in Nat /\ Turns(p) \in Nat
           /\ \A x \in Cells : count[x] \in Nat /\ log[x] \in Seq(Nat) /\ Len(log[x]) \in Nat
<1>1. Absent \notin Cells /\ Absent \notin Objects
  BY DEF Cells, Objects, Absent
<1>2. \A p \in Procs : i[p] \in Nat /\ seqno[p] \in Nat /\ Turns(p) \in Nat
  BY DEF TypeOK, Turns, Raised
<1>3. \A x \in Cells : count[x] \in Nat /\ log[x] \in Seq(Nat) /\ Len(log[x]) \in Nat
  BY DEF TypeOK
<1> QED
  BY <1>1, <1>2, <1>3

(* What no user of x does anything to: the users stay as they are, and who *)
(* becomes one has done nothing yet.                                       *)
Untouched(x) ==
    /\ program' = program /\ count'[x] = count[x] /\ log'[x] = log[x]
    /\ \A q \in Procs : IF cell[q] = x
          THEN /\ cell'[q] = x /\ Turns(q)' = Turns(q) /\ seqno'[q] = seqno[q]
               /\ \A w \in {"store", "print"} : pc'[q] = w <=> pc[q] = w
          ELSE cell'[q] = x => Turns(q)' = 0 /\ pc'[q] \notin {"store", "print"}

LEMMA UntouchedKeeps ==
    ASSUME NEW x, Untouched(x), Counted(x), OneLock(x)' => OneLock(x)
    PROVE  Counted(x)'
<1>1. /\ program' = program /\ count'[x] = count[x] /\ log'[x] = log[x]
      /\ PrintsFirst' = PrintsFirst
  BY DEF Untouched, PrintsFirst
<1>2. Users(x) \subseteq Users(x)' /\ Users(x)' \subseteq Procs
  BY DEF Users, Untouched
<1>3. \A q \in Users(x) : /\ Turns(q)' = Turns(q) /\ seqno'[q] = seqno[q]
                          /\ pc'[q] = "store" <=> pc[q] = "store"
                          /\ pc'[q] = "print" <=> pc[q] = "print"
                          /\ Raising(q)' <=> Raising(q)
  BY <1>1 DEF Users, Untouched, Raising
<1>4. \A q \in Users(x)' \ Users(x) : /\ Turns(q)' = 0 /\ ~ Raising(q)'
                                      /\ pc'[q] # "store" /\ pc'[q] # "print"
  BY DEF Users, Untouched, Raising
<1>5. Stores(x)' = Stores(x)
  <2>1. \A t \in Procs \X (0 .. nloop - 1) :
           cell'[t[1]] = x /\ t[2] < Turns(t[1])' <=> cell[t[1]] = x /\ t[2] < Turns(t[1])
    <3> TAKE t \in Procs \X (0 .. nloop - 1)
    <3> DEFINE q == t[1]
               k == t[2]
    <3>1. q \in Procs /\ k \in Nat
      OBVIOUS
    <3> HIDE DEF q, k
    <3>2. cell'[q] = x /\ k < Turns(q)' <=> cell[q] = x /\ k < Turns(q)
      BY <3>1 DEF Untouched
    <3> QED
      BY <3>2 DEF q, k
  <2> QED
    BY <2>1 DEF Stores
<1>6. Bounded(x)'
  BY <1>1, <1>3, <1>4, <1>5 DEF Counted, Bounded
<1>7. Exact(x)'
  BY <1>1, <1>2, <1>3, <1>4, <1>5 DEF Counted, Exact
<1>8. \A v : Given(x, v)' <=> Given(x, v)
  BY <1>1, <1>2, <1>3, <1>4 DEF Given
<1>9. NoneSkipped(x)'
  <2>1. NoneSkipped(x)
    BY DEF Counted
  <2>2. \A q \in Users(x)' : pc'[q] \in {"store", "print"} =>
           q \in Users(x) /\ pc'[q] = pc[q] /\ seqno'[q] = seqno[q]
    BY <1>3, <1>4
  <2> QED
    BY <1>1, <1>8, <2>1, <2>2 DEF NoneSkipped
<1>10. NotReset(x)'
  BY <1>1, <1>2, <1>3, <1>4 DEF Counted, NotReset
<1> QED
  BY <1>6, <1>7, <1>9, <1>10 DEF Counted

LEMMA InitInv == Init => IInv
<1> SUFFICES ASSUME Init PROVE IInv
  OBVIOUS
<1>0. nloop \in Nat \ {0} /\ Cardinality(Procs) \in Nat /\ 0 \in 0 .. nloop * Cardinality(Procs)
  <2>1. Cardinality(Procs) \in Nat /\ nloop \in Nat
    BY FS_CardinalityType
  <2>2. nloop * Cardinality(Procs) \in Nat
    BY <2>1
  <2> QED
    BY <2>1, <2>2
<1>1. TypeOK
  <2>1. cell \in [Procs -> Cells \cup {Absent}]
    BY DEF Init, Cells, Objects, Programs
  <2>2. /\ sem \in [Procs -> Objects \cup {Absent}] /\ run \in Objects
        /\ pc \in [Procs -> {"shm_open", "sem_open", "lock", "load", "store", "print",
                             "unlock", "done", "crashed"}]
        /\ i \in [Procs -> 0 .. nloop] /\ seqno \in [Procs -> Nat]
        /\ mutex \in [Objects -> Procs \cup {Free}]
    BY DEF Init, Objects
  <2>3. count \in [Cells -> 0 .. nloop * Cardinality(Procs)] /\ log \in [Cells -> Seq(Nat)]
    BY <1>0 DEF Init
  <2>4. sized \subseteq Cells
    BY DEF Init
  <2> QED
    BY <2>1, <2>2, <2>3, <2>4 DEF Init, TypeOK
<1>2. \A p \in Procs : i[p] = 0 /\ pc[p] \in {"shm_open", "lock"} /\ seqno[p] = 0
  BY DEF Init
<1>3. Stages
  BY <1>2 DEF Init, Stages
<1>4. Roles
  BY DEF Init, Roles
<1>5. \A x : Stores(x) = {}
  BY <1>2 DEF Stores, Turns, Raised
<1>6. \A x \in Cells : count[x] = 0 /\ log[x] = << >> /\ Cardinality(Stores(x)) = 0
  BY <1>5, FS_EmptySet DEF Init
<1>7. \A x \in Cells : Counted(x)
  BY <1>2, <1>6 DEF Counted, Bounded, Exact, NoneSkipped, NotReset, Users, Numbered, Gapless,
     Raising, Turns, Raised
<1> QED
  BY <1>1, <1>3, <1>4, <1>7 DEF IInv

LEMMA ServerKeeps == ASSUME IInv, Server PROVE IInv'
<1> USE DEF IInv
<1>1. /\ UNCHANGED <<program, cell, sem, pc, i, seqno, count, mutex, log>>
      /\ sized \subseteq sized' /\ program = "client1"
  BY DEF Server, UnlinkShm, CreateShm, Truncate, UnlinkSem, CreateSem, RunAgain, ServerStep, Roles
<1>2. Cells' = Cells
  BY <1>1 DEF Cells
<1>3. run \in Objects /\ (program = "client1" => run \in Cells)
      /\ (run < MaxStarts => run + 1 \in Objects)
  BY DEF TypeOK, Cells, Objects
<1>4. TypeOK'
  <2>1. /\ spc' \in {"unlink", "create", "truncate", "sem_unlink", "sem_create", "exited"}
        /\ run' \in Objects /\ sized' \subseteq Cells
        /\ {shmname', semname'} \subseteq Objects \cup {Absent}
    BY <1>1, <1>3 DEF Server, UnlinkShm, CreateShm, Truncate, UnlinkSem, CreateSem, RunAgain,
       ServerStep, TypeOK
  <2> QED
    BY <1>1, <1>2, <2>1 DEF TypeOK
<1>5. Stages'
  BY <1>1 DEF Stages, Locks
<1>6. Roles'
  BY <1>1 DEF Roles
<1>7. ASSUME NEW x \in Cells PROVE Counted(x)'
  BY <1>1, UntouchedKeeps, OneLockStays DEF Untouched, Turns, Raised, PrintsFirst
<1> QED
  BY <1>2, <1>4, <1>5, <1>6, <1>7

(* client1 opens the object and the semaphore: it becomes a user before it *)
(* has a semaphore.                                                        *)
LEMMA OpenKeeps == ASSUME IInv, NEW p \in Procs, OpenShm(p) \/ OpenSem(p) PROVE IInv'
<1> USE DEF IInv
<1>1. /\ UNCHANGED <<program, serverVars, i, seqno, count, mutex, log>>
      /\ pc[p] \in {"shm_open", "sem_open"} /\ program = "client1"
      /\ \A q \in Procs \ {p} : pc'[q] = pc[q] /\ cell'[q] = cell[q] /\ sem'[q] = sem[q]
      /\ pc[p] = "shm_open" => /\ pc'[p] = "sem_open" /\ cell'[p] = shmname /\ sem' = sem
      /\ pc[p] = "sem_open" => /\ pc'[p] = "lock" /\ cell' = cell /\ sem'[p] = semname
      /\ pc' \in [Procs -> {"shm_open", "sem_open", "lock", "load", "store", "print",
                             "unlock", "done", "crashed"}]
  BY DEF OpenShm, OpenSem, Step, TypeOK, Roles
<1>2. Cells' = Cells /\ Cells = Objects
  BY <1>1 DEF Cells
<1>3. TypeOK'
  <2>1. cell' \in [Procs -> Cells \cup {Absent}] /\ sem' \in [Procs -> Objects \cup {Absent}]
    <3>1. /\ cell \in [Procs -> Cells \cup {Absent}] /\ sem \in [Procs -> Objects \cup {Absent}]
          /\ shmname \in Cells \cup {Absent} /\ semname \in Objects \cup {Absent}
      BY <1>2 DEF TypeOK
    <3>2. CASE OpenShm(p)
      BY <3>1, <3>2 DEF OpenShm
    <3>3. CASE OpenSem(p)
      BY <3>1, <3>3 DEF OpenSem
    <3> QED
      BY <3>2, <3>3
  <2> QED
    BY <1>1, <1>2, <2>1 DEF TypeOK, serverVars
<1>4. Stages'
  BY <1>1 DEF Stages, Locks, serverVars
<1>5. Roles'
  BY <1>1 DEF Roles
<1>6. /\ Turns(p) = 0 /\ Turns(p)' = 0
      /\ \A q \in Procs \ {p} : Turns(q)' = Turns(q)
  BY <1>1 DEF Turns, Raised, PrintsFirst, Stages
<1>7. ASSUME NEW x \in Cells PROVE Counted(x)'
  <2>1. \A q \in Procs : cell[q] \in Cells =>
               /\ cell'[q] = cell[q]
               /\ pc[q] # "sem_open" => pc'[q] # "sem_open" /\ sem'[q] = sem[q]
    BY <1>1, Typed DEF Stages
  <2>2. Untouched(x)
    BY <1>1, <1>6, <2>1 DEF Untouched
  <2> QED
    BY <1>1, <2>1, <2>2, UntouchedKeeps, OneLockStays
<1> QED
  BY <1>2, <1>3, <1>4, <1>5, <1>7

(* Dying changes nothing, and none dies that stored.                       *)
LEMMA CrashKeeps == ASSUME IInv, NEW p \in Procs, Crash(p) PROVE IInv'
<1> USE DEF IInv
<1>1. /\ UNCHANGED <<program, serverVars, cell, sem, i, seqno, count, mutex, log>>
      /\ pc[p] \in {"lock", "load"} /\ i[p] = 0 /\ pc'[p] = "crashed"
      /\ \A q \in Procs \ {p} : pc'[q] = pc[q]
      /\ pc' \in [Procs -> {"shm_open", "sem_open", "lock", "load", "store", "print",
                             "unlock", "done", "crashed"}]
  <2>1. /\ UNCHANGED <<program, serverVars, cell, sem, i, seqno, count, mutex, log>>
        /\ pc[p] \in {"lock", "load"} /\ pc' = [pc EXCEPT ![p] = "crashed"]
        /\ sem[p] = Absent \/ cell[p] \notin sized
    BY DEF Crash, Step
  <2>2. i[p] = 0
    <3>1. i[p] \in Nat /\ ~ (i[p] > 0)
      BY <2>1, Typed DEF Stages
    <3> QED
      BY <3>1
  <2> QED
    BY <2>1, <2>2 DEF TypeOK
<1>2. Cells' = Cells
  BY <1>1 DEF Cells
<1>3. TypeOK'
  BY <1>1, <1>2 DEF TypeOK, serverVars
<1>4. Stages'
  BY <1>1 DEF Stages, Locks, serverVars
<1>5. Roles'
  BY <1>1 DEF Roles, serverVars
<1>6. \A q \in Procs : Turns(q)' = Turns(q)
  BY <1>1, Typed DEF Turns, Raised, PrintsFirst
<1>7. ASSUME NEW x \in Cells PROVE Counted(x)'
  BY <1>1, <1>6, UntouchedKeeps, OneLockStays DEF Untouched
<1> QED
  BY <1>2, <1>3, <1>4, <1>5, <1>7

(* sem_wait: whoever had the semaphore has posted it.                      *)
LEMMA LockKeeps == ASSUME IInv, NEW p \in Procs, Lock(p) PROVE IInv'
<1> USE DEF IInv
<1>1. /\ UNCHANGED <<program, serverVars, cell, sem, i, seqno, count, log>>
      /\ pc[p] = "lock" /\ pc'[p] = "load" /\ sem[p] \in Objects
      /\ \A q \in Procs \ {p} : pc'[q] = pc[q]
      /\ Locks => /\ mutex[sem[p]] = Free /\ mutex'[sem[p]] = p
                  /\ \A s \in Objects \ {sem[p]} : mutex'[s] = mutex[s]
      /\ pc' \in [Procs -> {"shm_open", "sem_open", "lock", "load", "store", "print",
                             "unlock", "done", "crashed"}]
      /\ mutex' \in [Objects -> Procs \cup {Free}]
  BY DEF Lock, Step, Obtainable, TypeOK
<1>2. Cells' = Cells /\ Locks' = Locks
  BY <1>1 DEF Cells, Locks
<1>3. TypeOK'
  BY <1>1, <1>2 DEF TypeOK, serverVars
<1>4. Stages'
  <2>1. \A q \in Procs : sem[q] \in Objects \cup {Absent} /\ q # Free
    BY DEF TypeOK
  <2>2. \A q \in Procs \ {p} : pc[q] \in {"load", "store", "print", "unlock"} /\ Locks =>
           mutex[sem[q]] = q /\ sem[q] \in Objects \ {sem[p]}
    BY <1>1, <2>1 DEF Stages
  <2>3. \A q \in Procs :
           pc'[q] \in {"load", "store", "print", "unlock"} /\ Locks => mutex'[sem[q]] = q
    BY <1>1, <2>2
  <2>4. sem[p] # Absent
    BY <1>1, Typed
  <2> QED
    BY <1>1, <1>2, <2>3, <2>4 DEF Stages, serverVars
<1>5. Roles'
  BY <1>1 DEF Roles, serverVars
<1>6. \A q \in Procs : Turns(q)' = Turns(q)
  BY <1>1, Typed DEF Turns, Raised, PrintsFirst
<1>7. ASSUME NEW x \in Cells PROVE Counted(x)'
  BY <1>1, <1>6, UntouchedKeeps, OneLockStays DEF Untouched
<1> QED
  BY <1>2, <1>3, <1>4, <1>5, <1>7

(* sem_post ends a turn.                                                   *)
LEMMA UnlockKeeps == ASSUME IInv, NEW p \in Procs, Unlock(p) PROVE IInv'
<1> USE DEF IInv
<1>1. /\ UNCHANGED <<program, serverVars, cell, sem, seqno, count, log>>
      /\ pc[p] = "unlock" /\ pc'[p] = (IF i[p] + 1 < nloop THEN "lock" ELSE "done")
      /\ i'[p] = i[p] + 1 /\ i[p] \in 0 .. nloop - 1 /\ sem[p] \in Objects
      /\ \A q \in Procs \ {p} : pc'[q] = pc[q] /\ i'[q] = i[q]
      /\ Locks => \A s \in Objects \ {sem[p]} : mutex'[s] = mutex[s]
      /\ pc' \in [Procs -> {"shm_open", "sem_open", "lock", "load", "store", "print",
                             "unlock", "done", "crashed"}]
      /\ mutex' \in [Objects -> Procs \cup {Free}]
  <2>1. pc[p] = "unlock"
    BY DEF Unlock, Step
  <2>2. i[p] \in 0 .. nloop - 1 /\ sem[p] \in Objects
    <3>1. i[p] \in Nat /\ i[p] < nloop /\ nloop \in Nat /\ sem[p] # Absent
      BY <2>1, Typed DEF Stages
    <3> QED
      BY <3>1 DEF TypeOK
  <2>3. mutex' \in [Objects -> Procs \cup {Free}]
        /\ (Locks => \A s \in Objects \ {sem[p]} : mutex'[s] = mutex[s])
    BY DEF Unlock, Released, TypeOK
  <2> QED
    BY <2>1, <2>2, <2>3 DEF Unlock, Step, TypeOK
<1>2. Cells' = Cells /\ Locks' = Locks
  BY <1>1 DEF Cells, Locks
<1>3. TypeOK'
  <2>1. i' \in [Procs -> 0 .. nloop]
    BY <1>1 DEF Unlock, TypeOK
  <2> QED
    BY <1>1, <1>2, <2>1 DEF TypeOK, serverVars
<1>4. Stages'
  <2>1. \A q \in Procs : sem[q] \in Objects \cup {Absent} /\ i[q] \in Nat
    BY Typed DEF TypeOK
  <2>2. \A q \in Procs \ {p} :
           pc[q] \in {"load", "store", "print", "unlock"} /\ Locks => sem[q] # sem[p]
    BY <1>1 DEF Stages
  <2>3. \A q \in Procs \ {p} :
           pc[q] \in {"load", "store", "print", "unlock"} /\ Locks => mutex'[sem[q]] = q
    BY <1>1, <2>1, <2>2 DEF Stages
  <2>4. pc'[p] \in {"lock", "done"} /\ (pc'[p] = "lock" => i'[p] < nloop)
        /\ (pc'[p] = "done" => i'[p] = nloop) /\ cell[p] \in sized /\ sem[p] # Absent
    BY <1>1 DEF Stages
  <2> QED
    BY <1>1, <1>2, <2>3, <2>4 DEF Stages, serverVars
<1>5. Roles'
  BY <1>1 DEF Roles, serverVars
<1>6. \A q \in Procs : Turns(q)' = Turns(q)
  BY <1>1, Typed DEF Turns, Raised, PrintsFirst
<1>7. ASSUME NEW x \in Cells PROVE Counted(x)'
  BY <1>1, <1>6, UntouchedKeeps, OneLockStays DEF Untouched
<1> QED
  BY <1>2, <1>3, <1>4, <1>5, <1>7

(* Under one semaphore at most one user is between load and post.          *)
LEMMA Alone ==
    ASSUME IInv, NEW x \in Cells, OneLock(x), NEW p \in Users(x), NEW q \in Users(x),
           {pc[p], pc[q]} \subseteq {"load", "store", "print", "unlock"}
    PROVE  p = q
<1>1. p \in Procs /\ q \in Procs /\ Locks /\ sem[p] = sem[q]
  BY DEF OneLock, Users
<1>2. mutex[sem[p]] = p /\ mutex[sem[q]] = q
  BY <1>1 DEF IInv, Stages
<1> QED
  BY <1>1, <1>2

(* Printing the next number, or one below which none is missing.           *)
LEMMA Printing ==
    ASSUME NEW s \in Seq(Nat), NEW v \in Nat
    PROVE  /\ Len(Append(s, v)) = Len(s) + 1
           /\ Numbered(s) /\ v = Len(s) => Numbered(Append(s, v))
           /\ Append(s, v)[Len(s) + 1] = v
           /\ \A k \in 1 .. Len(s) : Append(s, v)[k] = s[k]
           /\ \A w : Occurs(s, w) => Occurs(Append(s, v), w)
           /\ Occurs(Append(s, v), v)
           /\ Gapless(s) /\ (\A w \in 0 .. v - 1 : Occurs(s, w)) => Gapless(Append(s, v))
<1> DEFINE n == Len(s)
           t == Append(s, v)
<1>1. /\ n \in Nat /\ Len(t) = n + 1 /\ t[n + 1] = v
      /\ \A k \in 1 .. n : t[k] = s[k] /\ s[k] \in Nat
  OBVIOUS
<1> HIDE DEF t
<1>2. ASSUME NEW w, NEW k \in 1 .. n, NEW m \in 1 .. k, s[m] = w
      PROVE  t[m] = w
  <2>1. m \in 1 .. n
    BY <1>1
  <2> QED
    BY <1>1, <1>2, <2>1
<1>3. \A w : Occurs(s, w) => \E m \in 1 .. n : t[m] = w
  BY <1>1 DEF Occurs
<1>4. \A w : Occurs(s, w) => Occurs(t, w)
  BY <1>1, <1>3 DEF Occurs
<1>5. Occurs(t, v)
  BY <1>1 DEF Occurs
<1>6. ASSUME Numbered(s), v = n
      PROVE  Numbered(t)
  <2> SUFFICES ASSUME NEW k \in 1 .. n + 1 PROVE t[k] = k - 1
    BY <1>1 DEF Numbered
  <2>1. CASE k = n + 1
    BY <1>1, <1>6, <2>1
  <2>2. CASE k \in 1 .. n
    BY <1>1, <1>6, <2>2 DEF Numbered
  <2> QED
    BY <1>1, <2>1, <2>2
<1>7. ASSUME Gapless(s), \A w \in 0 .. v - 1 : Occurs(s, w)
      PROVE  Gapless(t)
  <2> SUFFICES ASSUME NEW k \in 1 .. n + 1, NEW w \in 0 .. t[k]
               PROVE  \E m \in 1 .. k : t[m] = w
    BY <1>1 DEF Gapless
  <2>1. CASE k \in 1 .. n
    <3>1. w \in 0 .. s[k]
      BY <1>1, <2>1
    <3>2. PICK m \in 1 .. k : s[m] = w
      BY <1>7, <2>1, <3>1 DEF Gapless
    <3>3. t[m] = w
      BY <1>2, <2>1, <3>2
    <3> QED
      BY <3>3
  <2>2. CASE k = n + 1
    <3>1. CASE w = v
      BY <1>1, <2>2, <3>1
    <3>2. CASE w # v
      <4>1. w \in 0 .. v - 1
        BY <1>1, <2>2, <3>2
      <4>2. PICK m \in 1 .. n : t[m] = w
        BY <1>3, <1>7, <4>1
      <4>3. m \in 1 .. k
        BY <1>1, <2>2
      <4> QED
        BY <4>2, <4>3
    <3> QED
      BY <3>1, <3>2
  <2> QED
    BY <1>1, <2>1, <2>2
<1> QED
  BY <1>1, <1>4, <1>5, <1>6, <1>7 DEF t

(* read: what is loaded is the counter, and everything below it is given.  *)
LEMMA LoadKeeps == ASSUME IInv, NEW p \in Procs, Load(p) PROVE IInv'
<1> USE DEF IInv
<1>0. PICK x \in Cells, v \in Nat : x = cell[p] /\ v = count[x]
  BY Typed DEF Load, TypeOK
<1>1. /\ UNCHANGED <<program, serverVars, cell, sem, i, count, mutex, log>>
      /\ pc[p] = "load" /\ pc'[p] = (IF PrintsFirst THEN "print" ELSE "store") /\ x \in sized
      /\ \A q \in Procs \ {p} : pc'[q] = pc[q] /\ seqno'[q] = seqno[q]
      /\ seqno'[p] = v /\ seqno' \in [Procs -> Nat]
      /\ pc' \in [Procs -> {"shm_open", "sem_open", "lock", "load", "store", "print",
                             "unlock", "done", "crashed"}]
  BY <1>0 DEF Load, Step, Loaded, TypeOK
<1>2. /\ Cells' = Cells /\ Locks' = Locks /\ PrintsFirst' = PrintsFirst
      /\ \A y : Users(y)' = Users(y) /\ Users(y) \subseteq Procs
      /\ \A y \in Cells : OneLock(y)' => OneLock(y)
  BY <1>1, OneLockStays DEF Cells, Locks, Users, PrintsFirst
<1>3. TypeOK'
  BY <1>1, <1>2 DEF TypeOK, serverVars
<1>4. Stages' /\ Roles'
  BY <1>0, <1>1, <1>2 DEF Stages, Roles, serverVars
<1>5. p \in Users(x) /\ \A q \in Procs : Turns(q)' = Turns(q) /\ Turns(q) \in Nat
  BY <1>0, <1>1, <1>2, Typed DEF Turns, Raised, Users
<1>6. Stores(x)' = Stores(x)
  BY <1>1, <1>5 DEF Stores
<1>7. \A q \in Users(x) \ {p} : pc'[q] = pc[q] /\ seqno'[q] = seqno[q]
                                /\ (Raising(q)' <=> Raising(q))
  BY <1>1, <1>2 DEF Raising
<1>8. Bounded(x)'
  <2>1. Bounded(x)
    BY DEF Counted
  <2> QED
    BY <1>0, <1>1, <1>2, <1>6, <1>7, <2>1 DEF Bounded
<1>9. ASSUME OneLock(x) PROVE Exact(x)'
  <2>1. ~PrintsFirst /\ Exact(x)
    BY <1>9 DEF Counted, OneLock, Locks, PrintsFirst
  <2>2. \A q \in Users(x) \ {p} : pc[q] # "store" /\ pc[q] # "print"
    BY <1>1, <1>5, <1>9, Alone
  <2>3. \A q \in Users(x) : pc[q] # "print" /\ pc'[q] # "print"
    BY <1>1, <1>2, <2>1, <2>2
  <2> QED
    BY <1>0, <1>1, <1>2, <1>6, <1>7, <1>9, <2>1, <2>2, <2>3 DEF Exact
<1>10. NoneSkipped(x)'
  <2>1. NoneSkipped(x)
    BY DEF Counted
  <2>2. \A w : Given(x, w)' <=> Given(x, w)
    BY <1>1, <1>2, <1>5, <1>7 DEF Given
  <2> QED
    BY <1>0, <1>1, <1>2, <1>7, <2>1, <2>2 DEF NoneSkipped
<1>11. NotReset(x)'
  <2>1. NotReset(x)
    BY DEF Counted
  <2>2. Turns(p) > 0 => v > 0
    BY <1>0, <1>5, <2>1 DEF NotReset
  <2> QED
    BY <1>0, <1>1, <1>2, <1>5, <1>7, <2>1, <2>2 DEF NotReset
<1>12. Counted(x)'
  BY <1>2, <1>8, <1>9, <1>10, <1>11 DEF Counted, Exact
<1>13. ASSUME NEW y \in Cells \ {x} PROVE Counted(y)'
  <2>1. Untouched(y)
    BY <1>0, <1>1, <1>2 DEF Untouched, Turns, Raised
  <2> QED
    BY <1>1, <1>2, <2>1, UntouchedKeeps
<1> QED
  BY <1>2, <1>3, <1>4, <1>12, <1>13

(* write: one more store in x, of the value after one that is given.       *)
LEMMA StoreKeeps == ASSUME IInv, NEW p \in Procs, Store(p) PROVE IInv'
<1> USE DEF IInv
<1>0. PICK x \in Cells, v \in Nat : x = cell[p] /\ v = seqno[p]
  BY Typed DEF Store, Step, Stages, TypeOK
<1> DEFINE t == <<p, i[p]>>
<1>1. /\ UNCHANGED <<program, serverVars, cell, sem, i, seqno, mutex, log>>
      /\ pc[p] = "store" /\ pc'[p] = (IF PrintsFirst THEN "unlock" ELSE "print")
      /\ \A q \in Procs \ {p} : pc'[q] = pc[q]
      /\ count'[x] = v + 1
      /\ \A y \in Cells \ {x} : count'[y] = count[y]
      /\ pc' \in [Procs -> {"shm_open", "sem_open", "lock", "load", "store", "print",
                             "unlock", "done", "crashed"}]
  BY <1>0 DEF Store, Step, Stored, TypeOK
<1>2. /\ Cells' = Cells /\ Locks' = Locks /\ PrintsFirst' = PrintsFirst
      /\ \A y : Users(y)' = Users(y) /\ Users(y) \subseteq Procs
      /\ \A y \in Cells : OneLock(y)' => OneLock(y)
  BY <1>1, OneLockStays DEF Cells, Locks, Users, PrintsFirst
<1>3. p \in Users(x) /\ i[p] \in Nat /\ i[p] < nloop
  BY <1>0, <1>1, Typed DEF Stages, Users
<1>4. Stages' /\ Roles'
  BY <1>1, <1>2 DEF Stages, Roles, serverVars
<1>5. /\ Turns(p) = i[p] /\ Turns(p)' = i[p] + 1
      /\ \A q \in Procs \ {p} : Turns(q)' = Turns(q)
      /\ \A q \in Procs : Turns(q) \in Nat
  BY <1>1, <1>2, <1>3, Typed DEF Turns, Raised
<1>6. Stores(x)' = Stores(x) \cup {t} /\ t \notin Stores(x)
      /\ t \in Procs \X (0 .. nloop - 1)
  <2>1. t \in Procs \X (0 .. nloop - 1) /\ t \notin Stores(x)
    BY <1>3, <1>5 DEF Stores
  <2>2. ASSUME NEW u \in Procs \X (0 .. nloop - 1)
        PROVE  u \in Stores(x)' <=> u \in Stores(x) \/ u = t
    <3>1. PICK q \in Procs, k \in 0 .. nloop - 1 : u = <<q, k>>
      OBVIOUS
    <3>2. u \in Stores(x) <=> cell[q] = x /\ k < Turns(q)
      BY <3>1 DEF Stores
    <3>3. u \in Stores(x)' <=> cell[q] = x /\ k < Turns(q)'
      BY <1>1, <3>1 DEF Stores
    <3>4. u = t <=> q = p /\ k = i[p]
      BY <3>1
    <3>5. CASE q = p
      <4>1. k < i[p] + 1 <=> k < i[p] \/ k = i[p]
        BY <1>3
      <4> QED
        BY <1>0, <1>5, <3>2, <3>3, <3>4, <3>5, <4>1
    <3>6. CASE q # p
      BY <1>5, <3>2, <3>3, <3>4, <3>6
    <3> QED
      BY <3>5, <3>6
  <2>3. Stores(x) \subseteq Procs \X (0 .. nloop - 1)
        /\ Stores(x)' \subseteq Procs \X (0 .. nloop - 1)
    BY DEF Stores
  <2> HIDE DEF t
  <2> QED
    BY <2>1, <2>2, <2>3
<1>7. /\ Cardinality(Stores(x)') = Cardinality(Stores(x)) + 1 /\ Cardinality(Stores(x)) \in Nat
      /\ Cardinality(Stores(x)') <= nloop * Cardinality(Procs)
      /\ nloop * Cardinality(Procs) \in Nat
  <2>1. Stores(x) \in SUBSET (Procs \X (0 .. nloop - 1))
    BY DEF Stores
  <2>2. Stores(x)' \in SUBSET (Procs \X (0 .. nloop - 1))
    BY <1>6, <2>1
  <2>3. IsFiniteSet(Stores(x)) /\ Cardinality(Stores(x)) \in Nat
    BY <2>1, TurnsFinite
  <2>4. Cardinality(Stores(x)') \in 0 .. nloop * Cardinality(Procs)
    BY <2>2, TurnsFinite
  <2>5. Cardinality(Procs) \in Nat /\ nloop \in Nat
    BY FS_CardinalityType
  <2> HIDE DEF t
  <2>6. nloop * Cardinality(Procs) \in Nat
    BY <2>5
  <2>7. Cardinality(Stores(x) \cup {t}) = Cardinality(Stores(x)) + 1
    BY <1>6, <2>3, FS_AddElement, Zenon
  <2>8. Cardinality(Stores(x)') = Cardinality(Stores(x)) + 1
    BY <1>6, <2>7, Zenon
  <2> QED
    BY <2>3, <2>4, <2>6, <2>8
<1> HIDE DEF t
<1>8. Raising(p) /\ ~Raising(p)'
      /\ \A q \in Users(x) \ {p} : pc'[q] = pc[q] /\ (Raising(q)' <=> Raising(q))
  BY <1>1, <1>2 DEF Raising
<1>9. v <= Cardinality(Stores(x)) /\ Bounded(x)'
  <2>1. Bounded(x)
    BY DEF Counted
  <2>2. v <= Cardinality(Stores(x))
    BY <1>0, <1>3, <1>8, <2>1 DEF Bounded
  <2>3. \A q \in Users(x) \ {p} : Raising(q) => seqno[q] <= Cardinality(Stores(x)) + 1
    BY <1>2, <1>7, <2>1, Typed DEF Bounded
  <2>4. v + 1 <= Cardinality(Stores(x)) + 1
    BY <1>7, <2>2
  <2> QED
    BY <1>1, <1>2, <1>7, <1>8, <2>2, <2>3, <2>4 DEF Bounded
<1>10. TypeOK'
  <2>1. v + 1 \in 0 .. nloop * Cardinality(Procs)
    BY <1>7, <1>9
  <2>2. count' \in [Cells -> 0 .. nloop * Cardinality(Procs)]
    BY <1>0, <1>1, <2>1 DEF Store, Stored, TypeOK
  <2> QED
    BY <1>1, <1>2, <2>2 DEF TypeOK, serverVars
<1>11. ASSUME OneLock(x) PROVE Exact(x)'
  <2>1. ~PrintsFirst /\ Exact(x)
    BY <1>11 DEF Counted, OneLock, Locks, PrintsFirst
  <2>2. \A q \in Users(x) \ {p} : pc'[q] # "store" /\ pc'[q] # "print" /\ pc[q] # "print"
    BY <1>1, <1>3, <1>8, <1>11, Alone
  <2>3. v = count[x] /\ Len(log[x]) = v /\ v = Cardinality(Stores(x)) /\ Numbered(log[x])
    <3>1. \A q \in Users(x) : pc[q] # "print"
      BY <1>1, <2>2
    <3>2. Len(log[x]) = count[x] /\ count[x] = Cardinality(Stores(x)) /\ Numbered(log[x])
      BY <1>11, <2>1, <3>1 DEF Exact
    <3>3. seqno[p] = count[x]
      BY <1>1, <1>3, <1>11, <2>1 DEF Exact
    <3> QED
      BY <1>0, <3>2, <3>3
  <2> QED
    BY <1>0, <1>1, <1>2, <1>3, <1>7, <2>1, <2>2, <2>3 DEF Exact
<1>12. NoneSkipped(x)'
  <2>1. NoneSkipped(x)
    BY DEF Counted
  <2>2. \A w : Given(x, w) => Given(x, w)'
    BY <1>1, <1>2, <1>8 DEF Given
  <2>3. Given(x, v)'
    <3>1. CASE PrintsFirst
      BY <1>0, <1>1, <1>3, <2>1, <2>2, <3>1 DEF NoneSkipped
    <3>2. CASE ~PrintsFirst
      BY <1>0, <1>1, <1>2, <1>3, <3>2 DEF Given
    <3> QED
      BY <3>1, <3>2
  <2>4. \A w \in 0 .. v - 1 : Given(x, w)'
    BY <1>0, <1>1, <1>3, <2>1, <2>2 DEF NoneSkipped
  <2>5. \A w \in 0 .. (v + 1) - 1 : w = v \/ w \in 0 .. v - 1
    BY <1>0
  <2> QED
    BY <1>0, <1>1, <1>2, <1>8, <2>1, <2>2, <2>3, <2>4, <2>5 DEF NoneSkipped
<1>13. NotReset(x)'
  <2>1. NotReset(x)
    BY DEF Counted
  <2>2. Turns(p) > 0 => v > 0
    BY <1>0, <1>3, <1>8, <2>1 DEF NotReset
  <2>3. v = 0 => i[p] = 0
    BY <1>0, <1>3, <1>5, <2>2
  <2>4. v = 0 => Turns(p)' = 1
    BY <1>5, <2>3
  <2>5. count'[x] # 0 /\ (count'[x] = 1 => v = 0)
    BY <1>1
  <2> QED
    BY <1>1, <1>2, <1>3, <1>5, <1>8, <2>1, <2>4, <2>5 DEF NotReset
<1>14. Counted(x)'
  BY <1>2, <1>9, <1>11, <1>12, <1>13 DEF Counted, Exact
<1>15. ASSUME NEW y \in Cells \ {x} PROVE Counted(y)'
  <2>1. Untouched(y)
    BY <1>0, <1>1, <1>2 DEF Untouched, Turns, Raised
  <2> QED
    BY <1>1, <1>2, <2>1, UntouchedKeeps
<1> QED
  BY <1>2, <1>4, <1>10, <1>14, <1>15

(* printf: what was given by the process is now given by the log.          *)
LEMMA PrintKeeps == ASSUME IInv, NEW p \in Procs, Printf(p) PROVE IInv'
<1> USE DEF IInv
<1>0. PICK x \in Cells, v \in Nat : x = cell[p] /\ v = seqno[p]
  BY Typed DEF Printf, Step, Stages, TypeOK
<1> DEFINE s == log[x]
<1>1. /\ UNCHANGED <<program, serverVars, cell, sem, i, seqno, count, mutex>>
      /\ pc[p] = "print" /\ pc'[p] = (IF PrintsFirst THEN "store" ELSE "unlock")
      /\ \A q \in Procs \ {p} : pc'[q] = pc[q]
      /\ log'[x] = Append(s, v) /\ s \in Seq(Nat) /\ Len(s) \in Nat
      /\ \A y \in Cells \ {x} : log'[y] = log[y]
      /\ log' \in [Cells -> Seq(Nat)]
      /\ pc' \in [Procs -> {"shm_open", "sem_open", "lock", "load", "store", "print",
                             "unlock", "done", "crashed"}]
  <2>1. s \in Seq(Nat) /\ Append(s, v) \in Seq(Nat) /\ Len(s) \in Nat
    BY Typed
  <2> QED
    BY <1>0, <2>1 DEF Printf, Step, TypeOK
<1>2. /\ Cells' = Cells /\ Locks' = Locks /\ PrintsFirst' = PrintsFirst
      /\ \A y : Users(y)' = Users(y) /\ Users(y) \subseteq Procs
      /\ \A y \in Cells : OneLock(y)' => OneLock(y)
  BY <1>1, OneLockStays DEF Cells, Locks, Users, PrintsFirst
<1>3. TypeOK'
  BY <1>1, <1>2 DEF TypeOK, serverVars
<1>4. Stages' /\ Roles'
  BY <1>1, <1>2 DEF Stages, Roles, serverVars
<1>5. p \in Users(x) /\ \A q \in Procs : Turns(q)' = Turns(q)
  BY <1>0, <1>1, <1>2, Typed DEF Turns, Raised, Users
<1>6. Stores(x)' = Stores(x)
  BY <1>1, <1>5 DEF Stores
<1> HIDE DEF s
<1>7. \A q \in Users(x) : Raising(q)' <=> Raising(q)
  BY <1>1, <1>2 DEF Raising
<1>8. /\ Len(log'[x]) = Len(s) + 1 /\ log'[x][Len(s) + 1] = v
      /\ \A k \in 1 .. Len(s) : log'[x][k] = s[k]
      /\ Numbered(s) /\ v = Len(s) => Numbered(log'[x])
      /\ \A w : Occurs(s, w) => Occurs(log'[x], w)
      /\ Occurs(log'[x], v)
      /\ Gapless(s) /\ (\A w \in 0 .. v - 1 : Occurs(s, w)) => Gapless(log'[x])
  BY <1>1, Printing
<1>9. Bounded(x)'
  <2>1. Bounded(x)
    BY DEF Counted
  <2> QED
    BY <1>1, <1>2, <1>6, <1>7, <2>1 DEF Bounded
<1>10. ASSUME OneLock(x) PROVE Exact(x)'
  <2>1. ~PrintsFirst /\ Exact(x)
    BY <1>10 DEF Counted, OneLock, Locks, PrintsFirst
  <2>2. \A q \in Users(x) : pc'[q] # "store" /\ pc'[q] # "print"
    BY <1>1, <1>2, <1>5, <1>10, <2>1, Alone
  <2>3. v + 1 = count[x] /\ Len(s) = v /\ Numbered(s) /\ count[x] = Cardinality(Stores(x))
    <3>1. seqno[p] + 1 = count[x] /\ Len(log[x]) = seqno[p]
      BY <1>1, <1>5, <1>10, <2>1 DEF Exact
    <3>2. Numbered(log[x]) /\ count[x] = Cardinality(Stores(x))
      BY <1>10, <2>1 DEF Exact
    <3> QED
      BY <1>0, <3>1, <3>2 DEF s
  <2> QED
    BY <1>0, <1>1, <1>2, <1>6, <1>8, <2>2, <2>3 DEF Exact
<1>11. NoneSkipped(x)'
  <2>1. NoneSkipped(x)
    BY DEF Counted
  <2>2. Given(x, v)'
    BY <1>1, <1>2, <1>8 DEF Given
  <2>3. \A w : Given(x, w) => Given(x, w)'
    <3> TAKE w
    <3>1. CASE Occurs(s, w)
      BY <1>8, <3>1 DEF Given
    <3>2. ASSUME ~PrintsFirst, NEW q \in Users(x), pc[q] = "print", seqno[q] = w
          PROVE  Given(x, w)'
      <4>1. CASE q = p
        BY <1>0, <2>2, <3>2, <4>1
      <4>2. CASE q # p
        BY <1>1, <1>2, <3>2, <4>2 DEF Given
      <4> QED
        BY <4>1, <4>2
    <3> QED
      BY <3>1, <3>2 DEF Given, s
  <2>4. \A w \in 0 .. v - 1 : Given(x, w)
    BY <1>0, <1>1, <1>5, <2>1 DEF NoneSkipped
  <2>5. PrintsFirst => Gapless(log'[x])
    BY <1>8, <2>1, <2>4 DEF NoneSkipped, Given, s
  <2>6. ASSUME NEW k \in 1 .. Len(log'[x]), NEW w \in 0 .. log'[x][k]
        PROVE  Given(x, w)'
    <3>1. CASE k \in 1 .. Len(s)
      <4>1. w \in 0 .. s[k]
        BY <1>8, <3>1
      <4> QED
        BY <2>1, <2>3, <3>1, <4>1 DEF NoneSkipped, s
    <3>2. CASE k = Len(s) + 1
      <4>1. w = v \/ w \in 0 .. v - 1
        BY <1>8, <3>2
      <4> QED
        BY <2>2, <2>3, <2>4, <4>1
    <3> QED
      BY <1>1, <1>8, <3>1, <3>2
  <2>7. ASSUME NEW q \in Users(x), pc'[q] \in {"store", "print"}
        PROVE  /\ \A w \in 0 .. seqno[q] - 1 : Given(x, w)'
               /\ PrintsFirst /\ pc'[q] = "store" => Given(x, seqno[q])'
    <3>1. CASE q = p
      BY <1>0, <1>1, <2>2, <2>3, <2>4, <3>1
    <3>2. CASE q # p
      BY <1>1, <1>2, <2>1, <2>3, <2>7, <3>2 DEF NoneSkipped
    <3> QED
      BY <3>1, <3>2
  <2> QED
    BY <1>1, <1>2, <2>1, <2>3, <2>5, <2>6, <2>7 DEF NoneSkipped
<1>12. NotReset(x)'
  <2>1. NotReset(x)
    BY DEF Counted
  <2> QED
    BY <1>1, <1>2, <1>5, <1>7, <2>1 DEF NotReset
<1>13. Counted(x)'
  BY <1>2, <1>9, <1>10, <1>11, <1>12 DEF Counted, Exact
<1>14. ASSUME NEW y \in Cells \ {x} PROVE Counted(y)'
  <2>1. Untouched(y)
    BY <1>0, <1>1, <1>2 DEF Untouched, Turns, Raised
  <2> QED
    BY <1>1, <1>2, <2>1, UntouchedKeeps
<1> QED
  BY <1>2, <1>3, <1>4, <1>13, <1>14

LEMMA Invariant == Spec => []IInv
<1>1. IInv /\ [Next]_vars => IInv'
  <2> SUFFICES ASSUME IInv, [Next]_vars PROVE IInv'
    OBVIOUS
  <2>1. CASE Server
    BY <2>1, ServerKeeps
  <2>2. ASSUME NEW p \in Procs, Process(p)
        PROVE  IInv'
    BY <2>2, OpenKeeps, CrashKeeps, LockKeeps, LoadKeeps, StoreKeeps, PrintKeeps,
       UnlockKeeps DEF Process
  <2>3. CASE UNCHANGED vars
    <3>1. UNCHANGED <<program, spc, run, shmname, semname, sized, cell, sem, pc, i, seqno,
                      count, mutex, log>>
      BY <2>3 DEF vars, serverVars
    <3>2. TypeOK' /\ Stages' /\ Roles'
      BY <3>1 DEF IInv, TypeOK, Stages, Roles, Cells, Locks
    <3>3. ASSUME NEW x \in Cells PROVE Counted(x)'
      BY <3>1, UntouchedKeeps, OneLockStays DEF IInv, Untouched, Turns, Raised, PrintsFirst
    <3>4. Cells' = Cells
      BY <3>1 DEF Cells
    <3> QED
      BY <3>2, <3>3, <3>4 DEF IInv
  <2> QED
    BY <2>1, <2>2, <2>3 DEF Next
<1> QED
  BY InitInv, <1>1, PTL DEF Spec

----------------------------------------------------------------------------
(* Whatever is printed of a guarded counter is 0, 1, 2, ... in order.  Of  *)
(* any other no value is left out: lockmain printed it before, and client1 *)
(* printed it or is about to, having stored what comes after it.           *)
THEOREM PrintedInOrder == Spec => []Printed
<1>1. IInv => Printed
  <2> SUFFICES ASSUME IInv, NEW x \in Cells, NEW k \in DOMAIN log[x]
               PROVE  /\ Guarded(x) => log[x][k] = k - 1
                      /\ \A v \in 0 .. log[x][k] :
                            \/ \E m \in 1 .. (IF PrintsFirst THEN k ELSE Len(log[x])) : log[x][m] = v
                            \/ ~PrintsFirst /\ \E p \in Users(x) : pc[p] = "print" /\ seqno[p] = v
    BY DEF Printed, IInv
  <2>1. k \in 1 .. Len(log[x]) /\ Counted(x)
    BY Typed DEF IInv
  <2>2. Guarded(x) => log[x][k] = k - 1
    BY <2>1 DEF Guarded, OneLock, Counted, Exact, Numbered
  <2>3. CASE PrintsFirst
    BY <2>1, <2>2, <2>3 DEF Counted, NoneSkipped, Gapless
  <2>4. CASE ~PrintsFirst
    BY <2>1, <2>2, <2>4 DEF Counted, NoneSkipped, Given, Occurs
  <2> QED
    BY <2>3, <2>4
<1> QED
  BY Invariant, <1>1, PTL

(* When all have ended, a guarded counter holds every increment; any other *)
(* holds at most that, and no less than 2 once anyone counted twice.       *)
THEOREM CountInTheEnd == Spec => []FinalCount
<1>1. ASSUME IInv, Ended, NEW x \in Cells
      PROVE  LET turns == nloop * Cardinality({p \in Users(x) : pc[p] = "done"})
             IN /\ count[x] <= turns
                /\ Guarded(x) => count[x] = turns
                /\ turns > 0 /\ nloop > 1 => count[x] >= 2
  <2> USE <1>1 DEF IInv
  <2> DEFINE D == {p \in Users(x) : pc[p] = "done"}
             T == 0 .. nloop - 1
  <2>1. D \subseteq Procs /\ \A p \in Users(x) : p \in Procs
    BY DEF Users
  <2>2. \A p \in Procs : Turns(p) = IF pc[p] = "done" THEN nloop ELSE 0
    BY DEF Ended, Stages, Turns, Raised
  <2>3. Stores(x) = D \X T
    <3>1. \A u \in Procs \X T :
             cell[u[1]] = x /\ u[2] < Turns(u[1]) <=> u[1] \in D
      <4> TAKE u \in Procs \X T
      <4>1. u[1] \in Procs /\ u[2] \in 0 .. nloop - 1
        OBVIOUS
      <4>2. u[2] < nloop /\ ~ (u[2] < 0)
        BY <4>1
      <4> QED
        BY <2>2, <4>1, <4>2 DEF Users
    <3> QED
      BY <2>1, <3>1 DEF Stores
  <2>4. IsFiniteSet(D)
    BY <2>1, FS_Subset
  <2>5. IsFiniteSet(T) /\ Cardinality(T) = nloop
    <3>1. nloop - 1 >= 0 /\ (nloop - 1) - 0 + 1 = nloop
      OBVIOUS
    <3> QED
      BY <3>1, FS_Interval
  <2> HIDE DEF D, T
  <2>6. Cardinality(D) \in Nat /\ Cardinality(Stores(x)) = Cardinality(D) * nloop
    BY <2>3, <2>4, <2>5, FS_Product, FS_CardinalityType
  <2>7. Cardinality(Stores(x)) = nloop * Cardinality(D)
    BY <2>6
  <2>8. count[x] <= nloop * Cardinality(D)
    BY <2>7 DEF Counted, Bounded
  <2>9. Guarded(x) => count[x] = nloop * Cardinality(D)
    BY <2>7 DEF Guarded, OneLock, Counted, Exact
  <2>10. ASSUME nloop * Cardinality(D) > 0, nloop > 1
         PROVE  count[x] >= 2
    <3>1. D # {}
      <4>1. Cardinality({}) = 0 /\ nloop * 0 = 0
        BY FS_EmptySet
      <4> QED
        BY <2>10, <4>1
    <3>2. PICK p \in Users(x) : pc[p] = "done"
      BY <3>1 DEF D
    <3>3. p \in Procs /\ Turns(p) = nloop
      BY <2>1, <2>2, <3>2
    <3>4. count[x] # 0
      BY <3>2, <3>3 DEF Counted, NotReset
    <3>5. \A r \in Users(x) : Turns(r) # 1
      BY <2>1, <2>2, <2>10
    <3>6. count[x] # 1
      BY <2>10, <3>5 DEF Counted, NotReset
    <3> QED
      BY <3>4, <3>6, Typed
  <2> QED
    BY <2>8, <2>9, <2>10 DEF D
<1>2. IInv => FinalCount
  BY <1>1 DEF FinalCount
<1> QED
  BY Invariant, <1>2, PTL
----------------------------------------------------------------------------
(* The abstract service: what a process and a counter are in it.           *)
Counter == [p \in Procs |-> IF Opened(p) THEN cell[p] ELSE Absent]
LockOf == [p \in Procs |-> IF Opened(p) /\ Locks THEN sem[p] ELSE Absent]
TurnsOf == [p \in Procs |-> i[p] + (IF Raised(p) THEN 1 ELSE 0)]
Hand == [p \in Procs |-> IF Raising(p) THEN {seqno[p]} ELSE {}]
Owed == [p \in Procs |-> IF Owing(p) THEN {seqno[p]} ELSE {}]
Stays == UNCHANGED <<Counter, LockOf, TurnsOf, Hand, Owed, count, log>>
Same(q) == /\ Opened(q)' = Opened(q) /\ (Opened(q) => cell'[q] = cell[q] /\ sem'[q] = sem[q])
           /\ (Raising(q)' <=> Raising(q)) /\ (Owing(q)' <=> Owing(q)) /\ seqno'[q] = seqno[q]
           /\ TurnsOf[q]' = TurnsOf[q]

LEMMA GuardedIsLocked ==
    ASSUME IInv, NEW p \in Procs, cell[p] \in Cells, pc[p] \in {"load", "store", "print"},
           Service!Guarded(cell[p])
    PROVE  OneLock(cell[p])
<1>1. Absent \notin Cells
  BY Typed DEF IInv
<1>2. \A q \in Users(cell[p]) : pc[q] # "sem_open" =>
          q \in Procs /\ Opened(q) /\ cell[q] = cell[p]
  BY <1>1 DEF Users, Opened, IInv, Stages
<1>3. \A q \in Users(cell[p]) : pc[q] # "sem_open" => q \in Service!Attached(cell[p])
  BY <1>2 DEF Service!Attached
<1>4. p \in Users(cell[p])
  BY DEF Users
<1>5. Locks
  BY <1>3, <1>4 DEF Service!Guarded
<1>6. \A q \in Users(cell[p]) : pc[q] # "sem_open" =>
          (IF Opened(q) /\ Locks THEN sem[q] ELSE Absent) = sem[q]
  BY <1>2, <1>5
<1>7. ASSUME NEW q \in Users(cell[p]), NEW r \in Users(cell[p]),
             pc[q] # "sem_open", pc[r] # "sem_open"
      PROVE  sem[q] = sem[r]
  <2>1. q \in Procs /\ r \in Procs
    BY <1>2, <1>7
  <2>2. [b \in Procs |-> IF Opened(b) /\ Locks THEN sem[b] ELSE Absent][q]
         = [b \in Procs |-> IF Opened(b) /\ Locks THEN sem[b] ELSE Absent][r]
    BY <1>3, <1>7 DEF Service!Guarded
  <2> QED
    BY <1>6, <1>7, <2>1, <2>2
<1> QED
  BY <1>5, <1>7 DEF OneLock

(* Semaphores, and names that are not both open, are no part of it.        *)
LEMMA QuietStep ==
    ASSUME IInv,
           Server \/ \E p \in Procs : OpenShm(p) \/ Crash(p) \/ Lock(p) \/ Unlock(p)
    PROVE  Stays
<1>1. program' = program /\ Locks' = Locks /\ PrintsFirst' = PrintsFirst
      /\ count' = count /\ log' = log
  BY DEF Server, ServerStep, UnlinkShm, CreateShm, Truncate, UnlinkSem, CreateSem, RunAgain,
     OpenShm, Crash, Lock, Unlock, Step, Locks, PrintsFirst
<1>2. ASSUME NEW q \in Procs
      PROVE  Same(q)
  <2>1. CASE Server
    BY <1>1, <2>1 DEF Server, ServerStep, UnlinkShm, CreateShm, Truncate, UnlinkSem, CreateSem,
       RunAgain, Opened, TurnsOf, Raised, Raising, Owing,
       PrintsFirst, Same
  <2>2. ASSUME NEW p \in Procs, OpenShm(p)
        PROVE  Same(q)
    BY <1>1, <2>2 DEF OpenShm, Step, IInv, TypeOK, Stages, Opened, TurnsOf, Raised, Raising, Owing,
       PrintsFirst, Same
  <2>3. ASSUME NEW p \in Procs, Crash(p) \/ Lock(p)
        PROVE  Same(q)
    BY <1>1, <2>3 DEF Crash, Lock, Step, IInv, TypeOK, Opened, TurnsOf, Raised, Raising, Owing,
       PrintsFirst, Same
  <2>4. ASSUME NEW p \in Procs, Unlock(p)
        PROVE  Same(q)
    BY <1>1, <2>4, Typed DEF Unlock, Step, IInv, TypeOK, Opened, TurnsOf, Raised, Raising, Owing,
       PrintsFirst, Same
  <2> QED
    BY <2>1, <2>2, <2>3, <2>4
<1>3. Counter' = Counter /\ LockOf' = LockOf
  BY <1>1, <1>2 DEF Counter, LockOf, Same
<1>4. Hand' = Hand /\ Owed' = Owed
  BY <1>2 DEF Hand, Owed, Same
<1>5. TurnsOf' = TurnsOf
  BY <1>2 DEF TurnsOf, Same
<1> QED
  BY <1>1, <1>3, <1>4, <1>5 DEF Stays

(* The second name: from now on the process is attached.                   *)
LEMMA OpenAttaches == ASSUME IInv, NEW p \in Procs, OpenSem(p)
                      PROVE  Service!Attach(p) \/ Stays
<1>1. /\ program' = program /\ Locks' = Locks /\ PrintsFirst' = PrintsFirst
      /\ count' = count /\ log' = log
      /\ i' = i /\ seqno' = seqno /\ cell' = cell /\ sem' = [sem EXCEPT ![p] = semname]
      /\ pc[p] = "sem_open" /\ pc'[p] = "lock" /\ \A q \in Procs \ {p} : pc'[q] = pc[q]
      /\ sem \in [Procs -> Objects \cup {Absent}]
      /\ semname \in Objects \cup {Absent} /\ cell[p] \in Cells \cup {Absent}
  BY DEF OpenSem, Step, Locks, PrintsFirst, IInv, TypeOK
<1>2. \A q \in Procs \ {p} : pc'[q] = pc[q] /\ sem'[q] = sem[q] /\ Opened(q)' = Opened(q)
  BY <1>1 DEF Opened
<1>3. TurnsOf' = TurnsOf /\ Hand' = Hand /\ Owed' = Owed
  BY <1>1, <1>2 DEF TurnsOf, Hand, Owed, Raised, Raising, Owing
<1>4. ~ Opened(p) /\ (Opened(p)' <=> cell[p] # Absent)
  BY <1>1 DEF Opened
<1>5. CASE cell[p] = Absent
  <2>1. Counter' = Counter /\ LockOf' = LockOf
    BY <1>1, <1>2, <1>4, <1>5 DEF Counter, LockOf
  <2> QED
    BY <1>1, <1>3, <2>1 DEF Stays
<1>6. CASE cell[p] # Absent
  <2>1. Counter[p] = Absent /\ Counter' = [Counter EXCEPT ![p] = cell[p]]
    BY <1>1, <1>2, <1>4, <1>6 DEF Counter
  <2>2. LockOf' = [LockOf EXCEPT ![p] = IF Locks THEN semname ELSE Absent]
    BY <1>1, <1>2, <1>4, <1>6 DEF LockOf
  <2>3. cell[p] \in DOMAIN count
    BY <1>1, <1>6 DEF IInv, TypeOK
  <2> QED
    BY <1>1, <1>3, <2>1, <2>2, <2>3 DEF Service!Attach, Counter, LockOf, TurnsOf, Hand, Owed
<1> QED
  BY <1>5, <1>6

(* What the three steps of a turn have in common.                          *)
TurnStep(p, x) ==
    /\ UNCHANGED <<program, i, cell, sem>> /\ PrintsFirst' = PrintsFirst
    /\ Counter' = Counter /\ LockOf' = LockOf /\ Counter[p] = x /\ x \in Cells
    /\ \A q \in Procs \ {p} : pc'[q] = pc[q]
    /\ \A q \in Procs \ {p} : /\ Raised(q)' <=> Raised(q)
                              /\ Raising(q)' <=> Raising(q)
                              /\ Owing(q)' <=> Owing(q)

LEMMA TurnSteps == ASSUME IInv, NEW p \in Procs, Load(p) \/ Store(p) \/ Printf(p)
                   PROVE  TurnStep(p, cell[p])
<1>1. /\ UNCHANGED <<program, i, cell, sem>> /\ Locks' = Locks /\ PrintsFirst' = PrintsFirst
      /\ pc[p] \in {"load", "store", "print"} /\ pc'[p] \in {"store", "print", "unlock"}
      /\ \A q \in Procs \ {p} : pc'[q] = pc[q]
  BY DEF Load, Store, Printf, Step, Locks, PrintsFirst, IInv, TypeOK
<1>2. cell[p] \in Cells /\ cell[p] # Absent
  BY Typed DEF Load, Store, Printf, Step, IInv, TypeOK, Stages
<1>3. \A q \in Procs : Opened(q)' = Opened(q)
  BY <1>1 DEF Opened
<1>4. Counter' = Counter /\ LockOf' = LockOf /\ Counter[p] = cell[p]
  BY <1>1, <1>2, <1>3 DEF Counter, LockOf, Opened
<1> QED
  BY <1>1, <1>2, <1>4 DEF TurnStep, Raised, Raising, Owing

(* Taking: under one lock everything below it was shown.                   *)
LEMMA LoadTakes == ASSUME IInv, NEW p \in Procs, Load(p) PROVE Service!Take(p, cell[p])
<1> DEFINE x == cell[p]
<1>1. TurnStep(p, x)
  BY TurnSteps
<1>2. /\ UNCHANGED <<count, log>> /\ seqno' = [seqno EXCEPT ![p] = count[x]]
      /\ seqno \in [Procs -> Nat]
      /\ pc[p] = "load" /\ pc'[p] = (IF PrintsFirst THEN "print" ELSE "store")
  BY DEF Load, Loaded, Step, IInv, TypeOK
<1>3. TurnsOf' = TurnsOf /\ TurnsOf[p] < nloop
  <2>1. ~Raised(p) /\ ~Raised(p)' /\ i[p] \in Nat /\ i[p] < nloop
    BY <1>1, <1>2, Typed DEF IInv, Stages, Raised, TurnStep
  <2>2. TurnsOf[p] = i[p]
    BY <2>1 DEF TurnsOf
  <2>3. TurnsOf' = TurnsOf
    BY <1>1, <2>1 DEF TurnsOf, TurnStep
  <2> QED
    BY <2>1, <2>2, <2>3
<1>4. /\ Hand[p] = {} /\ Hand' = [Hand EXCEPT ![p] = {count[x]}]
      /\ Owed[p] = {} /\ Owed' = [Owed EXCEPT ![p] = {count[x]}]
  <2>1. ~Raising(p) /\ Raising(p)' /\ ~Owing(p) /\ Owing(p)'
    BY <1>1, <1>2 DEF Raising, Owing, TurnStep
  <2> QED
    BY <1>1, <1>2, <2>1 DEF Hand, Owed, TurnStep
<1>5. Service!Guarded(x) => Len(log[x]) = count[x]
  <2> SUFFICES ASSUME Service!Guarded(x) PROVE Len(log[x]) = count[x]
    OBVIOUS
  <2>1. OneLock(x) /\ p \in Users(x) /\ Counted(x)
    BY <1>1, <1>2, GuardedIsLocked DEF Users, TurnStep, IInv
  <2>2. \A q \in Users(x) : pc[q] # "print"
    BY <1>1, <1>2, <2>1, Alone DEF TurnStep
  <2> QED
    BY <2>1, <2>2 DEF Counted, Exact
<1> QED
  BY <1>1, <1>2, <1>3, <1>4, <1>5
     DEF Service!Take, Counter, LockOf, TurnsOf, Hand, Owed, TurnStep

(* Raising what was taken, which under one lock is still the value.        *)
LEMMA StoreRaises == ASSUME IInv, NEW p \in Procs, Store(p) PROVE Service!Raise(p, cell[p])
<1> DEFINE x == cell[p]
<1>1. TurnStep(p, x)
  BY TurnSteps
<1>2. /\ UNCHANGED <<seqno, log>> /\ count' = [count EXCEPT ![x] = seqno[p] + 1]
      /\ pc[p] = "store" /\ pc'[p] = (IF PrintsFirst THEN "unlock" ELSE "print")
  BY DEF Store, Stored, Step, IInv, TypeOK
<1>3. /\ Raising(p) /\ ~Raising(p)' /\ ~Raised(p) /\ Raised(p)' /\ (Owing(p)' <=> Owing(p))
  BY <1>1, <1>2 DEF Raising, Raised, Owing, TurnStep
<1>4. TurnsOf' = [TurnsOf EXCEPT ![p] = @ + 1]
  <2>1. \A q \in Procs : i[q] \in Nat /\ i'[q] = i[q] /\ i[q] + 0 = i[q]
    BY <1>1, Typed DEF IInv, TurnStep
  <2> QED
    BY <1>1, <1>3, <2>1 DEF TurnsOf, TurnStep
<1>5. Hand[p] = {seqno[p]} /\ Hand' = [Hand EXCEPT ![p] = {}] /\ Owed' = Owed
  BY <1>1, <1>2, <1>3 DEF Hand, Owed, TurnStep
<1>6. Service!Guarded(x) => seqno[p] = count[x]
  <2> SUFFICES ASSUME Service!Guarded(x) PROVE seqno[p] = count[x]
    OBVIOUS
  <2>1. OneLock(x) /\ p \in Users(x) /\ Counted(x)
    BY <1>1, <1>2, GuardedIsLocked DEF Users, TurnStep, IInv
  <2> QED
    BY <1>2, <2>1 DEF Counted, Exact
<1> QED
  BY <1>1, <1>2, <1>4, <1>5, <1>6
     DEF Service!Raise, Counter, LockOf, TurnsOf, Hand, Owed, TurnStep

(* Showing what was taken, which under one lock is the next to be shown.   *)
LEMMA PrintShows == ASSUME IInv, NEW p \in Procs, Printf(p) PROVE Service!Show(p, cell[p])
<1> DEFINE x == cell[p]
<1>1. TurnStep(p, x)
  BY TurnSteps
<1>2. /\ UNCHANGED <<seqno, count>> /\ log' = [log EXCEPT ![x] = Append(@, seqno[p])]
      /\ pc[p] = "print" /\ pc'[p] = (IF PrintsFirst THEN "store" ELSE "unlock")
  BY DEF Printf, Step, IInv, TypeOK
<1>3. /\ Owing(p) /\ ~Owing(p)' /\ (Raising(p)' <=> Raising(p)) /\ (Raised(p)' <=> Raised(p))
  BY <1>1, <1>2 DEF Raising, Raised, Owing, TurnStep
<1>4. TurnsOf' = TurnsOf /\ Hand' = Hand
  BY <1>1, <1>2, <1>3 DEF TurnsOf, Hand, TurnStep
<1>5. Owed[p] = {seqno[p]} /\ Owed' = [Owed EXCEPT ![p] = {}]
  BY <1>1, <1>2, <1>3 DEF Owed, TurnStep
<1>6. Service!Guarded(x) => seqno[p] = Len(log[x])
  <2> SUFFICES ASSUME Service!Guarded(x) PROVE seqno[p] = Len(log[x])
    OBVIOUS
  <2>1. OneLock(x) /\ p \in Users(x) /\ Counted(x)
    BY <1>1, <1>2, GuardedIsLocked DEF Users, TurnStep, IInv
  <2> QED
    BY <1>2, <2>1 DEF Counted, Exact
<1> QED
  BY <1>1, <1>2, <1>4, <1>5, <1>6
     DEF Service!Show, Counter, LockOf, TurnsOf, Hand, Owed, TurnStep

LEMMA StepService == IInv /\ [Next]_vars => [Service!Next]_(Service!vars)
<1> SUFFICES ASSUME IInv, [Next]_vars PROVE [Service!Next]_(Service!vars)
  OBVIOUS
<1>1. Stays => UNCHANGED Service!vars
  BY DEF Stays, Service!vars, Counter, LockOf, TurnsOf, Hand, Owed
<1>2. ASSUME NEW p \in Procs, Load(p) \/ Store(p) \/ Printf(p) PROVE Service!Next
  <2>1. cell[p] \in DOMAIN count
    BY <1>2, TurnSteps DEF TurnStep, IInv, TypeOK
  <2>2. Service!Take(p, cell[p]) \/ Service!Raise(p, cell[p]) \/ Service!Show(p, cell[p])
    BY <1>2, LoadTakes, StoreRaises, PrintShows
  <2>3. \E x \in DOMAIN count : Service!Take(p, x) \/ Service!Raise(p, x) \/ Service!Show(p, x)
    BY <2>1, <2>2 DEF Service!Take, Service!Raise, Service!Show
  <2> QED
    BY <2>3 DEF Service!Next
<1>3. ASSUME NEW p \in Procs, OpenSem(p) PROVE Service!Next \/ Stays
  BY <1>3, OpenAttaches DEF Service!Next
<1>4. ASSUME NEW p \in Procs, OpenShm(p) \/ Crash(p) \/ Lock(p) \/ Unlock(p) PROVE Stays
  BY <1>4, QuietStep
<1>5. CASE Server
  BY <1>1, <1>5, QuietStep
<1>6. CASE UNCHANGED vars
  BY <1>6 DEF vars, serverVars, Service!vars, Opened, Locks, Raised, Raising, Owing, PrintsFirst
<1> QED
  BY <1>1, <1>2, <1>3, <1>4, <1>5, <1>6 DEF Next, Process

(* The programs implement CounterService.  Where all who count in a place  *)
(* have one semaphore, sem_wait to sem_post is one addition; lockmain, and *)
(* clients that met server1 between the two names, may undo each other's.  *)
THEOREM Refinement == Spec => ImplementsService
<1>1. Init => Service!Init
  <2>1. ASSUME Init PROVE Service!Init
    <3>1. DOMAIN count = Cells /\ \A p \in Procs : pc[p] \in {"shm_open", "lock"}
      BY <2>1 DEF Init
    <3>2. \A p \in Procs : Opened(p) => cell[p] \in Cells
      BY <2>1 DEF Init, Opened, Cells, Objects, Programs
    <3>3. \A p \in Procs : Opened(p) => sem[p] \in Objects
      BY <2>1 DEF Init, Opened, Objects, Programs
    <3>4. [p \in Procs |-> i[p] + (IF Raised(p) THEN 1 ELSE 0)] = [p \in Procs |-> 0]
      BY <2>1, <3>1 DEF Init, Raised
    <3>5. /\ [p \in Procs |-> IF Raising(p) THEN {seqno[p]} ELSE {}] = [p \in Procs |-> {}]
          /\ [p \in Procs |-> IF Owing(p) THEN {seqno[p]} ELSE {}] = [p \in Procs |-> {}]
      BY <3>1 DEF Raising, Owing
    <3>6. count = [x \in DOMAIN count |-> 0] /\ log = [x \in DOMAIN count |-> << >>]
      BY <2>1 DEF Init
    <3> QED
      BY <3>1, <3>2, <3>3, <3>4, <3>5, <3>6 DEF Service!Init
  <2> QED
    BY <2>1
<1> QED
  BY Invariant, <1>1, StepService, PTL DEF Spec, ImplementsService, Service!Spec

----------------------------------------------------------------------------
(* What Finish says of processes that wait, without its fairness.          *)
Runs(p) == \/ pc[p] \in {"shm_open", "sem_open", "load", "store", "print", "unlock"}
           \/ pc[p] = "lock" /\ (sem[p] = Absent \/ Obtainable(sem[p]))
WaitsForTheDead(p) == /\ program = "client1" /\ pc[p] = "lock"
                      /\ \E q \in Procs : pc[q] = "crashed" /\ mutex[sem[p]] = q
FinishedAtRest == \/ \E p \in Procs : Runs(p)
                  \/ \A p \in Procs : pc[p] \in {"done", "crashed"} \/ WaitsForTheDead(p)

(* A semaphore is with a process that is going to post it or has crashed,  *)
(* and only client1 finds what server1 has not made yet.                   *)
Holders == Locks => \A s \in Objects : \A q \in Procs :
               mutex[s] = q => sem[q] = s /\ pc[q] \in {"load", "store", "print", "unlock", "crashed"}
Built == program # "client1" => \A p \in Procs : /\ cell[p] \in sized /\ sem[p] # Absent
                                                 /\ pc[p] # "crashed"

LEMMA HoldersInit == Init => Holders /\ Built
<1> SUFFICES ASSUME Init PROVE Holders /\ Built
  OBVIOUS
<1>1. Holders
  BY DEF Init, Holders
<1>2. ASSUME program # "client1", NEW p \in Procs
      PROVE  cell[p] \in sized /\ sem[p] # Absent /\ pc[p] # "crashed"
  <2>1. 1 \in Objects /\ 1 # Absent
    BY DEF Objects, Absent
  <2> QED
    BY <1>2, <2>1 DEF Init, Cells
<1> QED
  BY <1>1, <1>2 DEF Built

LEMMA HoldersStep == IInv /\ Holders /\ Built /\ [Next]_vars => Holders' /\ Built'
<1> SUFFICES ASSUME IInv, Holders, Built, [Next]_vars PROVE Holders' /\ Built'
  OBVIOUS
<1>1. CASE Server \/ UNCHANGED vars
  <2>1. UNCHANGED <<program, cell, sem, pc, mutex>> /\ sized \subseteq sized'
    BY <1>1 DEF Server, UnlinkShm, CreateShm, Truncate, UnlinkSem, CreateSem, RunAgain,
                ServerStep, vars, serverVars
  <2> QED
    BY <2>1 DEF Holders, Built, Locks
<1>2. ASSUME NEW p \in Procs, Process(p) PROVE Holders' /\ Built'
  <2>1. /\ UNCHANGED <<program, sized>> /\ p # Free
        /\ \A q \in Procs \ {p} : pc'[q] = pc[q]
        /\ mutex \in [Objects -> Procs \cup {Free}]
        /\ pc \in [Procs -> {"shm_open", "sem_open", "lock", "load", "store", "print",
                             "unlock", "done", "crashed"}]
    <3>1. /\ p # Free /\ mutex \in [Objects -> Procs \cup {Free}]
          /\ pc \in [Procs -> {"shm_open", "sem_open", "lock", "load", "store", "print",
                               "unlock", "done", "crashed"}]
      BY DEF IInv, TypeOK
    <3>2. /\ UNCHANGED <<program, sized>>
          /\ \E to : pc' = [pc EXCEPT ![p] = to]
      BY <1>2 DEF Process, OpenShm, OpenSem, Crash, Lock, Load, Store, Printf, Unlock,
         Step, serverVars
    <3> QED
      BY <3>1, <3>2
  <2>2. CASE OpenShm(p)
    <3>1. /\ UNCHANGED <<sem, mutex>> /\ pc[p] = "shm_open" /\ program = "client1"
      BY <2>2 DEF OpenShm, Step, IInv, Roles
    <3> QED
      BY <2>1, <3>1 DEF Holders, Built, Locks
  <2>3. CASE OpenSem(p)
    <3>1. /\ UNCHANGED mutex /\ pc[p] = "sem_open" /\ program = "client1"
          /\ \A q \in Procs \ {p} : sem'[q] = sem[q]
      BY <2>3 DEF OpenSem, Step, IInv, TypeOK, Roles
    <3> QED
      BY <2>1, <3>1 DEF Holders, Built, Locks
  <2>4. CASE Crash(p)
    <3>1. /\ UNCHANGED <<cell, sem, mutex>> /\ pc'[p] = "crashed" /\ program = "client1"
      BY <2>1, <2>4 DEF Crash, Step, Built
    <3> QED
      BY <2>1, <3>1 DEF Holders, Built, Locks
  <2>5. CASE Load(p) \/ Store(p) \/ Printf(p)
    <3>1. /\ UNCHANGED <<cell, sem, mutex>> /\ pc'[p] \in {"store", "print", "unlock"}
      BY <2>1, <2>5 DEF Load, Store, Printf, Step
    <3> QED
      BY <2>1, <3>1 DEF Holders, Built, Locks
  <2>6. CASE Lock(p)
    <3>1. /\ UNCHANGED <<cell, sem>> /\ pc[p] = "lock" /\ pc'[p] = "load"
          /\ \A s \in Objects : \/ mutex'[s] = mutex[s]
                                \/ mutex'[s] = p /\ s = sem[p]
      BY <2>1, <2>6 DEF Lock, Step
    <3> QED
      BY <2>1, <3>1 DEF Holders, Built, Locks
  <2>7. CASE Unlock(p)
    <3>1. /\ UNCHANGED <<cell, sem>> /\ pc[p] = "unlock" /\ pc'[p] # "crashed"
          /\ mutex' = IF Locks THEN [mutex EXCEPT ![sem[p]] = Free] ELSE mutex
      BY <2>1, <2>7 DEF Unlock, Step, Released
    <3> QED
      BY <2>1, <3>1 DEF Holders, Built, Locks
  <2> QED
    BY <1>2, <2>2, <2>3, <2>4, <2>5, <2>6, <2>7 DEF Process
<1> QED
  BY <1>1, <1>2 DEF Next

(* When no process can go on, each has finished, has crashed on what       *)
(* server1 had not made yet, or waits for a semaphore that a crashed one   *)
(* took with it; of the other programs all have finished.                  *)
THEOREM OnlyTheDeadKeepWaiting == Spec => []FinishedAtRest
<1>1. IInv /\ Holders /\ Built => FinishedAtRest
  <2> SUFFICES ASSUME IInv, Holders, Built, \A p \in Procs : ~Runs(p),
                      NEW p \in Procs, pc[p] \notin {"done", "crashed"}
               PROVE  WaitsForTheDead(p)
    BY DEF FinishedAtRest
  <2>1. pc[p] = "lock" /\ sem[p] \in Objects /\ ~Obtainable(sem[p])
    BY DEF IInv, TypeOK, Runs
  <2>2. PICK q \in Procs : mutex[sem[p]] = q
    BY <2>1 DEF IInv, TypeOK, Obtainable
  <2>3. pc[q] = "crashed"
    BY <2>1, <2>2 DEF Holders, Runs, Obtainable
  <2> QED
    BY <2>1, <2>2, <2>3 DEF Built, WaitsForTheDead
<1> QED
  BY <1>1, Invariant, HoldersInit, HoldersStep, PTL DEF Spec
=============================================================================
