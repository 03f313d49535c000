--------------------------- MODULE RecordLockProof --------------------------
(***************************************************************************)
(* RecordLock for any number of instances and of kills: what the programs  *)
(* tell about their locks, and what the pid file says.                     *)
(***************************************************************************)
EXTENDS RecordLock, FiniteSetTheorems, TLAPS

(* The lock table: locks of their own type, no two in conflict, held at no *)
(* other points than those between a lock that was granted and the end.    *)
LockTable == /\ \A p \in Procs : held[p] \in {"none", Type(p)}
             /\ \A p, q \in Procs : p # q => ~Conflict(held[p], held[q])
             /\ \A p \in Procs : held[p] # "none" =>
                   pc[p] \in {"fork1", "fork2", "hold", "truncate", "write", "pause"}

(* Who goes on without its lock was refused it, and only parents are.      *)
Granted == /\ refused \subseteq Parents
           /\ \A p \in Procs : pc[p] \in {"fork1", "fork2", "hold"} =>
                 held[p] = Type(p) \/ p \in refused

(* A child is there only after its parent's attempt at a lock.             *)
Family == \A p \in Procs :
    /\ pc[p] # "none" => pc[<<p[1], 0>>] # "open"
                         \/ p \in Parents
    /\ p \in Children /\ pc[<<p[1], 0>>] = "lock" => pc[p] = "none"

(* A daemon past its lock is a parent that has it.                         *)
Daemons == \A p \in Procs : pc[p] \in {"truncate", "write", "pause"} =>
    /\ p \in Parents /\ program = "onedaemon" /\ held[p] = "write"
    /\ pc[p] = "write" => pidfile = {}
    /\ pc[p] = "pause" => pidfile = {p[1]}

IInv == /\ TypeOK /\ LockTable /\ Granted /\ Family /\ Daemons
        /\ \A p \in refused : Second(p)

USE LockAssumption

(* The processes of an instance: a parent and its two children.            *)
LEMMA ProcsShape ==
    /\ Parents \cap Children = {} /\ Procs = Parents \cup Children
    /\ \A p \in Procs : p[1] \in Runs /\ <<p[1], 0>> \in Parents
    /\ \A p \in Parents : p = <<p[1], 0>>
    /\ \A p \in Parents, k \in {1, 2} : <<p[1], k>> \in Children
    /\ \A p \in Children : p[2] \in {1, 2} /\ p = <<p[1], p[2]>>
  BY DEF Parents, Children, Procs

LEMMA TypeOfLock ==
    /\ \A p \in Procs : Type(p) \in {"read", "write"}
    /\ program = "onedaemon" => \A p \in Parents : Type(p) = "write"
  BY ProcsShape DEF Type

LEMMA InitInv == Init => IInv
<1> SUFFICES ASSUME Init PROVE IInv
  OBVIOUS
<1>1. TypeOK
  BY ProcsShape DEF Init, TypeOK
<1>2. LockTable /\ Granted /\ Family /\ Daemons /\ \A p \in refused : Second(p)
  BY ProcsShape DEF Init, LockTable, Granted, Family, Daemons, Conflict, Parents
<1> QED
  BY <1>1, <1>2 DEF IInv

(* Who was started stays so.                                               *)
LEMMA SecondStays ==
    ASSUME NEW p, Second(p), \A q \in Parents : pc[q] # "open" => pc'[q] # "open"
    PROVE  Second(p)'
  BY DEF Second

LEMMA OpenInv == ASSUME IInv, NEW p \in Procs, Open(p) PROVE IInv'
<1> USE DEF Go
<1>1. TypeOK'
  BY DEF IInv, TypeOK, Open, Opened
<1>2. LockTable'
  BY ProcsShape, TypeOfLock DEF IInv, TypeOK, LockTable, Open, Type
<1>3. Granted'
  BY DEF IInv, TypeOK, Granted, Open, Type
<1>4. Family'
  BY ProcsShape DEF IInv, TypeOK, Family, Open
<1>5. Daemons'
  BY DEF IInv, TypeOK, Daemons, Open, Opened
<1>6. \A q \in refused' : Second(q)'
  BY SecondStays, ProcsShape DEF IInv, TypeOK, Open
<1> QED
  BY <1>1, <1>2, <1>3, <1>4, <1>5, <1>6 DEF IInv

(* A lock: granted if it conflicts with none that is held, else refused to *)
(* a parent, whose own children are not there yet.                         *)
LEMMA LockInv == ASSUME IInv, NEW p \in Procs, Lock(p) PROVE IInv'
<1> USE DEF Go
<1>1. TypeOK'
  BY ProcsShape, TypeOfLock DEF IInv, TypeOK, Lock, AfterLock
<1>2. LockTable'
  <2>1. \A q \in Procs : Type(q)' = Type(q)
    BY DEF Lock, Type
  <2>2. CASE Grantable(p)
    <3>1. pc'[p] \in {"fork1", "hold", "truncate"}
      BY <2>2 DEF Lock, AfterLock, IInv, TypeOK
    <3>2. \A q \in Procs \ {p} : ~Conflict(Type(p), held[q]) /\ ~Conflict(held[q], Type(p))
      BY <2>2 DEF Grantable, Conflict
    <3>3. held' = [held EXCEPT ![p] = Type(p)]
      BY <2>2 DEF Lock
    <3> QED
      BY <2>1, <3>1, <3>2, <3>3 DEF Lock, IInv, TypeOK, LockTable, Conflict
  <2>3. CASE ~Grantable(p)
    <3>1. held' = held /\ held[p] = "none"
      BY <2>3 DEF Lock, IInv, LockTable
    <3> QED
      BY <2>1, <3>1 DEF Lock, IInv, TypeOK, LockTable, Conflict
  <2> QED
    BY <2>2, <2>3
<1>r. ~Grantable(p) => p \in Parents
  BY ProcsShape DEF Lock, Cmd
<1>3. Granted'
  <2>1. \A q \in Procs : Type(q)' = Type(q)
    BY DEF Lock, Type
  <2>2. \A q \in Procs \ {p} : held'[q] = held[q] /\ pc'[q] = pc[q]
    BY DEF Lock, IInv, TypeOK
  <2>3. Grantable(p) => held'[p] = Type(p)
    BY DEF Lock, IInv, TypeOK
  <2>4. refused' = IF Grantable(p) THEN refused ELSE refused \cup {p}
    BY DEF Lock
  <2> QED
    BY <1>r, <2>1, <2>2, <2>3, <2>4 DEF IInv, Granted
<1>4. Family'
  BY ProcsShape DEF IInv, TypeOK, Family, Lock, AfterLock
<1>5. Daemons'
  <2>1. \A q \in Procs \ {p} : held'[q] = held[q] /\ pc'[q] = pc[q]
    BY DEF Lock, IInv, TypeOK
  <2>2. pc'[p] \notin {"write", "pause"} /\ UNCHANGED <<pidfile, program>>
    BY DEF Lock, AfterLock, IInv, TypeOK
  <2>3. pc'[p] = "truncate" =>
           p \in Parents /\ program = "onedaemon" /\ held'[p] = "write"
    BY ProcsShape, TypeOfLock DEF Lock, AfterLock, IInv, TypeOK
  <2> QED
    BY <2>1, <2>2, <2>3 DEF IInv, Daemons
<1>6. \A q \in refused' : Second(q)'
  <2>1. \A q \in Parents : pc[q] # "open" => pc'[q] # "open"
    BY ProcsShape DEF Lock, AfterLock, IInv, TypeOK
  <2>2. \A q \in refused : Second(q)'
    BY <2>1, SecondStays DEF IInv
  <2>3. ASSUME ~Grantable(p) PROVE Second(p)
    <3>1. PICK q \in Procs \ {p} : held[q] # "none"
      BY <2>3 DEF Grantable, Conflict
    <3>2. pc[q] \notin {"none", "open", "lock"}
      BY <3>1 DEF IInv, LockTable
    <3>3. CASE q \in Parents
      BY <3>1, <3>2, <3>3 DEF Second
    <3>4. CASE q \in Children
      <4>1. <<q[1], 0>> \in Parents /\ pc[<<q[1], 0>>] \notin {"open", "lock"}
        BY <3>1, <3>2, <3>4, ProcsShape DEF IInv, Family
      <4>2. <<q[1], 0>> # p
        BY <4>1 DEF Lock
      <4> QED
        BY <4>1, <4>2 DEF Second
    <3> QED
      BY <3>3, <3>4, ProcsShape
  <2> QED
    BY <2>1, <2>2, <2>3, SecondStays DEF Lock
<1> QED
  BY <1>1, <1>2, <1>3, <1>4, <1>5, <1>6 DEF IInv

(* A fork leaves every lock where it is: the child has none.               *)
LEMMA ForkInv == ASSUME IInv, NEW p \in Procs, NEW k \in {1, 2}, Fork(p, k) PROVE IInv'
<1> DEFINE c == <<p[1], k>>
<1>0. PICK born \in {"lock", "none"} :
         /\ pc' = [pc EXCEPT ![p] = IF k = 1 THEN "fork2" ELSE "hold", ![c] = born]
         /\ held' = [held EXCEPT ![c] = "none"]
  BY DEF Fork, Inherited
<1>a. /\ p \in Parents /\ c \in Children /\ p \in Procs /\ c \in Procs /\ c # p
      /\ pc[p] \in {"fork1", "fork2"}
  <2>1. p \in Parents /\ pc[p] \in {"fork1", "fork2"}
    BY DEF Fork
  <2>2. c \in Children
    BY <2>1, ProcsShape
  <2> QED
    BY <2>1, <2>2, ProcsShape
<1>b. UNCHANGED <<program, pidfile, refused, killed>>
  BY DEF Fork
<1>c. /\ pc'[p] \in {"fork2", "hold"} /\ pc'[c] = born /\ held'[p] = held[p] /\ held'[c] = "none"
      /\ \A q \in Procs \ {p, c} : pc'[q] = pc[q] /\ held'[q] = held[q]
  BY <1>0, <1>a DEF IInv, TypeOK
<1> HIDE DEF c
<1>1. TypeOK'
  BY <1>0, <1>a, <1>b DEF IInv, TypeOK
<1>t. \A q \in Procs : Type(q)' = Type(q)
  BY <1>b DEF Type
<1>2. LockTable'
  BY <1>a, <1>c, <1>t DEF IInv, LockTable, Conflict
<1>3. Granted'
  BY <1>a, <1>b, <1>c, <1>t DEF IInv, Granted
<1>4. Family'
  <2>1. <<c[1], 0>> = p
    BY <1>a, ProcsShape DEF c
  <2>2. ASSUME NEW q \in Procs
        PROVE  /\ pc'[q] # "none" => pc'[<<q[1], 0>>] # "open" \/ q \in Parents
               /\ q \in Children /\ pc'[<<q[1], 0>>] = "lock" => pc'[q] = "none"
    <3> DEFINE r == <<q[1], 0>>
    <3>1. r \in Parents /\ r \in Procs /\ r # c
      BY <1>a, ProcsShape
    <3>2. CASE r = p
      BY <1>c, <3>2
    <3>3. CASE r # p
      <4>1. q # c /\ pc'[r] = pc[r]
        BY <1>c, <2>1, <3>1, <3>3
      <4> HIDE DEF r
      <4>2. q = p \/ pc'[q] = pc[q]
        BY <1>c, <4>1
      <4> QED
        BY <1>a, <4>1, <4>2, ProcsShape DEF IInv, Family, r
    <3> QED
      BY <3>2, <3>3
  <2> QED
    BY <2>2 DEF Family
<1>5. Daemons'
  BY <1>a, <1>b, <1>c DEF IInv, Daemons
<1>6. \A q \in refused' : Second(q)'
  BY <1>a, <1>b, <1>c, SecondStays, ProcsShape DEF IInv
<1> QED
  BY <1>1, <1>2, <1>3, <1>4, <1>5, <1>6 DEF IInv

(* The other steps of one process p: it moves on, keeping its lock or not. *)
LEMMA MoveInv ==
    ASSUME IInv, NEW p \in Procs, Unlock(p) \/ Kill(p) \/ Truncate(p) \/ WritePid(p)
    PROVE  IInv'
<1> USE DEF Go
<1>a. /\ UNCHANGED <<program, refused>>
      /\ \A q \in Procs : Type(q)' = Type(q)
  BY DEF Unlock, Kill, Truncate, WritePid, Type
<1>b. \A q \in Procs \ {p} : held'[q] = held[q] /\ pc'[q] = pc[q]
  BY DEF Unlock, Kill, Truncate, WritePid, IInv, TypeOK
<1>c. \/ /\ pc'[p] = "done" /\ held'[p] = "none" /\ UNCHANGED pidfile
         /\ pc[p] \notin {"none", "open", "done"}
      \/ pc[p] = "truncate" /\ pc'[p] = "write" /\ held'[p] = held[p] /\ pidfile' = {}
      \/ /\ pc[p] = "write" /\ pc'[p] = "pause" /\ held'[p] = held[p]
         /\ pidfile' = pidfile \cup {p[1]}
  BY DEF Unlock, Kill, Truncate, WritePid, IInv, TypeOK
<1>1. TypeOK'
  <2>1. p[1] \in Runs /\ TypeOK
    BY ProcsShape DEF IInv
  <2>2. pidfile' \subseteq Runs \cup {Stale} /\ killed' \in 0 .. MaxKilled
    BY <2>1 DEF Unlock, Kill, Truncate, WritePid, TypeOK
  <2> QED
    BY <2>1, <2>2 DEF Unlock, Kill, Truncate, WritePid, TypeOK
<1>2. LockTable'
  BY <1>a, <1>b, <1>c DEF IInv, LockTable, Conflict
<1>3. Granted'
  BY <1>a, <1>b, <1>c DEF IInv, Granted
<1>4. Family'
  BY <1>b, <1>c, ProcsShape DEF IInv, Family
<1>5. Daemons'
  <2>1. ASSUME pc[p] \in {"truncate", "write"}, NEW q \in Procs \ {p}
        PROVE  pc[q] \notin {"truncate", "write", "pause"}
    BY <2>1 DEF IInv, Daemons, LockTable, Conflict
  <2> QED
    BY <1>a, <1>b, <1>c, <2>1 DEF IInv, Daemons
<1>6. \A q \in refused' : Second(q)'
  <2>1. \A q \in Parents : pc[q] # "open" => pc'[q] # "open"
    BY <1>b, <1>c, ProcsShape
  <2> QED
    BY <1>a, <2>1, SecondStays DEF IInv
<1> QED
  BY <1>1, <1>2, <1>3, <1>4, <1>5, <1>6 DEF IInv

LEMMA StepInv == ASSUME IInv, [Next]_vars PROVE IInv'
<1>1. CASE UNCHANGED vars
  BY <1>1 DEF vars, IInv, TypeOK, LockTable, Granted, Family, Daemons, Second, Type, Conflict
<1>2. ASSUME NEW p \in Procs, Open(p) \/ Process(p) \/ Kill(p) PROVE IInv'
  BY <1>2, OpenInv, LockInv, ForkInv, MoveInv DEF Process
<1> QED
  BY <1>1, <1>2 DEF Next

LEMMA Invariant == Spec => []IInv
  BY InitInv, StepInv, PTL DEF Spec

(* ClaimsHold: a process that tells it has its lock is in conflict with no *)
(* other that does, unless a refused parent is among them, which takes a   *)
(* second instance.                                                        *)
THEOREM LocksMeanWhatIsTold == Spec => []ClaimsHold
<1>1. ASSUME IInv PROVE ClaimsHold
  <2>1. TypeOK /\ \A p \in refused : Second(p)
    BY <1>1 DEF IInv
  <2>2. ASSUME NEW p \in Procs, NEW q \in Procs, p # q, Conflict(Tells(p), Tells(q))
        PROVE  refused \cap Parents \cap {p, q} # {}
    <3>1. ~Conflict(held[p], held[q])
      BY <1>1, <2>2 DEF IInv, LockTable
    <3>2. \A r \in {p, q} : Tells(r) = held[r] \/ Tells(r) = "none" \/ r \in refused \cap Parents
      BY <1>1 DEF IInv, Granted, Tells
    <3> QED
      BY <2>2, <3>1, <3>2 DEF Conflict
  <2> QED
    BY <2>1, <2>2 DEF ClaimsHold
<1> QED
  BY <1>1, Invariant, PTL

(* PidFileTrue: the pid file holds the pid of the daemon that waits in     *)
(* pause(), whoever else is started, refused or killed.                    *)
THEOREM PidFileIsTrue == Spec => []PidFileTrue
<1>1. IInv => PidFileTrue
  BY ProcsShape DEF IInv, Daemons, PidFileTrue
<1> QED
  BY <1>1, Invariant, PTL

(* onedaemon.c runs once: the daemon that got the lock is alone until it   *)
(* ends.                                                                   *)
OneDaemon == \A p, q \in Parents :
    {pc[p], pc[q]} \subseteq {"truncate", "write", "pause"} => p = q
THEOREM OnlyOneDaemon == Spec => []OneDaemon
<1>1. IInv => OneDaemon
  BY ProcsShape DEF IInv, Daemons, LockTable, Conflict, OneDaemon
<1> QED
  BY <1>1, Invariant, PTL

(* What a process can do next, and the state Settles promises to come to.  *)
LockRuns(p) == \/ pc[p] \in {"fork1", "fork2", "hold", "truncate", "write"}
               \/ pc[p] = "lock" /\ (Cmd(p) = "F_SETLKW" => Grantable(p))
Settled == /\ \A p \in Procs : pc[p] \in {"none", "open", "done", "pause"}
           /\ Cardinality({p \in Procs : pc[p] = "pause"}) <= 1
           /\ program = "onedaemon" /\ refused # {} /\ killed = 0
                 => \E p \in Parents : pc[p] = "pause"
SettledAtRest == (\E p \in Procs : LockRuns(p)) \/ Settled

(* A daemon does not fork, and one that is refused has another one to      *)
(* thank for it, which ends by a signal only.                              *)
Successor == program = "onedaemon" =>
    /\ \A p \in Procs : /\ pc[p] \notin {"fork1", "fork2", "hold"}
                        /\ p \in Children => pc[p] = "none"
    /\ refused # {} /\ killed = 0 => \E p \in Parents : pc[p] \in {"truncate", "write", "pause"}

LEMMA SuccessorInv == ASSUME IInv, Successor, [Next]_vars PROVE Successor'
<1> USE DEF Go
<1>1. CASE UNCHANGED vars
  BY <1>1 DEF vars, Successor
<1>2. ASSUME NEW p \in Procs, Open(p) \/ Process(p) \/ Kill(p), program' = "onedaemon"
      PROVE  Successor'
  <2>1. /\ program = "onedaemon" /\ pc = [q \in Procs |-> pc[q]] /\ killed \in Nat
        /\ \A q \in Procs : /\ pc[q] \notin {"fork1", "fork2", "hold"}
                            /\ q \in Children => pc[q] = "none"
        /\ refused # {} /\ killed = 0 =>
              \E q \in Parents : pc[q] \in {"truncate", "write", "pause"}
    <3>1. program = "onedaemon"
      BY <1>2 DEF Open, Process, Lock, Fork, Unlock, Truncate, WritePid, Kill
    <3>2. pc = [q \in Procs |-> pc[q]] /\ killed \in Nat
      BY LockAssumption DEF IInv, TypeOK
    <3> QED
      BY <3>1, <3>2 DEF Successor
  <2>2. p \in Parents /\ pc[p] \notin {"none", "fork1", "fork2", "hold"}
    BY <1>2, <2>1, ProcsShape DEF Open, Process, Lock, Fork, Unlock, Truncate, WritePid, Kill
  <2>3. /\ \A q \in Procs \ {p} : pc'[q] = pc[q]
        /\ pc'[p] \in {"lock", "truncate", "write", "pause", "done"}
    BY <1>2, <2>1, <2>2, ProcsShape
       DEF Open, Process, Lock, AfterLock, Fork, Unlock, Truncate, WritePid, Kill
  <2>4. ASSUME refused' # {}, killed' = 0
        PROVE  \E q \in Parents : pc'[q] \in {"truncate", "write", "pause"}
    <3>1. ~Kill(p) /\ killed = 0
      BY <2>1, <2>4, <1>2 DEF Open, Process, Lock, Fork, Unlock, Truncate, WritePid, Kill
    <3>2. ASSUME refused # {} PROVE \E q \in Parents : pc'[q] \in {"truncate", "write", "pause"}
      <4>1. PICK q \in Parents : pc[q] \in {"truncate", "write", "pause"}
        BY <2>1, <3>1, <3>2
      <4>2. q = p => pc'[q] \in {"truncate", "write", "pause"}
        BY <1>2, <2>1, <2>2, <3>1, <4>1, ProcsShape
           DEF Open, Process, Lock, Fork, Unlock, Truncate, WritePid
      <4> QED
        BY <2>3, <4>1, <4>2, ProcsShape
    <3>3. ASSUME refused = {} PROVE \E q \in Parents : pc'[q] \in {"truncate", "write", "pause"}
      <4>1. Lock(p) /\ ~Grantable(p)
        BY <1>2, <2>4, <3>1, <3>3 DEF Open, Process, Lock, Fork, Unlock, Truncate, WritePid
      <4>2. PICK q \in Procs \ {p} : held[q] # "none"
        BY <4>1 DEF Grantable, Conflict
      <4>3. pc[q] \in {"truncate", "write", "pause"} /\ q \in Parents
        BY <2>1, <4>2, ProcsShape DEF IInv, LockTable
      <4> QED
        BY <2>3, <4>2, <4>3
    <3> QED
      BY <3>2, <3>3
  <2> QED
    BY <2>1, <2>2, <2>3, <2>4, ProcsShape DEF Successor
<1> QED
  BY <1>1, <1>2 DEF Next, Successor

(* Processes never wait for each other's locks for ever: when none can go  *)
(* on all have ended but at most one daemon, which is there if another one *)
(* was refused and none was killed.                                        *)
THEOREM LocksComeFree == Spec => []SettledAtRest
<1>1. ASSUME IInv, Successor, \A p \in Procs : ~LockRuns(p) PROVE Settled
  <2>1. \A p \in Procs : pc[p] \in {"none", "open", "lock", "pause", "done"}
    BY <1>1 DEF IInv, TypeOK, LockRuns
  <2>2. ASSUME NEW p \in Procs, pc[p] = "lock" PROVE FALSE
    <3>1. Cmd(p) = "F_SETLKW" /\ ~Grantable(p)
      BY <1>1, <2>2 DEF LockRuns
    <3>2. p \in Children
      BY <3>1, ProcsShape DEF Cmd
    <3>3. PICK q \in Procs : held[q] # "none"
      BY <3>1 DEF Grantable, Conflict
    <3>4. pc[q] = "pause"
      BY <1>1, <2>1, <3>3 DEF IInv, LockTable
    <3>5. program = "onedaemon"
      BY <1>1, <3>4 DEF IInv, Daemons
    <3> QED
      BY <1>1, <2>2, <3>2, <3>5 DEF Successor
  <2>3. Cardinality({p \in Procs : pc[p] = "pause"}) <= 1
    <3>1. ASSUME NEW p \in Procs, pc[p] = "pause" PROVE {q \in Procs : pc[q] = "pause"} = {p}
      <4>1. \A q \in Procs : pc[q] = "pause" => q \in Parents /\ held[q] = "write"
        BY <1>1 DEF IInv, Daemons
      <4> QED
        BY <1>1, <3>1, <4>1 DEF IInv, LockTable, Conflict
    <3>2. CASE \E p \in Procs : pc[p] = "pause"
      <4>1. PICK p \in Procs : {q \in Procs : pc[q] = "pause"} = {p}
        BY <3>1, <3>2
      <4>2. Cardinality({p}) = 1
        BY FS_Singleton
      <4> QED
        BY <4>1, <4>2
    <3>3. CASE ~\E p \in Procs : pc[p] = "pause"
      <4>1. {q \in Procs : pc[q] = "pause"} = {}
        BY <3>3
      <4>2. Cardinality({}) = 0
        BY FS_EmptySet
      <4> QED
        BY <4>1, <4>2
    <3> QED
      BY <3>2, <3>3
  <2>4. program = "onedaemon" /\ refused # {} /\ killed = 0 => \E p \in Parents : pc[p] = "pause"
    BY <1>1, <2>1, ProcsShape DEF Successor
  <2> QED
    BY <2>1, <2>2, <2>3, <2>4 DEF Settled
<1>2. IInv /\ Successor => SettledAtRest
  BY <1>1, Zenon DEF SettledAtRest
<1>3. Init => Successor
  BY ProcsShape DEF Init, Successor
<1> QED
  BY <1>2, <1>3, InitInv, StepInv, SuccessorInv, PTL DEF Spec
=============================================================================
