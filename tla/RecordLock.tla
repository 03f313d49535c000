----------------------------- MODULE RecordLock -----------------------------
(***************************************************************************)
(* lock/: record locks on a whole file.  test1.c and test2.c: a parent     *)
(* that takes a lock without waiting and does not look whether it got it,  *)
(* and two children that wait for theirs; nobody waits for the children.   *)
(* onedaemon.c: a daemon that runs only if it gets the lock on its pid     *)
(* file, and then writes its pid there.  Instances run side by side in one *)
(* directory, and any process may be killed.                               *)
(***************************************************************************)
EXTENDS Integers, FiniteSets

CONSTANTS Runs,        \* instances of the program
          MaxKilled,   \* bound on the processes that are killed
          Stale        \* a pid of earlier times

ASSUME LockAssumption == MaxKilled \in Nat /\ Stale \notin Runs

VARIABLES program,
          pc, held,          \* processes; the kernel's lock table
          pidfile,           \* the pid in it, if any
          refused, killed    \* history: who was not granted its lock; kills

vars == <<program, pc, held, pidfile, refused, killed>>

Parents == Runs \X {0}
Children == Runs \X {1, 2}
Procs == Parents \cup Children

Init == /\ program \in {"test1", "test2", "onedaemon"}
        /\ pc = [p \in Procs |-> IF p \in Parents THEN "open" ELSE "none"]
        /\ held = [p \in Procs |-> "none"]
        /\ pidfile \in (IF program = "onedaemon" THEN {{}, {Stale}} ELSE {{}})
        /\ refused = {} /\ killed = 0

Go(p, from, to) == /\ pc[p] = from /\ pc' = [pc EXCEPT ![p] = to]
                   /\ UNCHANGED program

----------------------------------------------------------------------------
(* fcntl(): locks belong to processes, a child inherits none.              *)
Type(p) == CASE p \in Parents -> IF program = "test1" THEN "read" ELSE "write"
             [] p[2] = 1 -> "write"
             [] p[2] = 2 -> "read"

Conflict(t, u) == t # "none" /\ u # "none" /\ "write" \in {t, u}
Grantable(p) == \A q \in Procs \ {p} : ~Conflict(Type(p), held[q])

CmdMutant(p) == "F_SETLK"
Cmd(p) == IF p \in Parents THEN "F_SETLK" ELSE "F_SETLKW"

OpenedMutant(f) == {}         \* O_TRUNC
Opened(f) == f

Open(p) == /\ Go(p, "open", "lock")
           /\ pidfile' = IF program = "onedaemon" THEN Opened(pidfile) ELSE pidfile
           /\ UNCHANGED <<held, refused, killed>>

AfterLock(p) == CASE p \in Children -> "hold"
                  [] program # "onedaemon" -> "fork1"
                  [] OTHER -> IF Grantable(p) THEN "truncate" ELSE "done"

Lock(p) == /\ Go(p, "lock", AfterLock(p))
           /\ Cmd(p) = "F_SETLKW" => Grantable(p)
           /\ held' = IF Grantable(p) THEN [held EXCEPT ![p] = Type(p)] ELSE held
           /\ refused' = IF Grantable(p) THEN refused ELSE refused \cup {p}
           /\ UNCHANGED <<pidfile, killed>>

(* A fork that fails leaves one child less, and goes unnoticed.            *)
InheritedMutant(p) == held[p]
Inherited(p) == "none"

Fork(p, k) == /\ p \in Parents /\ pc[p] = (IF k = 1 THEN "fork1" ELSE "fork2")
              /\ \E born \in {"lock", "none"} :
                    /\ pc' = [pc EXCEPT ![p] = IF k = 1 THEN "fork2" ELSE "hold",
                                        ![<<p[1], k>>] = born]
                    /\ held' = [held EXCEPT ![<<p[1], k>>] =
                                    IF born = "none" THEN "none" ELSE Inherited(p)]
              /\ UNCHANGED <<program, pidfile, refused, killed>>

Unlock(p) == /\ Go(p, "hold", "done")
             /\ held' = [held EXCEPT ![p] = "none"]
             /\ UNCHANGED <<pidfile, refused, killed>>

(* The daemon: it ends by a signal only, in pause() or earlier.            *)
Truncate(p) == /\ Go(p, "truncate", "write") /\ pidfile' = {}
               /\ UNCHANGED <<held, refused, killed>>

WritePid(p) == /\ Go(p, "write", "pause") /\ pidfile' = pidfile \cup {p[1]}
               /\ UNCHANGED <<held, refused, killed>>

Kill(p) == /\ pc[p] \notin {"none", "open", "done"}
           /\ killed < MaxKilled
           /\ killed' = killed + 1
           /\ pc' = [pc EXCEPT ![p] = "done"] /\ held' = [held EXCEPT ![p] = "none"]
           /\ UNCHANGED <<program, pidfile, refused>>

Process(p) == \/ Lock(p) \/ (\E k \in {1, 2} : Fork(p, k)) \/ Unlock(p)
              \/ Truncate(p) \/ WritePid(p)

Next == \E p \in Procs : Open(p) \/ Process(p) \/ Kill(p)

Spec == Init /\ [][Next]_vars

(* What was started and can go on does.                                    *)
FairSpec == Spec /\ \A p \in Procs : WF_vars(Process(p))

----------------------------------------------------------------------------
(* Properties.                                                             *)

TypeOK == /\ program \in {"test1", "test2", "onedaemon"}
          /\ pc \in [Procs -> {"none", "open", "lock", "fork1", "fork2", "hold",
                               "truncate", "write", "pause", "done"}]
          /\ held \in [Procs -> {"none", "read", "write"}]
          /\ pidfile \subseteq Runs \cup {Stale}
          /\ refused \subseteq Procs /\ killed \in 0 .. MaxKilled

(* A process that has told that it has its lock is in no conflict with     *)
(* another one that has, unless one of the two is a parent that was        *)
(* refused and went on; and that takes a second instance.                  *)
Tells(p) == IF pc[p] \in {"fork1", "fork2", "hold"} THEN Type(p) ELSE "none"
Second(p) == \E q \in Parents \ {p} : pc[q] # "open"
ClaimsHold ==
    /\ TypeOK
    /\ \A p, q \in Procs : p # q /\ Conflict(Tells(p), Tells(q))
          => refused \cap Parents \cap {p, q} # {}
    /\ \A p \in refused : Second(p)

(* While a daemon is in pause() the file holds its pid and no other one,   *)
(* whoever else is started and refused; a reader is misled only between a  *)
(* daemon's lock and its write, or when no daemon runs.                    *)
PidFileTrue == \A p \in Parents : pc[p] = "pause" => pidfile = {p[1]}

(* In the end every process has ended, whatever was killed or refused, or  *)
(* it is the one daemon; and if a daemon was refused then one runs, or one *)
(* was killed.                                                             *)
Settles == <>[]( /\ \A p \in Procs : pc[p] \in {"none", "open", "done", "pause"}
                 /\ Cardinality({p \in Procs : pc[p] = "pause"}) <= 1
                 /\ program = "onedaemon" /\ refused # {} /\ killed = 0
                       => \E p \in Parents : pc[p] = "pause" )
=============================================================================
