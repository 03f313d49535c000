------------------------------- MODULE PipeCat -------------------------------
(***************************************************************************)
(* pipe/mainpipe.c and pipe/mainfifo.c: a parent sends a pathname to its   *)
(* child, the child answers with the file or an error, the parent prints   *)
(* the answer up to end of file and waits for the child.  The ends of the  *)
(* pipes are inherited, or opened under names all instances share.         *)
(***************************************************************************)
EXTENDS Integers, FiniteSets

CONSTANTS N,           \* how often the program is run
          MaxWrites,   \* bound on the write calls of one answer
          Capacity,    \* writes a pipe holds
          MaxKilled    \* bound on the processes killed

ASSUME PipeCatAssumption == /\ {N, MaxWrites, MaxKilled} \subseteq Nat
                            /\ Capacity \in Nat \ {0}

Instances == 1 .. N
Procs == Instances \X {"client", "server"}   \* client: the parent
Pipes == {1, 2} \X Instances                 \* of a FIFO: its n-th creation
Ends == {"r", "w"} \X Pipes

VARIABLES program,       \* "pipe" or "fifo"
          pc, ends,      \* of a process: the ends it has open, or is opening
          data,          \* writes that lie in a pipe
          linked, made,  \* of a FIFO's name: what it leads to, 0: nothing
          todo,          \* of a server: writes of the answer to come
          answered, shown, blank, overlap, killed   \* history
ctl == <<program, linked, made, overlap, killed>>
vars == <<ctl, pc, ends, data, todo, answered, shown, blank>>

Init == /\ program \in {"pipe", "fifo"}
        /\ pc = [p \in Procs |-> IF p[2] = "client" THEN "start" ELSE "none"]
        /\ ends = [p \in Procs |-> {}] /\ data = [f \in Pipes |-> 0]
        /\ linked = [n \in {1, 2} |-> 0] /\ made = linked
        /\ todo = [i \in Instances |-> 0] /\ answered = todo /\ shown = todo
        /\ blank = {} /\ overlap = FALSE /\ killed = {}

Ended(p) == pc[p] \in {"done", "dead", "none"}
Step(p, from, to) == pc[p] = from /\ pc' = [pc EXCEPT ![p] = to]
Readers(f) == {q \in Procs : <<"r", f>> \in ends[q]}
Writers(f) == {q \in Procs : <<"w", f>> \in ends[q]}

(* With its last end goes what is in a pipe.                               *)
Leave(p) == /\ ends' = [ends EXCEPT ![p] = {}]
            /\ data' = [f \in Pipes |-> IF Readers(f) \cup Writers(f) \subseteq {p}
                                        THEN 0 ELSE data[f]]

(* The first pipe leads to the server, the second to the client.           *)
Mode(p, n) == IF (p[2] = "client") = (n = 1) THEN "w" ELSE "r"
Other(m) == IF m = "r" THEN "w" ELSE "r"
Work(p) == IF p[2] = "client" THEN "ask" ELSE "read"

----------------------------------------------------------------------------
(* Start-up: two pipes, or two names (EEXIST is no error), and fork.       *)
Start(i, to) == /\ Step(<<i, "client">>, "start", to)
                /\ overlap' = (overlap \/ \E p \in Procs :
                                 p[1] # i /\ ~Ended(p) /\ pc[p] # "start")

MakePipes(i) == /\ program = "pipe" /\ Start(i, "fork")
                /\ ends' = [ends EXCEPT ![<<i, "client">>] =
                              {"r", "w"} \X ({1, 2} \X {i})]
                /\ UNCHANGED <<program, linked, made, killed, data, todo, answered, shown, blank>>

MakeFifo(n) == /\ made' = [made EXCEPT ![n] = IF linked[n] = 0 THEN @ + 1 ELSE @]
               /\ linked' = [linked EXCEPT ![n] = IF @ = 0 THEN made'[n] ELSE @]
               /\ UNCHANGED <<program, killed, ends, data, todo, answered, shown, blank>>

MakeFifo1(i) == program = "fifo" /\ Start(i, "make2") /\ MakeFifo(1)
MakeFifo2(i) == /\ Step(<<i, "client">>, "make2", "fork") /\ MakeFifo(2)
                /\ UNCHANGED overlap

AfterFork == IF program = "pipe" THEN "close" ELSE "open1"
Fork(i) == /\ pc[<<i, "client">>] = "fork"
           /\ pc' = [pc EXCEPT ![<<i, "client">>] = AfterFork, ![<<i, "server">>] = AfterFork]
           /\ ends' = [ends EXCEPT ![<<i, "server">>] = ends[<<i, "client">>]]
           /\ UNCHANGED <<ctl, data, todo, answered, shown, blank>>

(* -1 is not 0: the parent goes on without a child.                        *)
ForkFails(i) == /\ Step(<<i, "client">>, "fork", AfterFork)
                /\ UNCHANGED <<ctl, ends, data, todo, answered, shown, blank>>

KeptMutant(p) == {e \in ends[p] : e[1] \in {"w", Mode(p, e[2][1])}}  \* no close of a write end
Kept(p) == {e \in ends[p] : e[1] = Mode(p, e[2][1])}
CloseOthers(p) == /\ Step(p, "close", Work(p))
                  /\ ends' = [ends EXCEPT ![p] = Kept(p)]
                  /\ UNCHANGED <<ctl, data, todo, answered, shown, blank>>

(* open waits for the other end, and wakes who waits for this one; where   *)
(* the name leads nowhere the descriptor is -1.                            *)
Waiting(n) == IF n = 1 THEN "wait1" ELSE "wait2"
Opened(p, n) == IF n = 1 THEN "open2" ELSE Work(p)
Open(p, n) ==
    LET f == <<n, linked[n]>>
        m == Mode(p, n)
        partners == {q \in Procs : <<Other(m), f>> \in ends[q]}
    IN /\ pc[p] = IF n = 1 THEN "open1" ELSE "open2"
       /\ \/ /\ linked[n] = 0
             /\ pc' = [pc EXCEPT ![p] = Opened(p, n)] /\ UNCHANGED ends
          \/ /\ linked[n] # 0
             /\ ends' = [ends EXCEPT ![p] = @ \cup {<<m, f>>}]
             /\ pc' = [q \in Procs |->
                         IF q = p THEN IF partners = {} THEN Waiting(n) ELSE Opened(p, n)
                         ELSE IF q \in partners /\ pc[q] = Waiting(n) THEN Opened(q, n)
                         ELSE pc[q]]
       /\ UNCHANGED <<ctl, data, todo, answered, shown, blank>>

StartUp(i) == \/ MakePipes(i) \/ MakeFifo1(i) \/ MakeFifo2(i) \/ Fork(i) \/ ForkFails(i)
              \/ \E w \in {"client", "server"} :
                    \/ CloseOthers(<<i, w>>)
                    \/ \E n \in {1, 2} : Open(<<i, w>>, n)

----------------------------------------------------------------------------
(* The descriptor a process writes to, and reads from: none where open     *)
(* failed.  A write that nobody can read kills by SIGPIPE.                 *)
To(p) == {f \in Pipes : <<"w", f>> \in ends[p]}
From(p) == {f \in Pipes : <<"r", f>> \in ends[p]}
BrokenPipe(p) == \E f \in To(p) : Readers(f) = {}
AtEof(p) == \A f \in From(p) : data[f] = 0 /\ Writers(f) = {}

HasRoom(f) == data[f] < Capacity
Put(p) == /\ \A f \in To(p) : HasRoom(f) /\ Readers(f) # {}
          /\ data' = [f \in Pipes |-> IF f \in To(p) THEN data[f] + 1 ELSE data[f]]

Sigpipe(p) == /\ BrokenPipe(p) /\ Leave(p)
              /\ \/ Step(p, "ask", "dead")
                 \/ Step(p, "write", "dead") /\ todo[p[1]] > 0
              /\ UNCHANGED <<ctl, todo, answered, shown, blank>>

(* client(): no input; an empty line, for which write writes nothing; a    *)
(* pathname.                                                               *)
NoInput(i) == /\ \E to \in {"reap", "show"} : Step(<<i, "client">>, "ask", to)
              /\ blank' = blank \cup {i}
              /\ UNCHANGED <<ctl, ends, data, todo, answered, shown>>

Ask(i) == /\ Step(<<i, "client">>, "ask", "show") /\ Put(<<i, "client">>)
          /\ UNCHANGED <<ctl, ends, todo, answered, shown, blank>>

AfterShowMutant == "reap"
AfterShow == "show"
Show(i) == /\ Step(<<i, "client">>, "show", AfterShow)
           /\ \E f \in From(<<i, "client">>) : data[f] > 0 /\ data' = [data EXCEPT ![f] = @ - 1]
           /\ shown' = [shown EXCEPT ![i] = @ + 1]
           /\ UNCHANGED <<ctl, ends, todo, answered, blank>>

ShowEnds(i) == /\ Step(<<i, "client">>, "show", "reap") /\ AtEof(<<i, "client">>)
               /\ UNCHANGED <<ctl, ends, data, todo, answered, shown, blank>>

(* waitpid, and the ends go; mainfifo then removes the names.              *)
Reap(i) == /\ Ended(<<i, "server">>) /\ Leave(<<i, "client">>)
           /\ Step(<<i, "client">>, "reap", IF program = "pipe" THEN "done" ELSE "unlink1")
           /\ UNCHANGED <<ctl, todo, answered, shown, blank>>

Unlink(i, n) == /\ IF n = 1 THEN Step(<<i, "client">>, "unlink1", "unlink2")
                            ELSE Step(<<i, "client">>, "unlink2", "done")
                /\ linked' = [linked EXCEPT ![n] = 0]
                /\ UNCHANGED <<program, made, overlap, killed, ends, data, todo, answered,
                               shown, blank>>

Client(i) == \/ NoInput(i) \/ Ask(i) \/ Show(i) \/ ShowEnds(i) \/ Reap(i)
             \/ Unlink(i, 1) \/ Unlink(i, 2)

(* server(): what one read returns is the pathname; then the file, in as   *)
(* many writes as it takes, or the error.                                  *)
Read(i) == /\ Step(<<i, "server">>, "read", "write")
           /\ \E f \in From(<<i, "server">>) : data[f] > 0 /\ data' = [data EXCEPT ![f] = 0]
           /\ \E k \in 0 .. MaxWrites : todo' = [todo EXCEPT ![i] = k]
           /\ UNCHANGED <<ctl, ends, answered, shown, blank>>

Write(i) == /\ Step(<<i, "server">>, "write", "write") /\ todo[i] > 0
            /\ Put(<<i, "server">>)
            /\ todo' = [todo EXCEPT ![i] = @ - 1]
            /\ answered' = [answered EXCEPT ![i] =
                              @ + Cardinality(To(<<i, "server">>))]
            /\ UNCHANGED <<ctl, ends, shown, blank>>

ServerEnds(i) == /\ \/ Step(<<i, "server">>, "read", "done") /\ AtEof(<<i, "server">>)
                    \/ Step(<<i, "server">>, "write", "done") /\ todo[i] = 0
                 /\ Leave(<<i, "server">>)
                 /\ UNCHANGED <<ctl, todo, answered, shown, blank>>

Server(i) == Read(i) \/ Write(i) \/ ServerEnds(i)

Killed(p) == /\ ~Ended(p) /\ pc[p] # "start" /\ Cardinality(killed) < MaxKilled
             /\ killed' = killed \cup {p}
             /\ pc' = [pc EXCEPT ![p] = "dead"] /\ Leave(p)
             /\ UNCHANGED <<program, linked, made, overlap, todo, answered, shown, blank>>

Run(i) == StartUp(i) \/ Client(i) \/ Server(i) \/ \E p \in Procs : p[1] = i /\ Sigpipe(p)

Next == (\E i \in Instances : Run(i)) \/ \E p \in Procs : Killed(p)

Spec == Init /\ [][Next]_vars

(* Each process takes a step when it can.                                  *)
FairSpec == Spec /\ \A i \in Instances :
                       /\ WF_vars(StartUp(i)) /\ WF_vars(Client(i)) /\ WF_vars(Server(i))
                       /\ \A p \in Procs : WF_vars(Sigpipe(p))

----------------------------------------------------------------------------
(* Properties.                                                             *)

TypeOK == /\ program \in {"pipe", "fifo"}
          /\ pc \in [Procs -> {"none", "start", "make2", "fork", "close", "open1", "wait1",
                               "open2", "wait2", "ask", "show", "reap", "unlink1", "unlink2",
                               "read", "write", "done", "dead"}]
          /\ ends \in [Procs -> SUBSET Ends] /\ data \in [Pipes -> 0 .. Capacity]
          /\ {linked, made} \subseteq [{1, 2} -> {0} \cup Instances]
          /\ todo \in [Instances -> 0 .. MaxWrites]
          /\ {answered, shown} \subseteq [Instances -> Nat]
          /\ blank \subseteq Instances /\ overlap \in BOOLEAN /\ killed \subseteq Procs
          /\ \A p \in Procs : Ended(p) => ends[p] = {}

(* A client that ends has left no child, and has shown the whole answer,   *)
(* its own child's, unless a process was killed or instances overlap on    *)
(* the FIFOs: then one may see end of file before its child has come.      *)
Sharing == program = "fifo" /\ overlap
AnswerWhole == TypeOK /\ \A i \in Instances : pc[<<i, "client">>] = "done" =>
    /\ Ended(<<i, "server">>)
    /\ killed = {} /\ ~Sharing => shown[i] = answered[i]

(* An instance ends, and waits for ever only: for a pathname that is never *)
(* sent, in open for a process that has gone or never was, or, of a FIFO,  *)
(* because instances overlap on its name.                                  *)
OpensAlone(i) == \E w \in {"client", "server"} :
    /\ pc[<<i, w>>] \in {"wait1", "wait2"}
    /\ Ended(<<i, IF w = "client" THEN "server" ELSE "client">>)
InstanceEnds == \A i \in Instances :
    <>( \/ Ended(<<i, "client">>) /\ Ended(<<i, "server">>)
        \/ i \in blank \/ OpensAlone(i) \/ Sharing )
=============================================================================
