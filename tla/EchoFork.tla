------------------------------- MODULE EchoFork ------------------------------
(***************************************************************************)
(* echo/tcpserv.c: a parent accepts connections and forks a child for each *)
(* one, which echoes; the parent reaps its children in a handler for       *)
(* SIGCHLD.  echo/tcpcli.c: a client that sends a line and reads once      *)
(* before it sends the next.  Children may be killed, a fork may fail.     *)
(***************************************************************************)
EXTENDS Integers, SequencesExt, FiniteSets

CONSTANTS Clients,              \* each makes one connection, named like it
          MaxLines, LineLen,    \* lines on standard input, and their length
          MaxKilled,            \* bound on the children killed
          None

ASSUME EchoAssumption == /\ {MaxLines, MaxKilled} \subseteq Nat /\ LineLen \in Nat \ {0}
                         /\ IsFiniteSet(Clients) /\ None \notin Clients

VARIABLES ppc, connfd, held,      \* parent: where; connections it has open
          handler, pending,       \* sig_chld runs; SIGCHLD is pending
          child, buff, killed,    \* per connection: its child
          backlog, unread, toClient, rst,    \* connections in the kernel
          cli, line                          \* clients
parentVars == <<ppc, connfd, held, handler>>
childVars == <<child, buff, killed, pending>>
tcpVars == <<unread, toClient, rst>>
cliVars == <<cli, line>>
vars == <<parentVars, childVars, backlog, tcpVars, cliVars>>

Init == /\ ppc = "accept" /\ connfd = None /\ held = {}
        /\ handler = FALSE /\ pending = FALSE
        /\ child = [c \in Clients |-> "none"] /\ killed = {}
        /\ buff = [c \in Clients |-> 0]
        /\ backlog = << >> /\ rst = {}
        /\ unread = [c \in Clients |-> 0] /\ toClient = [c \in Clients |-> 0]
        /\ cli = [c \in Clients |-> "connect"] /\ line = [c \in Clients |-> 0]

Alive(c) == child[c] \in {"forked", "read", "write"}
Left(c) == cli[c] \in {"done", "cut"}

(* The listening socket is open in the parent, and in a new child.         *)
Listening == ppc # "gone" \/ \E c \in Clients : child[c] = "forked"

(* The server's end of a connection is closed when nobody holds it.        *)
ServerClosed(c) == IF c \in ToSet(backlog) THEN ~Listening
                   ELSE c \notin held /\ ~Alive(c)

----------------------------------------------------------------------------
(* tcpcli.c.                                                               *)
CliStep(c, from, to) == /\ cli[c] = from /\ cli' = [cli EXCEPT ![c] = to]
                        /\ UNCHANGED <<parentVars, childVars>>

Connect(c) == /\ CliStep(c, "connect", IF Listening THEN "gets" ELSE "refused")
              /\ backlog' = IF Listening THEN Append(backlog, c) ELSE backlog
              /\ UNCHANGED <<tcpVars, line>>

SendLine(c) == /\ CliStep(c, "gets", "read") /\ line[c] < MaxLines
               /\ line' = [line EXCEPT ![c] = @ + 1]
               /\ unread' = [unread EXCEPT ![c] = @ + LineLen]
               /\ UNCHANGED <<backlog, toClient, rst>>

ReadReply(c) == /\ CliStep(c, "read", "gets")
                /\ \E n \in 1 .. toClient[c] : toClient' = [toClient EXCEPT ![c] = @ - n]
                /\ UNCHANGED <<backlog, unread, rst, line>>

(* End of input: a socket closed with bytes unread is reset.               *)
Quit(c) == /\ CliStep(c, "gets", "done")
           /\ rst' = IF toClient[c] > 0 THEN rst \cup {c} ELSE rst
           /\ UNCHANGED <<backlog, unread, toClient, line>>

Cut(c) == /\ CliStep(c, "read", "cut") /\ toClient[c] = 0 /\ ServerClosed(c)
          /\ UNCHANGED <<backlog, tcpVars, line>>

Client(c) == Connect(c) \/ SendLine(c) \/ ReadReply(c) \/ Quit(c) \/ Cut(c)

----------------------------------------------------------------------------
(* tcpserv.c, parent.  The handler interrupts it between any two steps and *)
(* the call it interrupted goes on.                                        *)
ParentStep(from, to) == /\ ppc = from /\ ~handler /\ ppc' = to
                        /\ UNCHANGED <<handler, buff, killed, pending, tcpVars, cliVars>>

Accept == /\ ParentStep("accept", "fork") /\ backlog # << >>
          /\ connfd' = Head(backlog) /\ held' = held \cup {connfd'}
          /\ backlog' = Tail(backlog)
          /\ UNCHANGED child

Fork == /\ ParentStep("fork", "close")
        /\ child' = [child EXCEPT ![connfd] = "forked"]
        /\ UNCHANGED <<connfd, held, backlog>>

ForkFails == /\ ParentStep("fork", "gone")
             /\ held' = {}
             /\ UNCHANGED <<connfd, child, backlog>>

KeptMutant(c) == held       \* no close(connfd)
Kept(c) == held \ {c}

CloseConn == /\ ParentStep("close", "accept")
             /\ held' = Kept(connfd) /\ connfd' = None
             /\ UNCHANGED <<child, backlog>>

Parent == Accept \/ Fork \/ ForkFails \/ CloseConn

----------------------------------------------------------------------------
(* sig_chld: SIGCHLD is blocked while it runs, and pends once at most.     *)
HandlerStarts == /\ pending /\ ~handler /\ ppc # "gone"
                 /\ pending' = FALSE /\ handler' = TRUE
                 /\ UNCHANGED <<ppc, connfd, held, child, buff, killed, backlog,
                                tcpVars, cliVars>>

Zombies == {c \in Clients : child[c] = "zombie"}
GoesOnMutant == FALSE       \* one waitpid per signal
GoesOn == TRUE

Reap == /\ handler /\ ppc # "gone"
        /\ \E c \in Zombies : child' = [child EXCEPT ![c] = "reaped"]
        /\ handler' = GoesOn
        /\ UNCHANGED <<ppc, connfd, held, buff, killed, pending, backlog, tcpVars, cliVars>>

HandlerReturns == /\ handler /\ Zombies = {}
                  /\ handler' = FALSE
                  /\ UNCHANGED <<ppc, connfd, held, childVars, backlog, tcpVars, cliVars>>

SigChld == HandlerStarts \/ Reap \/ HandlerReturns

----------------------------------------------------------------------------
(* tcpserv.c, child.                                                       *)
ChildStep(c, from, to) == /\ child[c] = from /\ child' = [child EXCEPT ![c] = to]
                          /\ UNCHANGED <<parentVars, pending, killed, backlog, cliVars>>

CloseListen(c) == ChildStep(c, "forked", "read") /\ UNCHANGED <<buff, tcpVars>>

ReadLine(c) == /\ ChildStep(c, "read", "write") /\ c \notin rst
               /\ \E n \in 1 .. unread[c] :
                     /\ unread' = [unread EXCEPT ![c] = @ - n]
                     /\ buff' = [buff EXCEPT ![c] = n]
               /\ UNCHANGED <<toClient, rst>>

AfterEchoMutant == "zombie"   \* no loop
AfterEcho == "read"

(* To a client that has left, the first write is answered by a reset.      *)
WriteBack(c) == /\ ChildStep(c, "write", AfterEcho) /\ c \notin rst
                /\ toClient' = IF Left(c) THEN toClient
                               ELSE [toClient EXCEPT ![c] = @ + buff[c]]
                /\ rst' = IF Left(c) THEN rst \cup {c} ELSE rst
                /\ buff' = [buff EXCEPT ![c] = 0]
                /\ UNCHANGED unread

(* The child exits; nobody waits for it if the parent has gone.            *)
Ends(c) == /\ child' = [child EXCEPT ![c] = IF ppc = "gone" THEN "reaped" ELSE "zombie"]
           /\ pending' = (ppc # "gone")
           /\ buff' = [buff EXCEPT ![c] = 0]
           /\ UNCHANGED <<parentVars, backlog, tcpVars, cliVars>>

(* End of file or an error in read, an error or SIGPIPE in write.          *)
ChildEnds(c) == /\ \/ child[c] = "read" /\ (c \in rst \/ (Left(c) /\ unread[c] = 0))
                   \/ child[c] = "write" /\ c \in rst
                /\ Ends(c) /\ UNCHANGED killed

Kill(c) == /\ Alive(c) /\ Cardinality(killed) < MaxKilled
           /\ killed' = killed \cup {c}
           /\ Ends(c)

Child(c) == CloseListen(c) \/ ReadLine(c) \/ WriteBack(c) \/ ChildEnds(c)

Next == \/ \E c \in Clients : Client(c) \/ Child(c) \/ Kill(c)
        \/ Parent \/ SigChld

Spec == Init /\ [][Next]_vars

(* Every process runs, and a pending signal is delivered.                  *)
FairSpec == /\ Spec /\ WF_vars(Parent) /\ WF_vars(SigChld)
            /\ \A c \in Clients : WF_vars(Client(c)) /\ WF_vars(Child(c))

----------------------------------------------------------------------------
(* Properties.                                                             *)

Bytes == 0 .. MaxLines * LineLen
TypeOK == /\ ppc \in {"accept", "fork", "close", "gone"}
          /\ connfd \in Clients \cup {None} /\ held \subseteq {connfd} \ {None}
          /\ (ppc = "accept" <=> connfd = None) \/ ppc = "gone"
          /\ {handler, pending} \subseteq BOOLEAN
          /\ child \in [Clients -> {"none", "forked", "read", "write", "zombie", "reaped"}]
          /\ {buff, unread, toClient} \subseteq [Clients -> Bytes]
          /\ {killed, rst} \subseteq SUBSET Clients
          /\ backlog \in Seq(Clients) /\ IsInjective(backlog)
          /\ cli \in [Clients -> {"connect", "refused", "gets", "read", "done", "cut"}]
          /\ line \in [Clients -> 0 .. MaxLines]

(* A client is cut off only if its child was killed or none was forked for *)
(* it, whatever becomes of the parent and of other children.               *)
CutOnlyByFailure == TypeOK /\ \A c \in Clients : cli[c] = "cut" => c \in killed \/ child[c] = "none"

(* No child stays a zombie while the parent lives, though several SIGCHLD  *)
(* are delivered as one.                                                   *)
Reaped == \A c \in Clients : child[c] = "zombie" ~> child[c] = "reaped" \/ ppc = "gone"

(* Every client gets to its end: even one whose child is killed, or that   *)
(* the parent leaves in the backlog, learns of it, as the parent and new   *)
(* children close their copies of the sockets.                             *)
ClientsEnd == \A c \in Clients : <>(cli[c] \in {"done", "cut", "refused"})
=============================================================================
