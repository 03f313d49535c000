------------------------------- MODULE FifoServ -----------------------------
(***************************************************************************)
(* fifocliserv/: clients write "<pid> <pathname>" to the server's          *)
(* well-known FIFO, mainserver.c answers each on the FIFO named after its  *)
(* pid.  The server takes what one read() returns for one request.         *)
(***************************************************************************)
EXTENDS Integers, SequencesExt

CONSTANTS Clients,
          MaxKilled,   \* bound on the clients killed
          MaxDeaths,   \* bound on the times the server is killed
          Nobody
ASSUME FifoAssumption == /\ {MaxKilled, MaxDeaths} \subseteq Nat
                         /\ IsFiniteSet(Clients) /\ Nobody \notin Clients

VARIABLES servfifo, queue,         \* the well-known FIFO: exists, what is in it
          spc, cur, merged, dummy, deaths,   \* server; merged: cur's request was
          cpc, reply, killed,      \* read with others.  Clients.
          swallowed, lost          \* history: requests read as part of another,
                                   \* and requests that never were in a FIFO or
fifoVars == <<servfifo, queue>>    \* vanished with it or with the server
serverVars == <<spc, cur, merged, dummy, deaths>>
vars == <<fifoVars, serverVars, cpc, reply, killed, swallowed, lost>>

Init == /\ servfifo = FALSE /\ queue = << >>
        /\ spc = "start" /\ cur = Nobody /\ merged = FALSE /\ dummy = FALSE /\ deaths = 0
        /\ cpc = [c \in Clients |-> "start"]
        /\ reply = [c \in Clients |-> "none"] /\ killed = {}
        /\ swallowed = {} /\ lost = {}

(* Who has the server's FIFO open for writing, and for reading.            *)
Writing == {c \in Clients \ killed : cpc[c] \in {"write", "openown", "reading"}}
HasReader == spc \notin {"start", "dead"}

(* What is in a FIFO is lost when the last process closes it.              *)
AfterClose(open) == /\ queue' = IF open THEN queue ELSE << >>
                    /\ lost' = IF open THEN lost ELSE lost \cup ToSet(queue)

Step(c, from, to) == /\ cpc[c] = from /\ c \notin killed
                     /\ cpc' = [cpc EXCEPT ![c] = to]
                     /\ UNCHANGED <<serverVars, servfifo, reply, killed, swallowed>>

----------------------------------------------------------------------------
(* mainclient.c: mkfifo and fgets, which may fail; then open(SERV_FIFO),   *)
(* which is not checked and waits for a reader, and write.                 *)
MakeFifo(c) == Step(c, "start", "open") /\ UNCHANGED <<queue, lost>>

NoInput(c) == Step(c, "start", "failed") /\ UNCHANGED <<queue, lost>>

OpenServ(c) == /\ Step(c, "open", "write") /\ servfifo /\ HasReader
               /\ UNCHANGED <<queue, lost>>

OpenServFails(c) == /\ Step(c, "open", "openown") /\ ~servfifo
                    /\ lost' = lost \cup {c}
                    /\ UNCHANGED queue

Request(c) == /\ Step(c, "write", "openown") /\ HasReader
              /\ queue' = Append(queue, c)
              /\ UNCHANGED lost

BrokenPipe(c) == /\ Step(c, "write", "failed") /\ ~HasReader
                 /\ AfterClose(Writing \ {c} # {})

Finish(c) == /\ Step(c, "reading", "done") /\ cur # c     \* end of file
             /\ AfterClose(HasReader \/ Writing \ {c} # {})

Kill(c) == /\ c \notin killed /\ cpc[c] \notin {"failed", "done"}
           /\ Cardinality(killed) < MaxKilled
           /\ killed' = killed \cup {c}
           /\ AfterClose(HasReader \/ Writing \ {c} # {})
           /\ UNCHANGED <<serverVars, servfifo, cpc, reply, swallowed>>

Client(c) == \/ MakeFifo(c) \/ NoInput(c) \/ OpenServ(c) \/ OpenServFails(c)
             \/ Request(c) \/ BrokenPipe(c) \/ Finish(c)

----------------------------------------------------------------------------
(* mainserver.c: open(O_RDONLY) waits for a first writer, the open for     *)
(* dummyfifo does not wait.                                                *)
MakeServFifo == /\ spc = "start"
                /\ spc' = "openread" /\ servfifo' = TRUE
                /\ UNCHANGED <<queue, cur, merged, dummy, deaths, cpc, reply, killed,
                               swallowed, lost>>

HoldsDummyMutant == FALSE
HoldsDummy == TRUE

OpenRead == /\ spc = "openread" /\ Writing # {}
            /\ spc' = "read" /\ dummy' = HoldsDummy
            /\ UNCHANGED <<fifoVars, cur, merged, deaths, cpc, reply, killed,
                           swallowed, lost>>

ChosenMutant == Last(queue)
Chosen == Head(queue)

(* read() returns the requests that fit in buff.  The first pid is         *)
(* answered, the rest of them taken for part of its pathname.              *)
ReadRequest == /\ spc = "read" /\ queue # << >>
               /\ spc' = "openclient" /\ cur' = Chosen
               /\ \E n \in 1 .. Len(queue) :
                     /\ merged' = (n > 1)
                     /\ swallowed' = swallowed \cup ToSet(SubSeq(queue, 2, n))
                     /\ queue' = SubSeq(queue, n + 1, Len(queue))
               /\ UNCHANGED <<servfifo, dummy, deaths, cpc, reply, killed, lost>>

(* The limit may also cut a request: then l.43 writes behind buff, and     *)
(* nothing is said from then on.  A single request is shorter than that.   *)
Overfill == /\ spc = "read" /\ Len(queue) > 1
            /\ spc' = "overrun"
            /\ UNCHANGED <<fifoVars, cur, merged, dummy, deaths, cpc, reply, killed,
                           swallowed, lost>>

(* The server's open and the client's wait for each other.                 *)
OpenClient == /\ spc = "openclient" /\ cpc[cur] = "openown" /\ cur \notin killed
              /\ spc' = "answer" /\ cpc' = [cpc EXCEPT ![cur] = "reading"]
              /\ UNCHANGED <<fifoVars, cur, merged, dummy, deaths, reply, killed,
                             swallowed, lost>>

(* The file, or the error; nothing is written if the file is empty.        *)
Closed == Nobody

Answers == IF merged THEN {"error"} ELSE {"file", "error"}

Answer == /\ spc = "answer"
          /\ \E r \in Answers : reply' = [reply EXCEPT ![cur] = r]
          /\ cur \in killed => reply'[cur] = "file"
          /\ spc' = "read" /\ cur' = Closed
          /\ UNCHANGED <<fifoVars, merged, dummy, deaths, cpc, killed, swallowed, lost>>

ServerGone == /\ spc' = "dead" /\ cur' = Nobody /\ dummy' = FALSE
              /\ queue' = IF Writing = {} THEN << >> ELSE queue
              /\ lost' = lost \cup (IF Writing = {} THEN ToSet(queue) ELSE {})
                              \cup ({cur} \ {Nobody})
              /\ UNCHANGED <<servfifo, merged, cpc, reply, killed, swallowed>>

(* SIGPIPE, or the end of file that ends the loop.                         *)
AtEof == spc = "read" /\ queue = << >> /\ Writing = {} /\ ~dummy
ServerDies == /\ (spc = "answer" /\ cur \in killed) \/ AtEof
              /\ ServerGone /\ UNCHANGED deaths
ServerKilled == /\ HasReader /\ spc # "overrun" /\ deaths < MaxDeaths
                /\ deaths' = deaths + 1
                /\ ServerGone

(* A restart finds the FIFO in place (EEXIST).                             *)
Restart == /\ spc = "dead"
           /\ spc' = "openread"
           /\ UNCHANGED <<fifoVars, cur, merged, dummy, deaths, cpc, reply, killed,
                          swallowed, lost>>

Server == \/ MakeServFifo \/ OpenRead \/ ReadRequest \/ Overfill \/ OpenClient
          \/ Answer \/ ServerDies

Next == (\E c \in Clients : Client(c) \/ Kill(c)) \/ Server \/ ServerKilled \/ Restart

Spec == Init /\ [][Next]_vars

FairSpec == Spec /\ WF_vars(Server) /\ \A c \in Clients : WF_vars(Client(c))

----------------------------------------------------------------------------
(* Properties.                                                             *)

TypeOK == /\ servfifo \in BOOLEAN /\ queue \in Seq(Clients) /\ IsInjective(queue)
          /\ spc \in {"start", "openread", "read", "openclient", "answer", "overrun",
                      "dead"}
          /\ (cur # Nobody <=> spc \in {"openclient", "answer"})
          /\ cur \in Clients \cup {Nobody} /\ {merged, dummy} \subseteq BOOLEAN
          /\ deaths \in 0 .. MaxDeaths
          /\ cpc \in [Clients -> {"start", "open", "write", "openown", "reading",
                                  "failed", "done"}]
          /\ reply \in [Clients -> {"none", "file", "error"}]
          /\ {killed, swallowed, lost} \subseteq SUBSET Clients

(* A client that waits for its answer has its request in the FIFO or in    *)
(* the server's hands; else it waits in vain, and that for three reasons   *)
(* only: its request was read behind another one, it came before the FIFO  *)
(* existed, or the server died with the request.                           *)
WaitingAccountedFor == TypeOK /\ \A c \in Clients \ killed : cpc[c] = "openown" =>
    c \in ToSet(queue) \cup {cur} \cup swallowed \cup lost

(* Unless a process is killed or buff overrun, all clients end, those      *)
(* excepted whose request was read behind another one or written nowhere.  *)
(* dummyfifo keeps the server from ending when it has no client for a time.*)
Served == \A c \in Clients : <>( \/ cpc[c] \in {"failed", "done"} \/ c \in swallowed \cup lost
                                \/ killed # {} \/ deaths > 0 \/ spc = "overrun" )
=============================================================================
