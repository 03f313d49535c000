---------------------------- MODULE SelectServer ----------------------------
(***************************************************************************)
(* select_echo/tcpserv.c: one process echoes for all clients.  It keeps    *)
(* their descriptors in clientfd, of which 0 .. maxi may be in use, and in *)
(* allset, which select() copies to rset.  allset is never zeroed: besides *)
(* the descriptors put into it, it holds whatever its stack bytes held.    *)
(***************************************************************************)
EXTENDS Integers, Sequences, FiniteSets, FiniteSetsExt, Functions

CONSTANTS Conns,       \* connections that clients make
          FD_SETSIZE,  \* entries of clientfd, and bits of a descriptor set
          FDLimits,    \* RLIMIT_NOFILE may be any of these: accept stays below it
          WordBits,    \* select rounds up the bits it writes to words
          Unset,       \* bits of allset that may be set from the start
          MaxSend, BuffSize,   \* bytes sent in all; sizeof(buff)
          Capacity,    \* bytes written to a client that it need not have read
          None

StdFds == 0 .. 2
listenfd == 3
ASSUME SelectAssumption == /\ FD_SETSIZE \in Nat /\ FD_SETSIZE > listenfd
                           /\ FDLimits \subseteq Nat /\ \A n \in FDLimits : n > listenfd
                           /\ MaxSend \in Nat
                           /\ {WordBits, BuffSize, Capacity} \subseteq Nat \ {0}
                           /\ Unset \subseteq (0 .. FD_SETSIZE - 1) \ {listenfd}
                           /\ None \notin Conns

ConnFds == listenfd + 1 .. FD_SETSIZE - 1    \* those that fit a descriptor set
Indices == 0 .. FD_SETSIZE - 1

VARIABLES clientfd, maxi, maxfd, allset, rset, nready, i, buff, spc,  \* server
          garbage,                \* bits of allset that were never put there
          limit,                  \* the process's RLIMIT_NOFILE
          conn, backlog,          \* kernel: descriptor to connection, queue
          peer, sent, unread,     \* per connection: client's end, bytes it sent,
          written, toClient       \* bytes echoed, and those it has yet to read

tableVars == <<clientfd, maxi, maxfd, allset>>
given == <<garbage, limit>>
serverVars == <<tableVars, rset, nready, i, buff, spc, given>>
connVars == <<peer, sent, unread, written, toClient>>
vars == <<serverVars, conn, backlog, connVars>>

Init == /\ clientfd = [k \in Indices |-> -1] /\ maxi = -1 /\ maxfd = listenfd
        /\ garbage \in SUBSET Unset /\ limit \in FDLimits
        /\ allset = garbage \cup {listenfd} /\ rset = {} /\ nready = 0
        /\ i = 0 /\ buff = 0 /\ spc = "select"
        /\ conn = [f \in ConnFds |-> None] /\ backlog = << >>
        /\ peer = [c \in Conns |-> "new"]
        /\ sent = [c \in Conns |-> 0] /\ unread = sent
        /\ written = sent /\ toClient = sent

----------------------------------------------------------------------------
(* Clients and the network, until the server's end closes all connections. *)
Down == spc \in {"exited", "overrun"}

Connect(c) == /\ peer[c] = "new"
              /\ peer' = [peer EXCEPT ![c] = "open"]
              /\ backlog' = Append(backlog, c)
              /\ UNCHANGED <<serverVars, conn, sent, unread, written, toClient>>

Send(c) == /\ peer[c] = "open" /\ FoldFunction(+, 0, sent) < MaxSend
           /\ sent' = [sent EXCEPT ![c] = @ + 1]
           /\ unread' = [unread EXCEPT ![c] = @ + 1]
           /\ UNCHANGED <<serverVars, conn, backlog, peer, written, toClient>>

(* A client reads, or does not read, what was echoed to it.                *)
Take(c) == /\ peer[c] = "open" /\ toClient[c] > 0
           /\ toClient' = [toClient EXCEPT ![c] = @ - 1]
           /\ UNCHANGED <<serverVars, conn, backlog, peer, sent, unread, written>>

(* Orderly close, which bytes that are still to be read turn into a reset  *)
(* (refused: on its way).  With bytes under way also a reset that discards *)
(* what is unread, or a lost host, which shows (ETIMEDOUT) when an echo is *)
(* not acknowledged; with none a reset is read as a close is, and a lost   *)
(* host is one that keeps silent.                                          *)
UnderWay(c) == toClient[c] > 0 \/ written[c] < sent[c]
Leave(c) == /\ peer[c] = "open"
            /\ \E how \in {IF toClient[c] = 0 THEN "closed" ELSE "refused"} \cup
                          (IF UnderWay(c) THEN {"reset", "lost"} ELSE {}) :
                  peer' = [peer EXCEPT ![c] = how]
            /\ unread' = IF peer'[c] = "reset" THEN [unread EXCEPT ![c] = 0] ELSE unread
            /\ UNCHANGED <<serverVars, conn, backlog, sent, written, toClient>>

Gone(c) == \/ peer[c] \in {"closed", "refused", "reset"}
           \/ peer[c] = "lost" /\ toClient[c] > 0

Readable(f) == \/ f = listenfd /\ backlog # << >>
               \/ f \in ConnFds /\ conn[f] # None
                  /\ (unread[conn[f]] > 0 \/ Gone(conn[f]))

----------------------------------------------------------------------------
(* select: rset = allset, of which the ready bits are kept.  A standard    *)
(* descriptor whose bit happens to be set may be ready too, and words that *)
(* lie beyond maxfd are not written.                                       *)
Word(f) == f \div WordBits
Unwritten == {f \in allset : Word(f) > Word(maxfd)}

Select == /\ spc = "select"
          /\ \E std \in SUBSET (allset \cap StdFds) :
                LET ready == std \cup {f \in allset : f <= maxfd /\ Readable(f)}
                IN /\ ready # {}
                   /\ rset' = ready \cup Unwritten
                   /\ nready' = Cardinality(ready)
          /\ spc' = IF listenfd \in rset' THEN "accept" ELSE "scan"
          /\ i' = 0
          /\ UNCHANGED <<tableVars, buff, given, conn, backlog, connVars>>

FreeFds == {f \in ConnFds : f < limit /\ conn[f] = None}
FreeSlots == {k \in Indices : clientfd[k] = -1}

Done(n) == n <= 0

(* Go on with n descriptors left, from index k of the table.  What a next  *)
(* select overwrites is reset.                                             *)
Continue(point, n, k) ==
    /\ spc' = point
    /\ IF point = "select" THEN rset' = {} /\ nready' = 0 /\ i' = 0
       ELSE nready' = n /\ i' = k /\ UNCHANGED rset
Handled(k) == Continue(IF Done(nready - 1) THEN "select" ELSE "scan", nready - 1, k)
Goto(point) == /\ Continue(point, nready, i)
               /\ UNCHANGED <<tableVars, buff, given, conn, backlog, connVars>>

(* EMFILE (accept's other errors, which end the server too, are left out). *)
AcceptFails == /\ spc = "accept" /\ FreeFds = {} /\ limit <= FD_SETSIZE
               /\ Goto("exited")

(* A descriptor that no descriptor set has a bit for: FD_SET goes beyond   *)
(* allset, and nothing is said of what becomes of the server.              *)
TooLarge == FreeFds = {} /\ limit > FD_SETSIZE
Overrun == spc = "accept" /\ TooLarge /\ FreeSlots # {} /\ Goto("overrun")

NewMaxi(k) == IF maxi < k THEN k ELSE maxi

(* With no slot left the connection is closed and nready not decremented.  *)
Accept == /\ spc = "accept" /\ (FreeFds # {} \/ (TooLarge /\ FreeSlots = {}))
          /\ backlog' = Tail(backlog)
          /\ LET f == Min(FreeFds)
                 k == Min(FreeSlots)
             IN IF FreeSlots = {}
                THEN Continue("scan", nready, i) /\ UNCHANGED <<tableVars, conn>>
                ELSE /\ clientfd' = [clientfd EXCEPT ![k] = f]
                     /\ maxi' = NewMaxi(k)
                     /\ maxfd' = IF maxfd < f THEN f ELSE maxfd
                     /\ allset' = allset \cup {f}
                     /\ conn' = [conn EXCEPT ![f] = Head(backlog)]
                     /\ Handled(i)
          /\ UNCHANGED <<buff, given, connVars>>

----------------------------------------------------------------------------
(* The loop over clientfd goes on to the next entry whose bit is set.      *)
IsSetMutant(f) == TRUE
IsSet(f) == f \in rset
Hits == {k \in i .. maxi : clientfd[k] >= 0 /\ IsSet(clientfd[k])}
Hit == Min(Hits)
Client == conn[clientfd[Hit]]

ScanEnds == spc = "scan" /\ Hits = {} /\ Goto("select")

ReadData == /\ spc = "scan" /\ Hits # {} /\ unread[Client] > 0
            /\ \E n \in 1 .. Min({unread[Client], BuffSize}) :
                  /\ buff' = n
                  /\ unread' = [unread EXCEPT ![Client] = @ - n]
            /\ spc' = "write" /\ i' = Hit
            /\ UNCHANGED <<tableVars, rset, nready, given, conn, backlog,
                           peer, sent, written, toClient>>

ClosedMutant(f) == conn[f]   \* no close
Closed(f) == None

ClearedMutant(f) == allset
Cleared(f) == allset \ {f}

ReadEnd == /\ spc = "scan" /\ Hits # {} /\ unread[Client] = 0
           /\ peer[Client] \in {"closed", "refused", "reset"}
           /\ clientfd' = [clientfd EXCEPT ![Hit] = -1]
           /\ allset' = Cleared(clientfd[Hit])
           /\ conn' = [conn EXCEPT ![clientfd[Hit]] = Closed(clientfd[Hit])]
           /\ Handled(Hit + 1)
           /\ UNCHANGED <<maxi, maxfd, buff, given, backlog, connVars>>

ReadFails == /\ spc = "scan" /\ Hits # {} /\ unread[Client] = 0
             /\ peer[Client] = "lost" /\ toClient[Client] > 0
             /\ Goto("exited")

(* writen: the kernel takes of buff what it has room for, and the server   *)
(* stays in write until it has taken all.  A peer that has closed answers  *)
(* with a reset, which makes the write fail once it has arrived.           *)
RestMutant(n) == 0   \* write for writen
Rest(n) == buff - n

WriteBack == /\ spc = "write" /\ peer[Client] # "reset"
             /\ \E n \in 1 .. Min({buff, Capacity - toClient[Client]}) :
                   /\ written' = [written EXCEPT ![Client] = @ + n]
                   /\ toClient' = [toClient EXCEPT ![Client] = @ + n]
                   /\ buff' = Rest(n)
             /\ peer' = IF peer[Client] = "closed"
                        THEN [peer EXCEPT ![Client] = "refused"] ELSE peer
             /\ IF buff' = 0 THEN Handled(Hit + 1) ELSE Continue("write", nready, i)
             /\ UNCHANGED <<tableVars, given, conn, backlog, sent, unread>>

WriteFails == /\ spc = "write" /\ peer[Client] \in {"refused", "reset", "lost"}
              /\ Goto("exited")

Server == \/ Select \/ AcceptFails \/ Overrun \/ Accept \/ ScanEnds \/ ReadData
          \/ ReadEnd \/ ReadFails \/ WriteBack \/ WriteFails

Peer(c) == Connect(c) \/ Send(c) \/ Take(c) \/ Leave(c)

Next == (~Down /\ \E c \in Conns : Peer(c)) \/ Server

Spec == Init /\ [][Next]_vars

(* The server runs whenever it is not blocked in a system call.            *)
FairSpec == Spec /\ WF_vars(Server)

----------------------------------------------------------------------------
(* Properties.                                                             *)

TypeOK == /\ clientfd \in [Indices -> {-1} \cup ConnFds]
          /\ maxi \in -1 .. FD_SETSIZE - 1 /\ maxfd \in {listenfd} \cup ConnFds
          /\ {allset, rset, garbage} \subseteq SUBSET Indices
          /\ nready \in 0 .. FD_SETSIZE /\ (spc \in {"accept", "scan", "write"} => nready > 0)
          /\ i \in 0 .. FD_SETSIZE /\ buff \in 0 .. BuffSize
          /\ spc \in {"select", "accept", "scan", "write", "exited", "overrun"}
          /\ limit \in FDLimits
          /\ conn \in [ConnFds -> Conns \cup {None}] /\ backlog \in Seq(Conns)
          /\ peer \in [Conns -> {"new", "open", "closed", "refused", "reset", "lost"}]
          /\ {sent, unread, written} \subseteq [Conns -> Nat]
          /\ toClient \in [Conns -> 0 .. Capacity]

(* clientfd, maxi, maxfd, allset and the open descriptors agree.  Within   *)
(* what select looks at, allset never holds a closed descriptor, for which *)
(* select would fail: the missing FD_ZERO does no harm there, as every     *)
(* descriptor up to maxfd was once given out, set and cleared.             *)
TableConsistent ==
    LET used == {k \in Indices : clientfd[k] # -1}
        open == {f \in ConnFds : conn[f] # None}
    IN /\ TypeOK
       /\ {clientfd[k] : k \in used} = open
       /\ Cardinality(used) = Cardinality(open)
       /\ \A k \in used : k <= maxi /\ clientfd[k] <= maxfd
       /\ {f \in allset : f > listenfd /\ f <= maxfd} = open

(* The server sits in read() on a connection that has nothing to say only  *)
(* if an unset bit of rset, above the words select wrote, named it.        *)
BlocksOnlyByGarbage == spc = "scan" /\ Hits # {} =>
    Readable(clientfd[Hit]) \/ clientfd[Hit] \in garbage

(* In the end every connection that is still open has everything it sent   *)
(* echoed, unless the server went down, sits in read() on another one, or  *)
(* sits in writen: one client that does not read stops it for all others.  *)
Blocked == spc = "scan" /\ Hits # {} /\ ~Readable(clientfd[Hit])
Stuck == spc = "write" /\ peer[Client] = "open" /\ toClient[Client] = Capacity
Echoed == <>[](Down \/ Blocked \/ Stuck
                 \/ \A c \in Conns : peer[c] = "open" => written[c] = sent[c])

(* The server ends only because the client it is serving has gone, or      *)
(* because every descriptor below the limit is that of a client in the     *)
(* table.  The table then still has room, as four descriptors are in use   *)
(* before the first client: whatever the limit, no client is turned away   *)
(* for want of an entry (comment l.117) while allset has a bit for every   *)
(* descriptor.  First accept fails and all clients are lost, or, if the    *)
(* limit is above FD_SETSIZE, FD_SET writes beyond allset.                 *)
AllTaken == /\ {f \in ConnFds : f < limit} \subseteq {clientfd[k] : k \in Indices}
            /\ FreeSlots # {}
EndsOnlyWhenFull ==
    /\ spc = "exited" => \/ limit <= FD_SETSIZE /\ AllTaken
                         \/ Hits # {} /\ peer[Client] \in {"refused", "reset", "lost"}
    /\ spc = "overrun" => limit > FD_SETSIZE /\ AllTaken
=============================================================================
