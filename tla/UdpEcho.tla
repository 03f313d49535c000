------------------------------- MODULE UdpEcho ------------------------------
(***************************************************************************)
(* udpcliserv/: a client that sends a line and waits for one datagram, on  *)
(* an unconnected socket (udpcli.c) or a connected one (udpcli02.c), and   *)
(* the echo server udpserv.c; or udpcli03.c, which sends and never waits,  *)
(* and udpserv02.c, which counts and tells its count on SIGINT.  The       *)
(* network loses, duplicates and reorders datagrams, and other hosts send  *)
(* to the client, too.                                                     *)
(***************************************************************************)
EXTENDS Integers, Sequences, FiniteSets

CONSTANTS MaxLines,     \* lines on standard input
          MaxDups, MaxForeign,   \* bounds: duplicates, datagrams of others
          Server, Other

ASSUME UdpAssumption == Server # Other /\ {MaxLines, MaxDups, MaxForeign} \subseteq Nat

Datagrams == [src : {Server, Other}, line : Nat, copy : Nat]

VARIABLES program,                   \* the client
          cpc, line, shown,          \* client: where, lines read, output
          server, inHand, count,     \* server; a datagram received, not counted
          refused,                   \* an ICMP error waits for the client
          toServer, toClient,          \* datagrams on their way
          lost, dups, foreign          \* what the network did

clientVars == <<program, cpc, line, shown>>
serverVars == <<server, inHand, count>>
faults == <<lost, dups, foreign>>
vars == <<clientVars, serverVars, refused, toServer, toClient, faults>>

connected == program # "udpcli"
Counting == program = "udpcli03"

Init == /\ program \in {"udpcli", "udpcli02", "udpcli03"}
        /\ cpc = "gets" /\ line = 0 /\ shown = << >>
        /\ server \in {"off", "on"} /\ inHand = 0 /\ count = 0
        /\ refused = FALSE
        /\ toServer = {} /\ toClient = {}
        /\ lost = FALSE /\ dups = 0 /\ foreign = 0

----------------------------------------------------------------------------
(* Client.                                                                 *)
Gets == /\ cpc = "gets"
        /\ \/ cpc' = "send" /\ line < MaxLines /\ line' = line + 1
           \/ cpc' = "done" /\ line' = line       \* end of file, of the loop
        /\ UNCHANGED <<program, shown, serverVars, refused, toServer, toClient, faults>>

AfterSend == IF Counting THEN "gets" ELSE "recv"

SendLine == /\ cpc = "send" /\ ~refused
            /\ cpc' = AfterSend
            /\ toServer' = toServer \cup {[src |-> Server, line |-> line, copy |-> 0]}
            /\ UNCHANGED <<program, line, shown, serverVars, refused, toClient, faults>>

IsForeign(d) == d.src # Server

(* A connected socket receives from the server only.                       *)
AcceptsMutant(d) == TRUE
Accepts(d) == connected => ~IsForeign(d)

AfterReply == "gets"

Receive == /\ cpc = "recv" /\ ~refused
           /\ \E d \in toClient :
                 /\ Accepts(d)
                 /\ toClient' = toClient \ {d}
                 /\ shown' = Append(shown, d)
           /\ cpc' = AfterReply
           /\ UNCHANGED <<program, line, serverVars, refused, toServer, faults>>

(* write and read on a connected socket return the pending error, and      *)
(* sendto, which udpcli03 does not check, returns it and sends nothing.    *)
Refused == /\ cpc \in {"send", "recv"} /\ refused
           /\ cpc' = IF Counting THEN AfterSend ELSE "done"
           /\ refused' = FALSE
           /\ UNCHANGED <<program, line, shown, serverVars, toServer, toClient, faults>>

Client == Gets \/ SendLine \/ Receive \/ Refused

----------------------------------------------------------------------------
(* The server echoes to whatever address a datagram came from, or counts;  *)
(* when it does not run its host answers with an error.                    *)
Echo == /\ server = "on" /\ ~Counting
        /\ \E d \in toServer : /\ toServer' = toServer \ {d}
                               /\ toClient' = toClient \cup {d}
        /\ UNCHANGED <<clientVars, serverVars, refused, faults>>

TakenMutant(d) == {}          \* MSG_PEEK
Taken(d) == {d}

TakeDatagram == /\ server = "on" /\ Counting /\ inHand = 0
                /\ \E d \in toServer : toServer' = toServer \ Taken(d)
                /\ inHand' = 1
                /\ UNCHANGED <<clientVars, server, count, refused, toClient, faults>>

Count == /\ server = "on" /\ inHand = 1
         /\ inHand' = 0 /\ count' = count + 1
         /\ UNCHANGED <<clientVars, server, refused, toServer, toClient, faults>>

Serve == Echo \/ TakeDatagram \/ Count

ReportedMutant == FALSE       \* no connect()
Reported == connected /\ cpc # "done"

Unreachable == /\ server # "on"
               /\ \E d \in toServer : toServer' = toServer \ {d}
               /\ refused' = Reported
               /\ lost' = (lost \/ program # "udpcli02")
               /\ UNCHANGED <<clientVars, serverVars, toClient, dups, foreign>>

ServerStarts == /\ server = "off"
                /\ server' = "on"
                /\ UNCHANGED <<clientVars, inHand, count, refused, toServer, toClient, faults>>

(* SIGINT or a kill; the handler of udpserv02 tells count as it is.        *)
ServerDies == /\ server = "on"
              /\ server' = "dead"
              /\ UNCHANGED <<clientVars, inHand, count, refused, toServer, toClient, faults>>

(* Network.                                                                *)
Lose == /\ \E d \in toServer \cup toClient : /\ toServer' = toServer \ {d}
                                             /\ toClient' = toClient \ {d}
        /\ lost' = TRUE
        /\ UNCHANGED <<clientVars, serverVars, refused, dups, foreign>>

Duplicate == /\ dups < MaxDups
             /\ dups' = dups + 1
             /\ \/ /\ \E d \in toServer :
                         toServer' = toServer \cup {[d EXCEPT !.copy = dups']}
                   /\ UNCHANGED toClient
                \/ /\ \E d \in toClient :
                         toClient' = toClient \cup {[d EXCEPT !.copy = dups']}
                   /\ UNCHANGED toServer
             /\ UNCHANGED <<clientVars, serverVars, refused, lost, foreign>>

(* Once it has sent, the client has a port that others can send to (one    *)
(* that udpcli03 never reads).                                             *)
Foreign == /\ foreign < MaxForeign /\ line > 0 /\ ~Counting
           /\ foreign' = foreign + 1
           /\ toClient' = toClient \cup {[src |-> Other, line |-> foreign, copy |-> 0]}
           /\ UNCHANGED <<clientVars, serverVars, refused, toServer, lost, dups>>

Next == Client \/ Serve \/ Unreachable \/ ServerStarts \/ ServerDies \/ Lose \/ Duplicate \/ Foreign

Spec == Init /\ [][Next]_vars

(* Client and server run, and what is not lost arrives.                    *)
FairSpec == Spec /\ WF_vars(Client) /\ WF_vars(Serve) /\ WF_vars(Unreachable)

----------------------------------------------------------------------------
(* Properties.                                                             *)

TypeOK == /\ cpc \in {"gets", "send", "recv", "done"} /\ line \in 0 .. MaxLines
          /\ shown \in Seq(Datagrams) /\ Len(shown) <= line
          /\ server \in {"off", "on", "dead"} /\ inHand \in {0, 1} /\ count \in Nat
          /\ {toServer, toClient} \subseteq SUBSET Datagrams
          /\ {refused, lost} \subseteq BOOLEAN
          /\ dups \in 0 .. MaxDups /\ foreign \in 0 .. MaxForeign

(* An answer is the echo of a line that was sent before it, and when the   *)
(* client reads its next line at most one earlier line per duplicate, or   *)
(* for udpcli per datagram of another host, has not been answered yet.     *)
(* Without them each line is answered by its own echo.                     *)
Strays == dups + (IF connected THEN 0 ELSE foreign)
Answers == {k \in 1 .. Len(shown) : ~IsForeign(shown[k])}
AnswersLag ==
    /\ TypeOK
    /\ \A k \in Answers : shown[k].line <= k
    /\ cpc = "gets" /\ ~Counting
          => Cardinality({shown[k].line : k \in Answers}) >= line - Strays

(* udpserv02 never tells of more datagrams than were sent or doubled, and  *)
(* unless one was lost it misses only those it has not read and the one it *)
(* had read when SIGINT came but not counted.                              *)
Sent == line - (IF cpc = "send" THEN 1 ELSE 0)
CountExact == Counting =>
    /\ count <= Sent + dups
    /\ ~lost => count + inHand + Cardinality(toServer) = Sent + dups

(* The client is answered to the end unless a datagram was lost; that also *)
(* happens to those an unconnected client sends to a server that is off or *)
(* dead, while the connected one learns of it.  udpcli03 always ends.      *)
Answered == <>(cpc = "done" \/ (lost /\ ~Counting))
=============================================================================
