------------------------------ MODULE HalfClose ------------------------------
(***************************************************************************)
(* select_echo/tcpcli.c: the client that waits in select() for standard    *)
(* input and for its socket, and at end of input shuts down its half of    *)
(* the connection and goes on reading; with the echoing process of either  *)
(* server, which reads and then writes, over sockets of bounded capacity.  *)
(***************************************************************************)
EXTENDS Integers, SequencesExt, FiniteSetsExt

CONSTANTS MaxInput,   \* bytes on standard input
          BuffSize,   \* sizeof(sendline), sizeof(readline), sizeof(buff)
          Capacity,   \* bytes one direction of the connection holds
          MaxJunk     \* bound on what strlen finds behind a full sendline

ASSUME HalfCloseAssumption == /\ {MaxInput, MaxJunk} \subseteq Nat
                              /\ {BuffSize, Capacity} \subseteq Nat \ {0}

Bytes == {"nul", "other"}

VARIABLES stdin, stdineof, rset, cpc, left,   \* client; bytes left to write
          shut, toServer, toClient,           \* connection
          spc, buff, died,                    \* peer
          input, exact, sent, printed         \* history: lengths; sendline was
                                              \* always a string
clientVars == <<stdin, stdineof, rset, cpc, left, shut, input, exact, sent, printed>>
serverVars == <<spc, buff, died>>
vars == <<clientVars, serverVars, toServer, toClient>>

Init == /\ stdin \in SeqOf(Bytes, MaxInput) /\ input = Len(stdin)
        /\ stdineof = FALSE /\ rset = {} /\ cpc = "select" /\ left = 0
        /\ shut = FALSE /\ toServer = 0 /\ toClient = 0
        /\ spc = "read" /\ buff = 0 /\ died = FALSE
        /\ exact = TRUE /\ sent = 0 /\ printed = 0

----------------------------------------------------------------------------
(* Client.  Standard input is ready at a time of its own; rset is never    *)
(* zeroed, so that select waits again for what was ready the last time.    *)
Step(from, to) == cpc = from /\ cpc' = to /\ UNCHANGED serverVars

Watched == rset \cup {"sock"} \cup (IF stdineof THEN {} ELSE {"stdin"})
SockReady == toClient > 0 \/ spc = "closed"

Select == /\ rset' \in SUBSET Watched /\ rset' # {}
          /\ "sock" \in rset' <=> SockReady
          /\ Step("select", IF SockReady THEN "sock" ELSE "stdin")
          /\ UNCHANGED <<stdin, stdineof, left, shut, input, exact, sent, printed,
                         toServer, toClient>>

ReadSock == /\ Step("sock", IF "stdin" \in rset THEN "stdin" ELSE "select")
            /\ \E n \in 1 .. Min({toClient, BuffSize}) :
                  /\ toClient' = toClient - n
                  /\ printed' = printed + n
            /\ UNCHANGED <<stdin, stdineof, rset, left, shut, input, exact, sent, toServer>>

SockEof == /\ Step("sock", "done") /\ toClient = 0
           /\ UNCHANGED <<stdin, stdineof, rset, left, shut, input, exact, sent, printed,
                          toServer, toClient>>

(* strlen(sendline) stops at a nul byte, and does not stop at the end of a *)
(* sendline that was filled.                                               *)
Nuls(n) == {k \in 1 .. n : stdin[k] = "nul"}
Lengths(n) == IF Nuls(n) # {} THEN {Min(Nuls(n)) - 1}
              ELSE IF n = BuffSize THEN n .. n + MaxJunk ELSE {n}

ReadStdin == /\ Step("stdin", "write") /\ stdin # << >>
             /\ \E n \in 1 .. Min({Len(stdin), BuffSize}) :
                   /\ left' \in Lengths(n)
                   /\ stdin' = SubSeq(stdin, n + 1, Len(stdin))
                   /\ exact' = (exact /\ left' = n)
             /\ sent' = sent + left'
             /\ UNCHANGED <<stdineof, rset, shut, input, printed, toServer, toClient>>

ShutMutant == FALSE       \* no shutdown
Shut == TRUE
Cleared == rset \ {"stdin"}
AfterEofMutant == "done"  \* return at end of input
AfterEof == "select"

StdinEof == /\ Step("stdin", AfterEof) /\ stdin = << >>
            /\ stdineof' = TRUE /\ shut' = Shut /\ rset' = Cleared
            /\ UNCHANGED <<stdin, left, input, exact, sent, printed,
                           toServer, toClient>>

(* writen: as much as there is room for, until nothing is left.            *)
WriteSome == /\ Step("write", "write")
             /\ \E n \in 1 .. Min({left, Capacity - toServer}) :
                   /\ toServer' = toServer + n
                   /\ left' = left - n
             /\ UNCHANGED <<stdin, stdineof, rset, shut, input, exact, sent, printed, toClient>>

Written == /\ Step("write", "select") /\ left = 0
           /\ UNCHANGED <<stdin, stdineof, rset, left, shut, input, exact, sent, printed,
                          toServer, toClient>>

WriteFails == /\ Step("write", "done") /\ left > 0 /\ spc = "closed"
              /\ UNCHANGED <<stdin, stdineof, rset, left, shut, input, exact, sent, printed,
                             toServer, toClient>>

Client == \/ Select \/ ReadSock \/ SockEof \/ ReadStdin \/ StdinEof
          \/ WriteSome \/ Written \/ WriteFails

----------------------------------------------------------------------------
(* The echoing process.                                                    *)
Read == /\ spc = "read" /\ spc' = "write"
        /\ \E n \in 1 .. Min({toServer, BuffSize}) :
              toServer' = toServer - n /\ buff' = n
        /\ UNCHANGED <<clientVars, died, toClient>>

WriteBack == /\ spc = "write"
             /\ \E n \in 1 .. Min({buff, Capacity - toClient}) :
                   /\ toClient' = toClient + n
                   /\ buff' = buff - n
             /\ spc' = IF buff' = 0 THEN "read" ELSE "write"
             /\ UNCHANGED <<clientVars, died, toServer>>

Close == /\ spc = "read" /\ toServer = 0 /\ shut
         /\ spc' = "closed"
         /\ UNCHANGED <<clientVars, buff, died, toServer, toClient>>

Dies == /\ spc # "closed"
        /\ spc' = "closed" /\ died' = TRUE
        /\ UNCHANGED <<clientVars, buff, toServer, toClient>>

Server == Read \/ WriteBack \/ Close

Next == Client \/ Server \/ Dies

Spec == Init /\ [][Next]_vars

(* Both run when they can, and standard input comes to its end.            *)
FairSpec == Spec /\ WF_vars(Client) /\ WF_vars(Server)

----------------------------------------------------------------------------
(* Properties.                                                             *)

TypeOK == /\ stdin \in Seq(Bytes) /\ Len(stdin) <= input
          /\ rset \subseteq {"sock", "stdin"}
          /\ cpc \in {"select", "sock", "stdin", "write", "done"}
          /\ spc \in {"read", "write", "closed"}
          /\ {stdineof, shut, died, exact} \subseteq BOOLEAN
          /\ left \in 0 .. BuffSize + MaxJunk /\ buff \in 0 .. BuffSize
          /\ {toServer, toClient} \subseteq 0 .. Capacity
          /\ {sent, printed} \subseteq Nat /\ (stdineof => stdin = << >> /\ "stdin" \notin rset)

(* When the client ends while its server still lived, everything it read   *)
(* was echoed and printed: nothing that was on its way at end of input is  *)
(* lost, and input is changed only by strlen.                              *)
AllEchoed == /\ TypeOK
             /\ cpc = "done" /\ ~died => stdineof /\ printed = sent /\ (exact => sent = input)

(* The client ends, unless it and the server wait for each other in writen *)
(* with both directions full, which takes more input than they hold.       *)
Deadlocked == /\ cpc = "write" /\ left > 0 /\ toServer = Capacity
              /\ spc = "write" /\ toClient = Capacity
Ends == <>(cpc = "done" \/ (Deadlocked /\ sent > 2 * Capacity))
=============================================================================
