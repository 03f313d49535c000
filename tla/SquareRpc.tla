------------------------------ MODULE SquareRpc ------------------------------
(***************************************************************************)
(* sunrpc/square1 and square2: clients that ask an RPC server over TCP for *)
(* the square of a number, once each, and wait 25 seconds for it.  The     *)
(* server registers with the port mapper and serves one call at a time;    *)
(* the one of square2 sleeps five seconds in each.  A long travels as 32   *)
(* bits, and xdr_long refuses one that does not fit.                       *)
(***************************************************************************)
EXTENDS Integers, FiniteSets

CONSTANTS Clients,
          Args,            \* numbers on the command lines
          MaxLong,         \* the largest number that fits
          Sleep, Timeout,  \* seconds, scaled
          MaxKilled, MaxInterrupted,    \* bounds on kills of the server and of clients
          Nobody

ASSUME RpcAssumption == /\ {MaxLong, Sleep, MaxKilled, MaxInterrupted} \subseteq Nat /\ Timeout \in Nat \ {0}
                        /\ Args \subseteq Int /\ Nobody \notin Clients

VARIABLES vers,                          \* 1: square1, 2: square2
          cpc, arg, age, result, mail,   \* client; mail: a reply on its way
          conn,                          \* connections to the present server
          spc, registered, pending, cur, left,   \* server; calls not yet read
          deaths, ahead          \* history: calls worked on while one waited

clientVars == <<cpc, arg, age, result>>
serverVars == <<spc, registered, cur, left>>
vars == <<vers, clientVars, mail, conn, serverVars, pending, deaths, ahead>>

Init == /\ vers \in {1, 2}
        /\ cpc = [c \in Clients |-> "start"]
        /\ arg = [c \in Clients |-> 0] /\ age = arg
        /\ result = [c \in Clients |-> <<"none">>] /\ mail = result
        /\ conn = {} /\ spc = "down" /\ registered = FALSE
        /\ pending = {} /\ cur = Nobody /\ left = 0
        /\ deaths = 0 /\ ahead = [c \in Clients |-> {}]

FitsMutant(x) == TRUE       \* cut to 32 bits
Fits(x) == x \in -MaxLong - 1 .. MaxLong
Wire(x) == ((x + MaxLong + 1) % (2 * (MaxLong + 1))) - (MaxLong + 1)   \* the lowest 32 bits
Square(x) == x * x
Duration == IF vers = 1 THEN 0 ELSE Sleep

Waiting == {c \in Clients : cpc[c] = "wait"}
Serving == spc \in {"idle", "work"}

----------------------------------------------------------------------------
(* Client.  clnt_create fails without a server that is registered and      *)
(* runs, and its NULL is used without a check.                             *)
Ends(c, from, r) == /\ cpc[c] = from
                    /\ cpc' = [cpc EXCEPT ![c] = "done"]
                    /\ result' = [result EXCEPT ![c] = r]
                    /\ age' = [age EXCEPT ![c] = 0]
                    /\ mail' = [mail EXCEPT ![c] = <<"none">>]
                    /\ UNCHANGED <<vers, conn, serverVars, pending, deaths, ahead>>

Create(c) == /\ cpc[c] = "start" /\ registered /\ Serving
             /\ cpc' = [cpc EXCEPT ![c] = "call"] /\ conn' = conn \cup {c}
             /\ UNCHANGED <<vers, arg, age, result, mail, serverVars, pending, deaths, ahead>>

CreateFails(c) == Ends(c, "start", <<"crash">>) /\ ~(registered /\ Serving) /\ UNCHANGED arg

Call(c) == /\ cpc[c] = "call" /\ c \in conn
           /\ \E x \in Args : Fits(x) /\ arg' = [arg EXCEPT ![c] = x]
           /\ cpc' = [cpc EXCEPT ![c] = "wait"] /\ pending' = pending \cup {c}
           /\ ahead' = [ahead EXCEPT ![c] = {cur} \ {Nobody}]
           /\ UNCHANGED <<vers, age, result, mail, conn, serverVars, deaths>>

CallFails(c) == /\ Ends(c, "call", <<"error">>)
                /\ \E x \in Args : (Fits(x) => c \notin conn) /\ arg' = [arg EXCEPT ![c] = x]

Returns(c, r) == Ends(c, "wait", r) /\ UNCHANGED arg
Reply(c) == Returns(c, mail[c]) /\ mail[c] # <<"none">>
Lost(c) == Returns(c, <<"error">>) /\ mail[c] = <<"none">> /\ c \notin conn
TimesOut(c) == Returns(c, <<"timeout">>) /\ mail[c] = <<"none">> /\ age[c] = Timeout

Interrupted(c) == /\ Returns(c, <<"interrupted">>)     \* by its user
                  /\ Cardinality({d \in Clients : result[d] = <<"interrupted">>}) < MaxInterrupted

Client(c) == \/ Create(c) \/ CreateFails(c) \/ Call(c) \/ CallFails(c)
             \/ Reply(c) \/ Lost(c) \/ TimesOut(c)

----------------------------------------------------------------------------
(* Server: square_svc.c and server.c.                                      *)
Unset == /\ spc = "down" /\ spc' = "register" /\ registered' = FALSE
         /\ UNCHANGED <<vers, clientVars, mail, conn, pending, cur, left, deaths, ahead>>

Register == /\ spc = "register" /\ spc' = "idle" /\ registered' = TRUE
            /\ UNCHANGED <<vers, clientVars, mail, conn, pending, cur, left, deaths, ahead>>

TakenMutant(c) == {}
Taken(c) == {c}

(* svc_run reads the calls one by one, in the order of its descriptors,    *)
(* those of clients that have gone like the others.                        *)
Dispatch(c) == /\ spc = "idle" /\ c \in pending
               /\ spc' = "work" /\ cur' = c /\ left' = Duration
               /\ pending' = pending \ Taken(c)
               /\ ahead' = [d \in Clients |-> IF d \in Waiting \ {c} THEN ahead[d] \cup {c}
                                              ELSE ahead[d]]
               /\ UNCHANGED <<vers, clientVars, mail, conn, registered, deaths>>

(* svc_sendreply sends what it has of a result that does not fit, and      *)
(* svcerr_systemerr a second reply.                                        *)
OutcomeMutant(c) == IF Fits(Square(arg[c])) THEN <<"square", Wire(Square(arg[c]))>> ELSE <<"none">>
Outcome(c) == IF Fits(Square(arg[c])) THEN <<"square", Wire(Square(arg[c]))>> ELSE <<"error">>
Finish == /\ spc = "work" /\ left = 0
          /\ spc' = "idle" /\ cur' = Nobody
          /\ mail' = IF cur \in Waiting THEN [mail EXCEPT ![cur] = Outcome(cur)] ELSE mail
          /\ UNCHANGED <<vers, clientVars, conn, registered, pending, left, deaths, ahead>>

Gone == /\ spc' = "down" /\ cur' = Nobody /\ left' = 0 /\ pending' = {} /\ conn' = {}
        /\ deaths' = deaths + 1
        /\ UNCHANGED <<vers, clientVars, mail, registered, ahead>>

(* The first of two replies to a client that has gone makes its host reset *)
(* the connection, the second then is a write to it: SIGPIPE.              *)
BrokenPipe == /\ spc = "work" /\ left = 0 /\ cpc[cur] = "done" /\ Outcome(cur) = <<"error">>
              /\ Gone

Killed == spc # "down" /\ deaths < MaxKilled /\ Gone

Server == Unset \/ Register \/ (\E c \in Clients : Dispatch(c)) \/ Finish \/ BrokenPipe

(* Time passes while nothing else is due: what is not sleep takes none.    *)
Due == \/ spc = "idle" /\ pending # {}
       \/ spc = "work" /\ left = 0
       \/ \E c \in Waiting : mail[c] # <<"none">> \/ c \notin conn \/ age[c] = Timeout
Tick == /\ ~Due /\ (Waiting # {} \/ spc = "work")
        /\ age' = [c \in Clients |-> IF c \in Waiting THEN age[c] + 1 ELSE age[c]]
        /\ left' = IF spc = "work" THEN left - 1 ELSE left
        /\ UNCHANGED <<vers, cpc, arg, result, mail, conn, spc, registered, pending, cur,
                       deaths, ahead>>

Next == (\E c \in Clients : Client(c) \/ Interrupted(c)) \/ Server \/ Killed \/ Tick

Spec == Init /\ [][Next]_vars

(* Clients and a server that is up run, and time passes; nobody need start *)
(* the server.                                                             *)
FairSpec == /\ Spec /\ (\A c \in Clients : WF_vars(Client(c)))
            /\ WF_vars(spc # "down" /\ Server) /\ WF_vars(Tick)

----------------------------------------------------------------------------
(* Properties.                                                             *)

Results == {<<"none">>, <<"error">>, <<"timeout">>, <<"crash">>, <<"interrupted">>}
             \cup {<<"square", x>> : x \in -MaxLong - 1 .. MaxLong}
TypeOK == /\ vers \in {1, 2} /\ cpc \in [Clients -> {"start", "call", "wait", "done"}]
          /\ arg \in [Clients -> Args \cup {0}] /\ age \in [Clients -> 0 .. Timeout]
          /\ {result, mail} \subseteq [Clients -> Results]
          /\ pending \subseteq conn /\ conn \subseteq Clients
          /\ spc \in {"down", "register", "idle", "work"} /\ registered \in BOOLEAN
          /\ (cur \in Clients <=> spc = "work") /\ cur \in Clients \cup {Nobody}
          /\ left \in 0 .. Sleep /\ deaths \in Nat
          /\ ahead \in [Clients -> SUBSET Clients]

(* A number that is shown is the square of the client's own argument and   *)
(* not what 32 bits leave of it, and an error is reported only where the   *)
(* argument or its square does not fit, or the server died.                *)
AnswersRight == TypeOK /\ \A c \in Clients :
    /\ result[c][1] = "square" => result[c][2] = Square(arg[c])
    /\ result[c] = <<"error">> => ~Fits(Square(arg[c])) \/ deaths > 0

(* A client gives up only if the calls worked on while it waited, with its *)
(* own, take the 25 seconds: never at square1, and at square2 the fifth at *)
(* a time may and the sixth must.  Calls of clients that have gone count.  *)
TimeoutNeedsQueue == \A c \in Clients :
    result[c] = <<"timeout">> => Timeout <= Duration * (Cardinality(ahead[c]) + 1)

(* Every client comes to an end, whatever becomes of the server.           *)
ClientsEnd == \A c \in Clients : <>(cpc[c] = "done")
=============================================================================
