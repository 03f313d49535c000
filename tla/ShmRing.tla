------------------------------ MODULE ShmRing -------------------------------
(***************************************************************************)
(* pxshm/client2.c, server2.c and cliserv2.h: a ring of NMESG messages in  *)
(* shared memory.  Clients reserve the next slot under a semaphore used as *)
(* mutex but copy their message into it after they released it; a client   *)
(* that finds no empty slot counts an overflow instead of waiting.         *)
(* A client may be killed between any two of its steps, and it may start   *)
(* while the server is still setting the object up.                        *)
(***************************************************************************)
EXTENDS Integers, Sequences, FiniteSets, FiniteSetsExt

CONSTANTS NMESG,      \* slots of the ring
          Clients,    \* client processes
          nloop,      \* messages each of them sends
          MaxKilled,  \* bound on the clients that are killed
          Nobody, Empty, Torn   \* no owner; contents of a slot

ASSUME RingAssumption == /\ NMESG \in Nat \ {0} /\ nloop \in Nat \ {0}
                         /\ MaxKilled \in Nat /\ IsFiniteSet(Clients)
                         /\ Nobody \notin Clients

Slots == 0 .. NMESG - 1
Messages == Clients \X (0 .. nloop - 1)

VARIABLES
  mutex, nempty, nstored, overflowmutex,   \* shmstruct: the semaphores and
  nput, noverflow, msgdata,                \* what they guard
  cpc, loop, reg, clash, killed,           \* clients (reg: slot or count loaded)
  spc, index, lastnoverflow,               \* server
  out, order, dropped, early, wiped        \* history, for the properties

ringVars == <<mutex, nput, order>>
countVars == <<nempty, nstored>>
textVars == <<msgdata, clash>>
overVars == <<overflowmutex, noverflow, dropped>>
serverVars == <<spc, index, lastnoverflow, out, early, wiped>>
vars == <<ringVars, countVars, textVars, overVars, cpc, loop, reg, killed, serverVars>>

Init == /\ mutex = Nobody /\ overflowmutex = Nobody
        /\ nempty = 0 /\ nstored = 0
        /\ nput = 0 /\ noverflow = 0 /\ msgdata = [s \in Slots |-> Empty]
        /\ cpc = [c \in Clients |-> "attach"] /\ loop = [c \in Clients |-> 0]
        /\ reg = [c \in Clients |-> 0] /\ clash = {} /\ killed = {}
        /\ spc = "open" /\ index = 0 /\ lastnoverflow = 0
        /\ out = << >> /\ order = << >> /\ dropped = {} /\ early = FALSE
        /\ wiped = 0

Wrap(k) == IF k >= NMESG THEN 0 ELSE k
Message(c) == <<c, loop[c]>>

Exists == spc # "open"                             \* the object has its name,
Sized == spc \notin {"open", "size"}                \* its size
Up == spc \in {"wait", "lock", "post", "overflow"}  \* and all its semaphores

Step(c, from, to) == /\ cpc[c] = from /\ c \notin killed
                     /\ cpc' = [cpc EXCEPT ![c] = to]
                     /\ UNCHANGED <<killed, serverVars>>

(* The end of a turn of the client's loop.                                 *)
Turn(c, from) == /\ Step(c, from, IF loop[c] + 1 < nloop THEN "try" ELSE "done")
                 /\ loop' = [loop EXCEPT ![c] = @ + 1]

UnlockedMutant(sem) == TRUE
Unlocked(sem) == sem = Nobody

----------------------------------------------------------------------------
(* Client: nothing that start-up may miss is checked.  Without the object  *)
(* mmap fails, without its size an access does; both kill the client.      *)
(* A client that still maps the object of an earlier server, before Open   *)
(* unlinks it, never touches this ring: here it is no other than crashed.  *)
Attach(c) == /\ Step(c, "attach", IF Exists THEN "try" ELSE "crashed")
             /\ UNCHANGED <<countVars, ringVars, overVars, textVars, loop, reg>>

Crash(c) == /\ Step(c, "try", "crashed") /\ ~Sized
            /\ UNCHANGED <<countVars, ringVars, overVars, textVars, loop, reg>>

(* With room, reserve a slot under mutex, ...                              *)
HasRoom == nempty > 0

TryWait(c) == /\ Step(c, "try", "lock") /\ HasRoom
              /\ nempty' = nempty - 1
              /\ UNCHANGED <<nstored, ringVars, overVars, textVars, loop, reg>>

LockRing(c) == /\ Step(c, "lock", "reserve") /\ Unlocked(mutex)
               /\ mutex' = c
               /\ reg' = [reg EXCEPT ![c] = nput]
               /\ UNCHANGED <<countVars, nput, order, overVars, textVars, loop>>

Reserve(c) == /\ Step(c, "reserve", "copy")
              /\ nput' = Wrap(nput + 1)
              /\ mutex' = Nobody
              /\ order' = Append(order, Message(c))
              /\ UNCHANGED <<countVars, overVars, textVars, loop, reg>>

(* ... and copy the message into it with no lock held.  Two clients that   *)
(* copy into one slot at a time may leave a mixture.                       *)
Reserved(s) == {c \in Clients : cpc[c] \in {"copy", "copying"} /\ reg[c] = s}
Copying(s) == {c \in Clients \ killed : cpc[c] = "copying" /\ reg[c] = s}

BeginCopy(c) == /\ Step(c, "copy", "copying")
                /\ clash' = IF Copying(reg[c]) = {} THEN clash \ {c}
                            ELSE clash \cup Copying(reg[c]) \cup {c}
                /\ UNCHANGED <<countVars, ringVars, overVars, msgdata, loop, reg>>

EndCopy(c) == /\ Step(c, "copying", "post")
              /\ \E m \in {Message(c)} \cup (IF c \in clash THEN {Torn} ELSE {}) :
                    msgdata' = [msgdata EXCEPT ![reg[c]] = m]
              /\ UNCHANGED <<countVars, ringVars, overVars, clash, loop, reg>>

PostStored(c) == /\ Turn(c, "post")
                 /\ nstored' = nstored + 1
                 /\ UNCHANGED <<nempty, ringVars, overVars, textVars, reg>>

(* Without room (EAGAIN), count the message as lost.                       *)
Overflow(c) == /\ Step(c, "try", "overflow") /\ Sized /\ ~HasRoom
               /\ UNCHANGED <<countVars, ringVars, overVars, textVars, loop, reg>>

LockOverflow(c) == /\ Step(c, "overflow", "count") /\ Up /\ Unlocked(overflowmutex)
                   /\ overflowmutex' = c
                   /\ reg' = [reg EXCEPT ![c] = noverflow]
                   /\ UNCHANGED <<countVars, ringVars, noverflow, dropped, textVars, loop>>

(* sem_init does not know of those that already wait, nor does sem_post    *)
(* after it: who waits for a semaphore of zeroes sleeps for ever.          *)
FallAsleep(c) == /\ Step(c, "overflow", "asleep") /\ ~Up
                 /\ UNCHANGED <<countVars, ringVars, overVars, textVars, loop, reg>>

ReleasedMutant == overflowmutex
Released == Nobody

CountOverflow(c) == /\ Turn(c, "count")
                    /\ noverflow' = reg[c] + 1
                    /\ overflowmutex' = Released
                    /\ dropped' = dropped \cup {Message(c)}
                    /\ UNCHANGED <<countVars, ringVars, textVars, reg>>

Kill(c) == /\ cpc[c] \notin {"done", "crashed"} /\ c \notin killed
           /\ Cardinality(killed) < MaxKilled
           /\ killed' = killed \cup {c}
           /\ msgdata' = IF cpc[c] = "copying" THEN [msgdata EXCEPT ![reg[c]] = Torn]
                         ELSE msgdata
           /\ UNCHANGED <<countVars, ringVars, overVars, clash, serverVars, cpc, loop, reg>>

Client(c) == \/ Attach(c) \/ Crash(c) \/ FallAsleep(c) \/ TryWait(c) \/ LockRing(c) \/ Reserve(c) \/ BeginCopy(c) \/ EndCopy(c)
             \/ PostStored(c) \/ Overflow(c) \/ LockOverflow(c) \/ CountOverflow(c)

----------------------------------------------------------------------------
(* Server.                                                                 *)
SGo(from, to) == /\ spc = from /\ spc' = to
                 /\ UNCHANGED <<ringVars, overVars, textVars, cpc, loop, reg, killed>>
SStep(from, to) == SGo(from, to) /\ UNCHANGED wiped

(* Start-up: create, truncate, and initialise the semaphores one by one.   *)
(* mutex is ready before nempty lets anybody through to it; a client that  *)
(* nempty lets through may post nstored before its sem_init.               *)
Open == SStep("open", "size") /\ UNCHANGED <<countVars, index, lastnoverflow, out, early>>
Truncate == SStep("size", "nempty") /\ UNCHANGED <<countVars, index, lastnoverflow, out, early>>
InitEmpty == /\ SStep("nempty", "nstored") /\ nempty' = NMESG
             /\ UNCHANGED <<nstored, index, lastnoverflow, out, early>>
InitStored == /\ SGo("nstored", "noverflowmutex") /\ nstored' = 0 /\ wiped' = nstored
              /\ UNCHANGED <<nempty, index, lastnoverflow, out, early>>
InitOverflow == /\ SStep("noverflowmutex", "wait")
                /\ UNCHANGED <<countVars, index, lastnoverflow, out, early>>
StartUp == Open \/ Truncate \/ InitEmpty \/ InitStored \/ InitOverflow

StoredMutant == nput # index
Stored == nstored > 0

WaitStored == /\ SStep("wait", "lock") /\ Stored
              /\ nstored' = nstored - 1
              /\ UNCHANGED <<nempty, index, lastnoverflow, out, early>>

(* Each of its two critical sections is one step: within them it writes    *)
(* only variables of its own.  A slot being copied into may print torn.    *)
PrintMessage == /\ SStep("lock", "post") /\ Unlocked(mutex)
         /\ \E m \in {msgdata[index]} \cup (IF Copying(index) = {} THEN {} ELSE {Torn}) :
               out' = Append(out, m)
         /\ index' = Wrap(index + 1)
         /\ early' = (early \/ Reserved(index) # {})
         /\ UNCHANGED <<countVars, lastnoverflow>>

FreedMutant == nempty
Freed == nempty + 1

PostEmpty == /\ SStep("post", "overflow")
             /\ nempty' = Freed
             /\ UNCHANGED <<nstored, index, lastnoverflow, out, early>>

CheckOverflow == /\ SStep("overflow", "wait") /\ Unlocked(overflowmutex)
                 /\ lastnoverflow' = noverflow
                 /\ UNCHANGED <<countVars, index, out, early>>

ServerNext == StartUp \/ WaitStored \/ PrintMessage \/ PostEmpty \/ CheckOverflow

Next == (\E c \in Clients : Client(c) \/ Kill(c)) \/ ServerNext

Spec == Init /\ [][Next]_vars

(* A process that can run does.  Semaphores need be no more than weakly    *)
(* fair: a waiter is passed over only finitely often, as the loops end.    *)
FairSpec == Spec /\ (\A c \in Clients : WF_vars(Client(c))) /\ WF_vars(ServerNext)

----------------------------------------------------------------------------
(* Properties.                                                             *)

Texts == Messages \cup {Empty, Torn}
TypeOK == /\ mutex \in Clients \cup {Nobody} /\ overflowmutex \in Clients \cup {Nobody}
          /\ nempty \in 0 .. NMESG /\ nstored \in 0 .. NMESG
          /\ nput \in Slots /\ noverflow \in Nat /\ msgdata \in [Slots -> Texts]
          /\ cpc \in [Clients -> {"attach", "crashed", "asleep", "try", "lock", "reserve", "copy", "copying",
                                  "post", "overflow", "count", "done"}]
          /\ loop \in [Clients -> 0 .. nloop] /\ reg \in [Clients -> Nat]
          /\ \A c \in Clients : cpc[c] # "done" => loop[c] < nloop
          /\ \A c \in Clients : cpc[c] \in {"reserve", "copy", "copying", "post"}
                                    => reg[c] \in Slots
          /\ clash \subseteq Clients /\ killed \subseteq Clients
          /\ Up \/ spc \in {"open", "size", "nempty", "nstored", "noverflowmutex"}
          /\ wiped \in 0 .. NMESG /\ index \in Slots
          /\ lastnoverflow \in Nat /\ out \in Seq(Texts) /\ order \in Seq(Messages)
          /\ dropped \subseteq Messages /\ early \in BOOLEAN

(* The two counting semaphores and the processes between them hold NMESG   *)
(* slots; a killed client keeps the slot it was filling for ever, and so   *)
(* does a post that the server's sem_init has undone.                      *)
Filling == {c \in Clients : cpc[c] \in {"lock", "reserve", "copy", "copying", "post"}}
Draining == IF spc \in {"lock", "post"} THEN 1 ELSE 0
SemaphoreBudget == /\ TypeOK
                   /\ nempty + nstored + Cardinality(Filling) + Draining + wiped
                        = IF spc \in {"open", "size", "nempty"} THEN 0 ELSE NMESG

(* noverflow counts the dropped messages, none lost and none twice.        *)
OverflowExact == noverflow = Cardinality(dropped)

(* At the end, if no client was killed, all have sent their messages but   *)
(* those that died of an object half set up or sleep on a semaphore of     *)
(* zeroes, and every message sent was printed or counted, but one for      *)
(* every post that was undone; those that sleep hold up nobody.            *)
Sent == MapThenSumSet(LAMBDA c : loop[c], Clients)
Drained == <>[](killed # {} \/ ( /\ \A c \in Clients : cpc[c] \in {"done", "crashed", "asleep"}
                                 /\ nempty + wiped = NMESG /\ Len(out) + wiped = Len(order)
                                 /\ Len(order) + noverflow = Sent))

(* Messages come out whole, once and in the order their slots were         *)
(* reserved, at most NMESG waiting, until the server prints a slot that a  *)
(* client has still to fill: nstored counts copies, it does not say which  *)
(* slot was copied.  That takes two clients with messages in the ring.     *)
Queue == INSTANCE DropQueue
             WITH Cap <- NMESG, delivered <- out, drops <- noverflow, broken <- early,
                  queue <- SubSeq(order, Len(out) + 1, Len(order))
ImplementsDropQueue == Queue!Spec
=============================================================================
