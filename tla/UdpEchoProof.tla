---------------------------- MODULE UdpEchoProof ----------------------------
(***************************************************************************)
(* UdpEcho for any number of lines, duplicates and datagrams of others:    *)
(* which lines have been answered, and what the counting server tells.     *)
(***************************************************************************)
EXTENDS UdpEcho, FiniteSetTheorems, FunctionTheorems, TLAPS

USE UdpAssumption

----------------------------------------------------------------------------
(* The inductive invariant.                                                *)

(* The client is never more than one answer behind.                        *)
Pace == /\ cpc = "send" => line > 0
        /\ IF Counting THEN cpc # "recv" /\ shown = << >> /\ toClient = {}
           ELSE /\ cpc = "gets" => Len(shown) = line
                /\ cpc \in {"send", "recv"} => Len(shown) = line - 1

(* Every datagram, on its way or shown, was sent, doubled or foreign.      *)
Places == toServer \cup toClient \cup {shown[k] : k \in 1 .. Len(shown)}
Known == /\ \A d \in Places : /\ d.copy <= dups
                              /\ d.src = Server => 1 <= d.line /\ d.line <= Sent
                              /\ d.src = Other => d.line < foreign
         /\ \A d \in toServer : d.src = Server
         /\ \A k \in 1 .. Len(shown) : ~IsForeign(shown[k]) => shown[k].line <= k
         /\ connected => \A k \in 1 .. Len(shown) : ~IsForeign(shown[k])

(* A datagram is in one place, and each duplicate is one of its kind.      *)
Apart == /\ toServer \cap toClient = {}
         /\ \A k \in 1 .. Len(shown) : shown[k] \notin toServer \cup toClient
         /\ \A j, k \in 1 .. Len(shown) : shown[j] = shown[k] => j = k
CopyOnce == \A d, e \in Places : d.copy = e.copy /\ d.copy > 0 => d = e

(* What has become of the datagrams sent to the counting server.           *)
Tally == Counting => /\ IsFiniteSet(toServer)
                     /\ count + inHand + Cardinality(toServer) <= Sent + dups
                     /\ ~lost => count + inHand + Cardinality(toServer) = Sent + dups
                     /\ refused => lost

IInv == TypeOK /\ Pace /\ Known /\ Apart /\ CopyOnce /\ Tally

----------------------------------------------------------------------------
LEMMA Shape ==
    ASSUME TypeOK
    PROVE  /\ \A d \in Places : /\ d \in Datagrams /\ d.line \in Nat /\ d.copy \in Nat
                                /\ d.src \in {Server, Other}
           /\ line \in Nat /\ Sent \in Int /\ dups \in Nat /\ foreign \in Nat
           /\ Len(shown) \in Nat /\ count \in Nat /\ inHand \in Nat
<1>1. \A d \in Places : d \in Datagrams
  BY DEF TypeOK, Places
<1>2. \A d \in Datagrams : d.line \in Nat /\ d.copy \in Nat /\ d.src \in {Server, Other}
  BY DEF Datagrams
<1>3. /\ line \in Nat /\ Sent \in Int /\ dups \in Nat /\ foreign \in Nat
      /\ Len(shown) \in Nat /\ count \in Nat /\ inHand \in Nat
  BY DEF TypeOK, Sent
<1> QED
  BY <1>1, <1>2, <1>3

LEMMA ShapeNext ==
    TypeOK' => /\ \A d \in Places' : d.line \in Nat /\ d.copy \in Nat
               /\ Sent' \in Int /\ dups' \in Nat /\ foreign' \in Nat
<1>1. TypeOK' => \A d \in Places' : d \in Datagrams
  BY DEF TypeOK, Places
<1>2. \A d \in Datagrams : d.line \in Nat /\ d.copy \in Nat
  BY DEF Datagrams
<1>3. TypeOK' => Sent' \in Int /\ dups' \in Nat /\ foreign' \in Nat
  BY DEF TypeOK, Sent
<1> QED
  BY <1>1, <1>2, <1>3

LEMMA InitInv == Init => IInv
<1> SUFFICES ASSUME Init PROVE IInv
  OBVIOUS
<1>1. Places = {} /\ Len(shown) = 0 /\ Sent = 0 /\ cpc = "gets" /\ line = 0
  BY DEF Init, Places, Sent
<1>2. TypeOK
  <2>1. shown \in Seq(Datagrams) /\ Len(shown) <= line
    BY <1>1 DEF Init
  <2>2. {refused, lost} \subseteq BOOLEAN
    BY Zenon DEF Init
  <2>3. {toServer, toClient} \subseteq SUBSET Datagrams
    BY DEF Init
  <2>4. /\ cpc \in {"gets", "send", "recv", "done"} /\ line \in 0 .. MaxLines
        /\ server \in {"off", "on", "dead"} /\ inHand \in {0, 1} /\ count \in Nat
        /\ dups \in 0 .. MaxDups /\ foreign \in 0 .. MaxForeign
    BY DEF Init
  <2> QED
    BY <2>1, <2>2, <2>3, <2>4, Zenon DEF TypeOK
<1>3. Pace /\ Apart
  BY <1>1 DEF Init, Pace, Apart
<1>4. Known /\ CopyOnce
  BY <1>1 DEF Init, Known, CopyOnce
<1>5. Tally
  BY <1>1, FS_EmptySet DEF Init, Tally
<1> QED
  BY <1>2, <1>3, <1>4, <1>5 DEF IInv

(* A step that brings no new datagram.                                     *)
LEMMA NoneNew ==
    ASSUME IInv, UNCHANGED <<program, cpc, line, shown, dups, foreign>>,
           toServer' \subseteq toServer, toClient' \subseteq toClient \cup toServer,
           toServer' \cap toClient' = {}, Counting => toClient' = {}
    PROVE  Pace' /\ Known' /\ Apart' /\ CopyOnce'
<1>1. Places' \subseteq Places
  BY DEF Places
<1>2. Pace'
  BY DEF IInv, Pace, Counting
<1>3. Known'
  BY <1>1 DEF IInv, Known, Sent, IsForeign, connected
<1>4. Apart'
  BY DEF IInv, Apart
<1>5. CopyOnce'
  BY <1>1 DEF IInv, CopyOnce
<1> QED
  BY <1>2, <1>3, <1>4, <1>5

(* A step that brings one.                                                 *)
LEMMA OneNew ==
    ASSUME IInv, TypeOK', NEW d, d \notin Places, UNCHANGED <<program, line, shown>>,
           \/ toServer' = toServer \cup {d} /\ toClient' = toClient /\ d.src = Server
           \/ toServer' = toServer /\ toClient' = toClient \cup {d},
           d.copy <= dups', dups <= dups', foreign <= foreign', Sent <= Sent',
           d.src = Server => 1 <= d.line /\ d.line <= Sent',
           d.src = Other => d.line < foreign',
           d.copy > 0 => \A e \in Places : e.copy < d.copy
    PROVE  Known' /\ Apart' /\ CopyOnce'
<1>1. Places' = Places \cup {d}
  BY DEF Places
<1>2. /\ \A e \in Places' : e.line \in Nat /\ e.copy \in Nat
      /\ Sent' \in Int /\ dups' \in Nat /\ foreign' \in Nat
  BY ShapeNext
<1>3. /\ \A e \in Places : /\ e.line \in Nat /\ e.copy \in Nat
                           /\ e.copy <= dups
                           /\ e.src = Server => 1 <= e.line /\ e.line <= Sent
                           /\ e.src = Other => e.line < foreign
      /\ Sent \in Int /\ dups \in Nat /\ foreign \in Nat
  BY Shape DEF IInv, Known
<1>4. \A e \in Places' : /\ e.copy <= dups'
                         /\ e.src = Server => 1 <= e.line /\ e.line <= Sent'
                         /\ e.src = Other => e.line < foreign'
  BY <1>1, <1>2, <1>3
<1>5. Known'
  <2>1. \A e \in toServer' : e.src = Server
    BY DEF IInv, Known
  <2>2. /\ \A k \in 1 .. Len(shown') : ~IsForeign(shown'[k]) => shown'[k].line <= k
        /\ connected' => \A k \in 1 .. Len(shown') : ~IsForeign(shown'[k])
    BY DEF IInv, Known, IsForeign, connected
  <2> QED
    BY <1>4, <2>1, <2>2 DEF Known, IsForeign
<1>6. Apart'
  BY DEF IInv, Apart, Places
<1>7. CopyOnce'
  <2>1. ASSUME NEW e \in Places', NEW f \in Places', e.copy = f.copy, e.copy > 0
        PROVE  e = f
    <3>1. CASE e \in Places /\ f \in Places
      BY <2>1, <3>1 DEF IInv, CopyOnce
    <3>2. CASE e = d /\ f \in Places
      BY <2>1, <3>2, <1>2, <1>3
    <3>3. CASE e \in Places /\ f = d
      BY <2>1, <3>3, <1>2, <1>3
    <3> QED
      BY <1>1, <3>1, <3>2, <3>3
  <2> QED
    BY <2>1 DEF CopyOnce
<1> QED
  BY <1>5, <1>6, <1>7

(* The datagrams that wait for the counting server, one more or less.      *)
LEMMA Waiting ==
    ASSUME IsFiniteSet(toServer), NEW d
    PROVE  /\ Cardinality(toServer) \in Nat
           /\ IsFiniteSet(toServer \ {d}) /\ IsFiniteSet(toServer \cup {d})
           /\ Cardinality(toServer \ {d}) = Cardinality(toServer) - (IF d \in toServer THEN 1 ELSE 0)
           /\ Cardinality(toServer \cup {d}) = Cardinality(toServer) + (IF d \in toServer THEN 0 ELSE 1)
<1>1. Cardinality(toServer) \in Nat
  BY FS_CardinalityType
<1> QED
  BY <1>1, FS_RemoveElement, FS_AddElement

----------------------------------------------------------------------------
(* The client.                                                             *)
LEMMA GetsKeeps == ASSUME IInv, Gets PROVE IInv'
<1>1. /\ UNCHANGED <<program, shown, server, inHand, count, refused, toServer, toClient>>
      /\ UNCHANGED <<lost, dups, foreign>> /\ cpc = "gets"
      /\ \/ cpc' = "send" /\ line < MaxLines /\ line' = line + 1
         \/ cpc' = "done" /\ line' = line
  BY DEF Gets, serverVars, faults
<1>2. line \in 0 .. MaxLines /\ MaxLines \in Nat /\ Len(shown) \in Nat
      /\ shown \in Seq(Datagrams) /\ Len(shown) <= line
  BY Shape DEF IInv, TypeOK
<1>3. Sent' = Sent /\ Places' = Places
  BY <1>1, <1>2 DEF Sent, Places
<1>4. TypeOK'
  <2>1. line' \in 0 .. MaxLines /\ Len(shown') <= line' /\ shown' \in Seq(Datagrams)
        /\ cpc' \in {"gets", "send", "recv", "done"}
    BY <1>1, <1>2
  <2> QED
    BY <1>1, <2>1, Zenon DEF IInv, TypeOK
<1>5. Pace'
  BY <1>1, <1>2 DEF IInv, Pace, Counting
<1>6. Known'
  BY <1>1, <1>3 DEF IInv, Known, IsForeign, connected
<1>7. Apart' /\ CopyOnce'
  BY <1>1, <1>3 DEF IInv, Apart, CopyOnce
<1>8. Tally'
  BY <1>1, <1>3 DEF IInv, Tally, Counting
<1> QED
  BY <1>4, <1>5, <1>6, <1>7, <1>8 DEF IInv

LEMMA SendLineKeeps == ASSUME IInv, SendLine PROVE IInv'
<1> DEFINE d == [src |-> Server, line |-> line, copy |-> 0]
<1>1. /\ UNCHANGED <<program, line, shown, server, inHand, count, refused, toClient>>
      /\ UNCHANGED <<lost, dups, foreign>> /\ cpc = "send"
      /\ cpc' = IF Counting THEN "gets" ELSE "recv"
      /\ toServer' = toServer \cup {d}
  BY DEF SendLine, serverVars, faults, AfterSend
<1>2. /\ d \in Datagrams /\ d.src = Server /\ d.line = line /\ d.copy = 0
      /\ line \in Nat /\ dups \in Nat
  <2>1. line \in Nat /\ dups \in Nat
    BY Shape DEF IInv
  <2> QED
    BY <2>1 DEF Datagrams
<1>3. Sent = line - 1 /\ Sent' = line /\ 1 <= line
  <2>1. Sent = line - 1 /\ Sent' = line
    BY <1>1, <1>2 DEF Sent
  <2>2. 1 <= line
    BY <1>1, <1>2 DEF IInv, Pace
  <2> QED
    BY <2>1, <2>2
<1> HIDE DEF d
<1>4. d \notin Places
  BY <1>2, <1>3, Shape DEF IInv, Known
<1>5. TypeOK'
  <2>1. toServer' \subseteq Datagrams /\ cpc' \in {"gets", "send", "recv", "done"}
    BY <1>1, <1>2 DEF IInv, TypeOK
  <2> QED
    BY <1>1, <2>1 DEF IInv, TypeOK
<1>6. Known' /\ Apart' /\ CopyOnce'
  BY <1>1, <1>2, <1>3, <1>4, <1>5, OneNew, Shape, UdpAssumption DEF IInv
<1>7. Pace'
  BY <1>1 DEF IInv, Pace, Counting
<1>8. Tally'
  <2>1. ASSUME Counting
        PROVE  /\ IsFiniteSet(toServer') /\ (refused' => lost')
               /\ count' + inHand' + Cardinality(toServer') <= Sent' + dups'
               /\ ~lost' => count' + inHand' + Cardinality(toServer') = Sent' + dups'
    <3>1. /\ IsFiniteSet(toServer) /\ (refused => lost)
          /\ count + inHand + Cardinality(toServer) <= Sent + dups
          /\ ~lost => count + inHand + Cardinality(toServer) = Sent + dups
      BY <2>1 DEF IInv, Tally
    <3>2. /\ Cardinality(toServer) \in Nat /\ IsFiniteSet(toServer')
          /\ Cardinality(toServer') = Cardinality(toServer) + 1
      BY <1>1, <1>4, <3>1, Waiting DEF Places
    <3>3. count \in Nat /\ inHand \in Nat
      BY Shape DEF IInv
    <3> QED
      BY <1>1, <1>2, <1>3, <3>1, <3>2, <3>3
  <2>2. Counting' <=> Counting
    BY <1>1 DEF Counting
  <2> QED
    BY <2>1, <2>2 DEF Tally
<1> QED
  BY <1>5, <1>6, <1>7, <1>8 DEF IInv

LEMMA ReceiveKeeps == ASSUME IInv, Receive PROVE IInv'
<1>1. PICK d \in toClient : Accepts(d) /\ toClient' = toClient \ {d} /\ shown' = Append(shown, d)
  BY DEF Receive
<1>2. /\ UNCHANGED <<program, line, server, inHand, count, refused, toServer>>
      /\ UNCHANGED <<lost, dups, foreign>> /\ cpc = "recv" /\ cpc' = "gets"
  BY DEF Receive, serverVars, faults, AfterReply
<1>3. /\ shown \in Seq(Datagrams) /\ d \in Datagrams /\ d \in Places
      /\ Len(shown) = line - 1 /\ line \in Nat /\ ~Counting /\ Sent = line /\ Sent' = line
  <2>1. shown \in Seq(Datagrams) /\ d \in Datagrams /\ line \in Nat
    BY Shape, <1>1 DEF IInv, TypeOK
  <2>2. Sent = line /\ Sent' = line
    BY <1>2, <2>1 DEF Sent
  <2>3. Len(shown) = line - 1 /\ ~Counting
    BY <1>2 DEF IInv, Pace
  <2> QED
    BY <1>1, <2>1, <2>2, <2>3 DEF Places
<1>4. /\ Len(shown') = line /\ shown'[line] = d
      /\ \A k \in 1 .. line : k # line => k \in 1 .. Len(shown) /\ shown'[k] = shown[k]
      /\ \A k \in 1 .. Len(shown) : k \in 1 .. line /\ shown'[k] = shown[k]
      /\ shown' \in Seq(Datagrams) /\ (1 <= line => line \in 1 .. line)
  BY <1>1, <1>3
<1>5. Places' \subseteq Places
  BY <1>1, <1>2, <1>3, <1>4 DEF Places
<1>6. TypeOK'
  BY <1>1, <1>2, <1>3, <1>4 DEF IInv, TypeOK
<1>7. Pace'
  BY <1>2, <1>3, <1>4 DEF Pace, Counting
<1>8. Known'
  <2>1. \A k \in 1 .. Len(shown') : ~IsForeign(shown'[k]) => shown'[k].line <= k
    <3>1. ASSUME NEW k \in 1 .. line, ~IsForeign(shown'[k])
          PROVE  shown'[k].line <= k
      <4>1. CASE k = line
        BY <1>3, <1>4, <3>1, <4>1 DEF IInv, Known, IsForeign
      <4>2. CASE k # line
        BY <1>4, <3>1, <4>2 DEF IInv, Known, IsForeign
      <4> QED
        BY <4>1, <4>2
    <3> QED
      BY <1>4, <3>1 DEF IsForeign
  <2>2. connected' => \A k \in 1 .. Len(shown') : ~IsForeign(shown'[k])
    BY <1>1, <1>2, <1>4 DEF IInv, Known, IsForeign, connected, Accepts
  <2>3. /\ \A e \in Places' : /\ e.copy <= dups'
                              /\ e.src = Server => 1 <= e.line /\ e.line <= Sent'
                              /\ e.src = Other => e.line < foreign'
        /\ \A e \in toServer' : e.src = Server
    BY <1>2, <1>3, <1>5 DEF IInv, Known
  <2> QED
    BY <2>1, <2>2, <2>3 DEF Known, IsForeign
<1>9. Apart'
  BY <1>1, <1>2, <1>4 DEF IInv, Apart
<1>10. CopyOnce'
  BY <1>5 DEF IInv, CopyOnce
<1>11. Tally'
  BY <1>2, <1>3 DEF Tally, Counting
<1> QED
  BY <1>6, <1>7, <1>8, <1>9, <1>10, <1>11 DEF IInv

LEMMA RefusedKeeps == ASSUME IInv, Refused PROVE IInv'
<1>1. /\ UNCHANGED <<program, line, shown, server, inHand, count, toServer, toClient>>
      /\ UNCHANGED <<lost, dups, foreign>> /\ cpc \in {"send", "recv"} /\ refused
      /\ refused' = FALSE
      /\ cpc' = IF Counting THEN "gets" ELSE "done"
  BY DEF Refused, serverVars, faults, AfterSend
<1>2. Places' = Places /\ Sent <= Sent' /\ Sent \in Int /\ Sent' \in Int
  BY <1>1, Shape DEF Places, Sent, IInv
<1>3. TypeOK'
  <2>1. cpc' \in {"gets", "send", "recv", "done"} /\ {refused', lost'} \subseteq BOOLEAN
    BY <1>1 DEF IInv, TypeOK
  <2> QED
    BY <1>1, <2>1, Zenon DEF IInv, TypeOK
<1>4. Pace'
  BY <1>1 DEF IInv, Pace, Counting
<1>5. Known'
  <2>1. \A e \in Places : e.line \in Nat
    BY Shape DEF IInv
  <2>2. \A e \in Places' : /\ e.copy <= dups'
                           /\ e.src = Server => 1 <= e.line /\ e.line <= Sent'
                           /\ e.src = Other => e.line < foreign'
    BY <1>1, <1>2, <2>1 DEF IInv, Known
  <2> QED
    BY <1>1, <2>2 DEF IInv, Known, IsForeign, connected
<1>6. Apart' /\ CopyOnce'
  BY <1>1, <1>2 DEF IInv, Apart, CopyOnce
<1>7. Tally'
  <2>1. ASSUME Counting
        PROVE  /\ lost' /\ ~refused' /\ IsFiniteSet(toServer')
               /\ count' + inHand' + Cardinality(toServer') <= Sent' + dups'
    <3>1. /\ IsFiniteSet(toServer) /\ lost
          /\ count + inHand + Cardinality(toServer) <= Sent + dups
      BY <1>1, <2>1 DEF IInv, Tally
    <3>2. Cardinality(toServer) \in Nat /\ count \in Nat /\ inHand \in Nat /\ dups \in Nat
      BY <3>1, Waiting, Shape DEF IInv
    <3> QED
      BY <1>1, <1>2, <3>1, <3>2
  <2>2. Counting' <=> Counting
    BY <1>1 DEF Counting
  <2> QED
    BY <2>1, <2>2 DEF Tally
<1> QED
  BY <1>3, <1>4, <1>5, <1>6, <1>7 DEF IInv

----------------------------------------------------------------------------
(* The server, and the network.                                            *)

(* Datagrams go: each that the counting server does not take is lost.      *)
LEMMA TallyKeeps ==
    ASSUME IInv, NEW d \in Places, Counting => d \in toServer,
           UNCHANGED <<program, cpc, line, dups>>,
           Counting => /\ toServer' = toServer \ {d}
                       /\ \/ lost' /\ count' + inHand' = count + inHand
                          \/ UNCHANGED <<lost, refused>> /\ count' + inHand' = count + inHand + 1
    PROVE  Tally'
<1>1. ASSUME Counting
      PROVE  /\ IsFiniteSet(toServer') /\ (refused' => lost')
             /\ count' + inHand' + Cardinality(toServer') <= Sent' + dups'
             /\ ~lost' => count' + inHand' + Cardinality(toServer') = Sent' + dups'
  <2>1. /\ IsFiniteSet(toServer) /\ (refused => lost)
        /\ count + inHand + Cardinality(toServer) <= Sent + dups
        /\ ~lost => count + inHand + Cardinality(toServer) = Sent + dups
    BY <1>1 DEF IInv, Tally
  <2>2. /\ Cardinality(toServer) \in Nat /\ IsFiniteSet(toServer')
        /\ Cardinality(toServer') = Cardinality(toServer) - 1
    BY <1>1, <2>1, Waiting
  <2>3. count \in Nat /\ inHand \in Nat /\ Sent \in Int /\ dups \in Nat
    BY Shape DEF IInv
  <2>4. Sent' = Sent
    BY DEF Sent
  <2> QED
    BY <1>1, <2>1, <2>2, <2>3, <2>4
<1>2. Counting' <=> Counting
  BY DEF Counting
<1> QED
  BY <1>1, <1>2 DEF Tally

LEMMA EchoKeeps == ASSUME IInv, Echo PROVE IInv'
<1>1. PICK d \in toServer : toServer' = toServer \ {d} /\ toClient' = toClient \cup {d}
  BY DEF Echo
<1>2. /\ UNCHANGED <<program, cpc, line, shown, server, inHand, count, refused>>
      /\ UNCHANGED <<lost, dups, foreign>> /\ ~Counting /\ ~Counting'
  BY DEF Echo, clientVars, serverVars, faults, Counting
<1>3. TypeOK'
  <2>1. {toServer', toClient'} \subseteq SUBSET Datagrams
    BY <1>1 DEF IInv, TypeOK
  <2> QED
    BY <1>2, <2>1, Zenon DEF IInv, TypeOK
<1>4. Pace' /\ Known' /\ Apart' /\ CopyOnce'
  <2>1. toServer' \cap toClient' = {}
    BY <1>1 DEF IInv, Apart
  <2> QED
    BY <1>1, <1>2, <2>1, NoneNew
<1>5. Tally'
  BY <1>2 DEF Tally
<1> QED
  BY <1>3, <1>4, <1>5 DEF IInv

LEMMA TakeKeeps == ASSUME IInv, TakeDatagram PROVE IInv'
<1>1. PICK d \in toServer : toServer' = toServer \ {d}
  BY DEF TakeDatagram, Taken
<1>2. /\ UNCHANGED <<program, cpc, line, shown, server, count, refused, toClient>>
      /\ UNCHANGED <<lost, dups, foreign>> /\ Counting /\ inHand = 0 /\ inHand' = 1
  BY DEF TakeDatagram, clientVars, faults
<1>3. TypeOK'
  <2>1. {toServer', toClient'} \subseteq SUBSET Datagrams /\ inHand' \in {0, 1}
    BY <1>1, <1>2 DEF IInv, TypeOK
  <2> QED
    BY <1>2, <2>1, Zenon DEF IInv, TypeOK
<1>4. Pace' /\ Known' /\ Apart' /\ CopyOnce'
  <2>1. toServer' \cap toClient' = {} /\ toClient = {}
    BY <1>2 DEF IInv, Pace
  <2> QED
    BY <1>1, <1>2, <2>1, NoneNew
<1>5. Tally'
  <2>1. d \in Places /\ count \in Nat
    BY <1>1, Shape DEF Places, IInv
  <2>2. count' + inHand' = count + inHand + 1
    BY <1>2, <2>1
  <2> QED
    BY <1>1, <1>2, <2>1, <2>2, TallyKeeps
<1> QED
  BY <1>3, <1>4, <1>5 DEF IInv

LEMMA CountKeeps == ASSUME IInv, Count PROVE IInv'
<1>1. /\ UNCHANGED <<program, cpc, line, shown, server, refused, toServer, toClient>>
      /\ UNCHANGED <<lost, dups, foreign>> /\ inHand = 1 /\ inHand' = 0 /\ count' = count + 1
  BY DEF Count, clientVars, faults
<1>2. count \in Nat
  BY Shape DEF IInv
<1>3. TypeOK'
  <2>1. count' \in Nat /\ inHand' \in {0, 1}
    BY <1>1, <1>2
  <2> QED
    BY <1>1, <2>1, Zenon DEF IInv, TypeOK
<1>4. Pace' /\ Known' /\ Apart' /\ CopyOnce'
  BY <1>1, NoneNew DEF IInv, Apart, Pace
<1>5. Tally'
  <2>1. count' + inHand' = count + inHand /\ Sent' = Sent /\ (Counting' <=> Counting)
    BY <1>1, <1>2 DEF Sent, Counting
  <2> QED
    BY <1>1, <2>1 DEF IInv, Tally
<1> QED
  BY <1>3, <1>4, <1>5 DEF IInv

LEMMA UnreachableKeeps == ASSUME IInv, Unreachable PROVE IInv'
<1>1. PICK d \in toServer : toServer' = toServer \ {d}
  BY DEF Unreachable
<1>2. /\ UNCHANGED <<program, cpc, line, shown, server, inHand, count, toClient, dups, foreign>>
      /\ refused' = Reported /\ lost' = (lost \/ program # "udpcli02")
  BY DEF Unreachable, clientVars, serverVars
<1>3. TypeOK'
  <2>1. {toServer', toClient'} \subseteq SUBSET Datagrams
    BY <1>1, <1>2 DEF IInv, TypeOK
  <2>2. {refused', lost'} \subseteq BOOLEAN
    BY <1>2, Zenon DEF Reported, connected
  <2> QED
    BY <1>2, <2>1, <2>2, Zenon DEF IInv, TypeOK
<1>4. Pace' /\ Known' /\ Apart' /\ CopyOnce'
  <2>1. toServer' \cap toClient' = {} /\ (Counting => toClient = {})
    BY <1>1, <1>2 DEF IInv, Apart, Pace
  <2> QED
    BY <1>1, <1>2, <2>1, NoneNew
<1>5. Tally'
  <2>1. d \in Places /\ (Counting => lost')
    BY <1>1, <1>2 DEF Places, Counting
  <2> QED
    BY <1>1, <1>2, <2>1, TallyKeeps
<1> QED
  BY <1>3, <1>4, <1>5 DEF IInv

LEMMA PowerKeeps == ASSUME IInv, ServerStarts \/ ServerDies PROVE IInv'
<1>1. /\ UNCHANGED <<program, cpc, line, shown, inHand, count, refused, toServer, toClient>>
      /\ UNCHANGED <<lost, dups, foreign>> /\ server' \in {"off", "on", "dead"}
  BY DEF ServerStarts, ServerDies, clientVars, faults
<1>2. TypeOK'
  BY <1>1, Zenon DEF IInv, TypeOK
<1>3. Pace' /\ Known' /\ Apart' /\ CopyOnce'
  BY <1>1, NoneNew DEF IInv, Apart, Pace
<1>4. Tally'
  <2>1. Sent' = Sent /\ (Counting' <=> Counting)
    BY <1>1 DEF Sent, Counting
  <2> QED
    BY <1>1, <2>1 DEF IInv, Tally
<1> QED
  BY <1>2, <1>3, <1>4 DEF IInv

LEMMA LoseKeeps == ASSUME IInv, Lose PROVE IInv'
<1>1. PICK d \in toServer \cup toClient : toServer' = toServer \ {d} /\ toClient' = toClient \ {d}
  BY DEF Lose
<1>2. /\ UNCHANGED <<program, cpc, line, shown, server, inHand, count, refused, dups, foreign>>
      /\ lost' = TRUE
  BY DEF Lose, clientVars, serverVars
<1>3. TypeOK'
  <2>1. {toServer', toClient'} \subseteq SUBSET Datagrams
    BY <1>1 DEF IInv, TypeOK
  <2>2. {refused', lost'} \subseteq BOOLEAN
    BY <1>2, Zenon DEF IInv, TypeOK
  <2> QED
    BY <1>2, <2>1, <2>2, Zenon DEF IInv, TypeOK
<1>4. (Counting => toClient = {}) /\ toServer \cap toClient = {}
  BY DEF IInv, Apart, Pace
<1>5. Pace' /\ Known' /\ Apart' /\ CopyOnce'
  BY <1>1, <1>2, <1>4, NoneNew
<1>6. Tally'
  <2>1. d \in Places /\ (Counting => d \in toServer)
    BY <1>1, <1>4 DEF Places
  <2> QED
    BY <1>1, <1>2, <2>1, TallyKeeps
<1> QED
  BY <1>3, <1>5, <1>6 DEF IInv

LEMMA DuplicateKeeps == ASSUME IInv, Duplicate PROVE IInv'
<1>1. PICK e \in toServer \cup toClient :
         \/ e \in toServer /\ toServer' = toServer \cup {[e EXCEPT !.copy = dups']}
                           /\ toClient' = toClient
         \/ e \in toClient /\ toClient' = toClient \cup {[e EXCEPT !.copy = dups']}
                           /\ toServer' = toServer
  BY DEF Duplicate
<1>2. /\ UNCHANGED <<program, cpc, line, shown, server, inHand, count, refused, lost, foreign>>
      /\ dups < MaxDups /\ dups' = dups + 1
  BY DEF Duplicate, clientVars, serverVars
<1>3. PICK d : d = [e EXCEPT !.copy = dups']
  OBVIOUS
<1>4. /\ e \in Places /\ e \in Datagrams /\ dups \in Nat /\ MaxDups \in Nat
      /\ Sent' = Sent /\ Sent \in Int /\ foreign \in Nat
  BY <1>1, <1>2, Shape DEF IInv, Places, Sent
<1>5. d \in Datagrams /\ d.src = e.src /\ d.line = e.line /\ d.copy = dups + 1
  BY <1>2, <1>3, <1>4 DEF Datagrams
<1>6. /\ e.src = Server => 1 <= e.line /\ e.line <= Sent
      /\ e.src = Other => e.line < foreign
      /\ \A f \in Places : f.copy < d.copy
  <2>1. \A f \in Places : f.copy \in Nat /\ f.copy <= dups
    BY Shape DEF IInv, Known
  <2>2. /\ e.src = Server => 1 <= e.line /\ e.line <= Sent
        /\ e.src = Other => e.line < foreign
    BY <1>4 DEF IInv, Known
  <2> QED
    BY <1>4, <1>5, <2>1, <2>2
<1>7. d \notin Places
  BY <1>4, <1>5, <1>6
<1>8. TypeOK'
  <2>1. {toServer', toClient'} \subseteq SUBSET Datagrams
    BY <1>1, <1>3, <1>5 DEF IInv, TypeOK
  <2>2. dups' \in 0 .. MaxDups
    BY <1>2, <1>4
  <2> QED
    BY <1>2, <2>1, <2>2, Zenon DEF IInv, TypeOK
<1>9. Known' /\ Apart' /\ CopyOnce'
  <2>1. \/ toServer' = toServer \cup {d} /\ toClient' = toClient /\ d.src = Server
        \/ toServer' = toServer /\ toClient' = toClient \cup {d}
    BY <1>1, <1>3, <1>5 DEF IInv, Known
  <2> QED
    BY <1>2, <1>4, <1>5, <1>6, <1>7, <1>8, <2>1, OneNew
<1>10. Pace' /\ (Counting => toServer' = toServer \cup {d})
  BY <1>1, <1>2, <1>3 DEF IInv, Pace, Counting
<1>11. Tally'
  <2>1. ASSUME Counting
        PROVE  /\ IsFiniteSet(toServer') /\ (refused' => lost')
               /\ count' + inHand' + Cardinality(toServer') <= Sent' + dups'
               /\ ~lost' => count' + inHand' + Cardinality(toServer') = Sent' + dups'
    <3>1. /\ IsFiniteSet(toServer) /\ (refused => lost)
          /\ count + inHand + Cardinality(toServer) <= Sent + dups
          /\ ~lost => count + inHand + Cardinality(toServer) = Sent + dups
      BY <2>1 DEF IInv, Tally
    <3>2. /\ Cardinality(toServer) \in Nat /\ IsFiniteSet(toServer')
          /\ Cardinality(toServer') = Cardinality(toServer) + 1
      BY <1>7, <1>10, <2>1, <3>1, Waiting DEF Places
    <3>3. count \in Nat /\ inHand \in Nat
      BY Shape DEF IInv
    <3> QED
      BY <1>2, <1>4, <3>1, <3>2, <3>3
  <2>2. Counting' <=> Counting
    BY <1>2 DEF Counting
  <2> QED
    BY <2>1, <2>2 DEF Tally
<1> QED
  BY <1>8, <1>9, <1>10, <1>11 DEF IInv

LEMMA ForeignKeeps == ASSUME IInv, Foreign PROVE IInv'
<1>1. PICK d : d = [src |-> Other, line |-> foreign, copy |-> 0]
  OBVIOUS
<1>2. /\ UNCHANGED <<program, cpc, line, shown, server, inHand, count, refused, toServer>>
      /\ UNCHANGED <<lost, dups>> /\ ~Counting /\ ~Counting'
      /\ foreign < MaxForeign /\ foreign' = foreign + 1 /\ toClient' = toClient \cup {d}
  BY <1>1 DEF Foreign, clientVars, serverVars, Counting
<1>3. foreign \in Nat /\ MaxForeign \in Nat /\ dups \in Nat /\ Sent' = Sent /\ Sent \in Int
  BY <1>2, Shape DEF IInv, Sent
<1>4. d \in Datagrams /\ d.src = Other /\ d.line = foreign /\ d.copy = 0
  BY <1>1, <1>3 DEF Datagrams
<1>5. d \notin Places
  BY <1>3, <1>4, Shape DEF IInv, Known
<1>6. TypeOK'
  <2>1. {toServer', toClient'} \subseteq SUBSET Datagrams
    BY <1>2, <1>4 DEF IInv, TypeOK
  <2>2. foreign' \in 0 .. MaxForeign
    BY <1>2, <1>3
  <2> QED
    BY <1>2, <2>1, <2>2, Zenon DEF IInv, TypeOK
<1>7. Known' /\ Apart' /\ CopyOnce'
  BY <1>2, <1>3, <1>4, <1>5, <1>6, OneNew, UdpAssumption
<1>8. Pace' /\ Tally'
  BY <1>2 DEF IInv, Pace, Tally
<1> QED
  BY <1>6, <1>7, <1>8 DEF IInv

LEMMA StepInv == IInv /\ [Next]_vars => IInv'
<1> SUFFICES ASSUME IInv, [Next]_vars PROVE IInv'
  OBVIOUS
<1>1. CASE UNCHANGED vars
  <2>1. UNCHANGED <<program, cpc, line, shown, server, inHand, count, refused, toServer,
                    toClient, lost, dups, foreign>>
    BY <1>1 DEF vars, clientVars, serverVars, faults
  <2>2. TypeOK'
    BY <2>1, Zenon DEF IInv, TypeOK
  <2>3. Pace' /\ Known' /\ Apart' /\ CopyOnce'
    BY <2>1, NoneNew DEF IInv, Apart, Pace
  <2>4. Tally'
    <3>1. Sent' = Sent /\ (Counting' <=> Counting)
      BY <2>1 DEF Sent, Counting
    <3> QED
      BY <2>1, <3>1 DEF IInv, Tally
  <2> QED
    BY <2>2, <2>3, <2>4 DEF IInv
<1>2. CASE Next
  BY <1>2, GetsKeeps, SendLineKeeps, ReceiveKeeps, RefusedKeeps, EchoKeeps, TakeKeeps,
     CountKeeps, UnreachableKeeps, PowerKeeps, LoseKeeps, DuplicateKeeps, ForeignKeeps
     DEF Next, Client, Serve
<1> QED
  BY <1>1, <1>2

THEOREM Invariant == Spec => []IInv
BY InitInv, StepInv, PTL DEF Spec

----------------------------------------------------------------------------
(* udpserv02 tells of no more datagrams than were sent or doubled, and     *)
(* misses only those it has not read or counted unless one was lost.       *)
THEOREM CountsAreExact == Spec => []CountExact
<1>1. ASSUME IInv, Counting
      PROVE  /\ count <= Sent + dups
             /\ ~lost => count + inHand + Cardinality(toServer) = Sent + dups
  <2>1. /\ IsFiniteSet(toServer)
        /\ count + inHand + Cardinality(toServer) <= Sent + dups
        /\ ~lost => count + inHand + Cardinality(toServer) = Sent + dups
    BY <1>1 DEF IInv, Tally
  <2>2. Cardinality(toServer) \in Nat /\ count \in Nat /\ inHand \in Nat
        /\ Sent \in Int /\ dups \in Nat
    BY <1>1, <2>1, FS_CardinalityType, Shape DEF IInv
  <2> QED
    BY <2>1, <2>2
<1>2. IInv => CountExact
  BY <1>1 DEF CountExact
<1> QED
  BY Invariant, <1>2, PTL

LEMMA OneToOne ==
    ASSUME NEW S, NEW T, IsFiniteSet(T), NEW f \in [S -> T],
           \A a, b \in S : f[a] = f[b] => a = b
    PROVE  IsFiniteSet(S) /\ Cardinality(S) <= Cardinality(T)
<1>1. f \in Injection(S, T)
  BY DEF Injection, IsInjective
<1> QED
  BY <1>1, FS_Injection

(* What was shown: the first copy of a line, a duplicate, or one of others.*)
LEMMA AnswersCounted ==
    ASSUME IInv, cpc = "gets", ~Counting
    PROVE  Cardinality({shown[k].line : k \in Answers}) >= line - Strays
<1> DEFINE A == {shown[k].line : k \in Answers}
           T == {shown[k] : k \in 1 .. Len(shown)}
           First == {d \in T : d.src = Server /\ d.copy = 0}
           Others == {d \in T : d.src = Other /\ d.copy = 0}
           Doubles == {d \in T : d.copy > 0}
<1>1. /\ line = Len(shown) /\ line \in Nat /\ dups \in Nat /\ foreign \in Nat
      /\ \A d \in T : /\ d \in Places /\ d \in Datagrams /\ d.line \in Nat /\ d.copy \in Nat
                      /\ d.src \in {Server, Other}
  BY Shape DEF IInv, Pace, Places
<1>2. /\ \A d \in T : d.copy <= dups /\ (d.src = Other => d.line < foreign)
      /\ connected => Others = {}
  <2>1. connected => \A d \in T : d.src = Server
    BY DEF IInv, Known, IsForeign
  <2> QED
    BY <1>1, <2>1, UdpAssumption DEF IInv, Known
<1>3. IsFiniteSet(A) /\ IsFiniteSet(First) /\ Cardinality(First) <= Cardinality(A)
  <2>1. IsFiniteSet(1 .. line)
    BY <1>1, FS_Interval
  <2>2. IsFiniteSet(A)
    <3>1. Answers \in SUBSET (1 .. line)
      BY <1>1 DEF Answers
    <3>2. A \in SUBSET (1 .. line)
      <4>1. ASSUME NEW k \in Answers PROVE shown[k].line \in 1 .. line
        <5>1. k \in 1 .. line /\ shown[k].src = Server /\ shown[k] \in Places
          BY <1>1, <3>1 DEF Answers, IsForeign, Places
        <5>2. 1 <= shown[k].line /\ shown[k].line <= Sent /\ Sent = line /\ shown[k].line \in Nat
          BY <1>1, <5>1, Shape DEF IInv, Known, Sent
        <5> QED
          BY <1>1, <5>2
      <4> QED
        BY <4>1
    <3> QED
      BY <2>1, <3>2, FS_Subset
  <2>3. \A d \in First : d.line \in A
    BY DEF Answers, IsForeign
  <2> DEFINE f == [d \in First |-> d.line]
  <2>4. f \in [First -> A]
    BY <2>3
  <2>5. ASSUME NEW d \in First, NEW e \in First, f[d] = f[e]
        PROVE  d = e
    <3>1. d \in Datagrams /\ e \in Datagrams /\ d.src = e.src /\ d.copy = e.copy
      BY <1>1
    <3>2. d.line = e.line
      BY <2>5
    <3> QED
      BY <3>1, <3>2 DEF Datagrams
  <2> HIDE DEF f, First, A
  <2> QED
    BY <2>2, <2>4, <2>5, OneToOne
<1>4. IsFiniteSet(Others) /\ Cardinality(Others) <= (IF connected THEN 0 ELSE foreign)
  <2> DEFINE f == [d \in Others |-> d.line]
  <2>1. f \in [Others -> 0 .. foreign - 1]
    BY <1>1, <1>2
  <2>2. \A d, e \in Others : f[d] = f[e] => d = e
    BY <1>1 DEF Datagrams
  <2>3. /\ IsFiniteSet(0 .. foreign - 1)
        /\ Cardinality(0 .. foreign - 1) = foreign
    <3>1. 0 \in Int /\ foreign - 1 \in Int
          /\ (0 > foreign - 1 => foreign = 0) /\ foreign - 1 - 0 + 1 = foreign
      BY <1>1
    <3> QED
      BY <3>1, FS_Interval
  <2> HIDE DEF f, Others
  <2>4. IsFiniteSet(Others) /\ Cardinality(Others) <= foreign
    BY <2>1, <2>2, <2>3, OneToOne
  <2> QED
    BY <1>2, <2>4, FS_EmptySet
<1>5. IsFiniteSet(Doubles) /\ Cardinality(Doubles) <= dups
  <2> DEFINE f == [d \in Doubles |-> d.copy]
  <2>1. f \in [Doubles -> 1 .. dups]
    BY <1>1, <1>2
  <2>2. \A d, e \in Doubles : f[d] = f[e] => d = e
    BY <1>1 DEF IInv, CopyOnce
  <2>3. /\ IsFiniteSet(1 .. dups)
        /\ Cardinality(1 .. dups) = dups
    <3>1. 1 \in Int /\ dups \in Int
          /\ (1 > dups => dups = 0) /\ dups - 1 + 1 = dups
      BY <1>1
    <3> QED
      BY <3>1, FS_Interval
  <2> HIDE DEF f, Doubles
  <2> QED
    BY <2>1, <2>2, <2>3, OneToOne
<1>6. line <= Cardinality(First \cup Others \cup Doubles)
      /\ IsFiniteSet(First \cup Others \cup Doubles)
  <2> DEFINE f == [k \in 1 .. line |-> shown[k]]
             All == First \cup Others \cup Doubles
  <2>1. \A d \in T : d \in All
    BY <1>1
  <2>2. f \in [1 .. line -> All]
    BY <1>1, <2>1
  <2>3. \A j, k \in 1 .. line : f[j] = f[k] => j = k
    BY <1>1 DEF IInv, Apart
  <2>4. IsFiniteSet(All)
    BY <1>3, <1>4, <1>5, FS_Union
  <2>5. Cardinality(1 .. line) = line
    <3>1. 1 \in Int /\ line \in Int
          /\ (1 > line => line = 0) /\ line - 1 + 1 = line
      BY <1>1
    <3> QED
      BY <3>1, FS_Interval
  <2> HIDE DEF f, All
  <2>6. Cardinality(1 .. line) <= Cardinality(All)
    BY <2>2, <2>3, <2>4, OneToOne
  <2> QED
    BY <2>4, <2>5, <2>6 DEF All
<1> HIDE DEF First, Others, Doubles, A
<1>7. Cardinality(First \cup Others \cup Doubles)
         <= Cardinality(First) + Cardinality(Others) + Cardinality(Doubles)
  <2>1. /\ IsFiniteSet(First \cup Others)
        /\ Cardinality(First \cup Others)
              = Cardinality(First) + Cardinality(Others) - Cardinality(First \cap Others)
    BY <1>3, <1>4, FS_Union
  <2>2. Cardinality(First \cup Others \cup Doubles)
           = Cardinality(First \cup Others) + Cardinality(Doubles)
             - Cardinality((First \cup Others) \cap Doubles)
    BY <1>5, <2>1, FS_Union
  <2>3. IsFiniteSet(First \cap Others) /\ IsFiniteSet((First \cup Others) \cap Doubles)
    BY <1>3, <2>1, FS_Intersection
  <2>4. /\ Cardinality(First \cap Others) \in Nat
        /\ Cardinality((First \cup Others) \cap Doubles) \in Nat
        /\ Cardinality(First) \in Nat /\ Cardinality(Others) \in Nat
        /\ Cardinality(Doubles) \in Nat /\ Cardinality(First \cup Others) \in Nat
    BY <1>3, <1>4, <1>5, <2>1, <2>3, FS_CardinalityType
  <2> QED
    BY <2>1, <2>2, <2>4
<1>8. Cardinality(A) >= line - Strays
  <2>1. /\ Cardinality(First) \in Nat /\ Cardinality(Others) \in Nat
        /\ Cardinality(Doubles) \in Nat /\ Cardinality(A) \in Nat
        /\ Cardinality(First \cup Others \cup Doubles) \in Nat
    BY <1>3, <1>4, <1>5, <1>6, FS_CardinalityType
  <2> QED
    BY <1>1, <1>3, <1>4, <1>5, <1>6, <1>7, <2>1 DEF Strays
<1> QED
  BY <1>8 DEF A

(* Whatever the network does, an answer echoes a line that was sent before *)
(* it, and when the client reads on at most one line per duplicate, or     *)
(* datagram of another host where those are heard, waits for its answer.   *)
THEOREM AnswersLagBehind == Spec => []AnswersLag
<1>1. IInv => \A k \in Answers : shown[k].line <= k
  BY DEF IInv, Known, Answers
<1>2. IInv => AnswersLag
  BY <1>1, AnswersCounted DEF IInv, AnswersLag
<1> QED
  BY Invariant, <1>2, PTL

----------------------------------------------------------------------------
(* What Answered says of a client that waits, without its fairness.        *)
ClientRuns == \/ cpc \in {"gets", "send"}
              \/ cpc = "recv" /\ (refused \/ \E d \in toClient : Accepts(d))
ServerRuns == server = "on" /\ (inHand = 1 \/ toServer # {})
AnsweredAtRest ==
    ClientRuns \/ ServerRuns \/ (server # "on" /\ toServer # {})
        \/ cpc = "done" \/ (lost /\ ~Counting)

(* While nothing was lost and no error told, each line that was sent is on *)
(* its way or was shown.                                                   *)
First(l) == [src |-> Server, line |-> l, copy |-> 0]
Firsts == ~Counting /\ ~lost /\ ~refused /\ cpc # "done" =>
              \A l \in 1 .. Sent : First(l) \in Places

LEMMA FirstsClient == ASSUME IInv, Firsts, Client PROVE Firsts'
<1>1. UNCHANGED <<program, server, inHand, count, lost, dups, foreign>>
  BY DEF Client, Gets, SendLine, Receive, Refused, clientVars, serverVars, faults
<1> line \in Nat /\ Len(shown) \in Nat
  BY Shape DEF IInv
<1>2. CASE Gets
  <2>1. UNCHANGED <<shown, refused, toServer, toClient>> /\ cpc = "gets" /\ Places' = Places
    BY <1>2 DEF Gets, Places
  <2>2. Sent = line /\ Sent \in Nat /\ (cpc' = "send" => Sent' = line)
    BY <1>2, <2>1 DEF Gets, Sent
  <2>3. cpc' \in {"send", "done"}
    BY <1>2 DEF Gets
  <2> QED
    BY <1>1, <2>1, <2>2, <2>3 DEF Firsts, Counting, First
<1>3. CASE SendLine
  <2>1. /\ UNCHANGED <<line, shown, refused, toClient>> /\ toServer' = toServer \cup {First(line)}
        /\ cpc = "send" /\ ~refused /\ cpc' \in {"gets", "recv"}
    BY <1>3 DEF SendLine, AfterSend, First
  <2>2. First(line) \in Places' /\ \A d \in Places : d \in Places'
    BY <2>1 DEF Places
  <2>3. Sent' = line /\ Sent = line - 1
    BY <2>1 DEF Sent
  <2>4. \A l \in 1 .. Sent' : l = line \/ l \in 1 .. Sent
    BY <2>3
  <2> QED
    BY <1>1, <2>1, <2>2, <2>4 DEF Firsts, Counting, First
<1>4. CASE Receive
  <2>1. PICK d \in toClient : /\ toClient' = toClient \ {d} /\ shown' = Append(shown, d)
                              /\ UNCHANGED <<line, refused, toServer>> /\ cpc = "recv"
                              /\ cpc' = "gets"
    BY <1>4 DEF Receive, AfterReply
  <2>2. d \in Datagrams /\ shown \in Seq(Datagrams)
    BY <2>1 DEF IInv, TypeOK
  <2>3. /\ Len(shown') = Len(shown) + 1 /\ shown'[Len(shown')] = d
        /\ \A k \in 1 .. Len(shown) : shown'[k] = shown[k]
    BY <2>1, <2>2
  <2>4. ASSUME NEW e \in Places PROVE e \in Places'
    <3>1. CASE e = d
      BY <2>3, <3>1, Shape DEF Places, IInv
    <3>2. CASE e \in toServer \cup toClient /\ e # d
      BY <2>1, <3>2 DEF Places
    <3>3. CASE \E k \in 1 .. Len(shown) : e = shown[k]
      BY <2>3, <3>3, Shape DEF Places, IInv
    <3> QED
      BY <3>1, <3>2, <3>3 DEF Places
  <2>5. Sent' = Sent
    BY <2>1 DEF Sent
  <2> QED
    BY <1>1, <2>1, <2>4, <2>5 DEF Firsts, Counting, First
<1>5. CASE Refused
  BY <1>1, <1>5 DEF Refused, Firsts, Counting
<1> QED
  BY <1>2, <1>3, <1>4, <1>5 DEF Client

(* A step of server or network that loses nothing and tells no error.      *)
LEMMA FirstsKept ==
    ASSUME Firsts, UNCHANGED <<program, cpc, line, shown>>,
           refused \/ lost \/ cpc = "done" \/ Counting => Firsts',
           refused' = refused, lost' = lost,
           toServer \cup toClient \subseteq toServer' \cup toClient'
    PROVE  Firsts'
<1>1. \A d \in Places : d \in Places'
  BY DEF Places
<1>2. Sent' = Sent
  BY DEF Sent
<1> QED
  BY <1>1, <1>2 DEF Firsts, First, Counting

LEMMA FirstsStep == IInv /\ Firsts /\ [Next]_vars => Firsts'
<1> SUFFICES ASSUME IInv, Firsts, [Next]_vars PROVE Firsts'
  OBVIOUS
<1>1. CASE Client
  BY <1>1, FirstsClient
<1>2. CASE UNCHANGED vars \/ ServerStarts \/ ServerDies
  <2>1. UNCHANGED <<program, cpc, line, shown, refused, lost, toServer, toClient>>
    BY <1>2 DEF vars, ServerStarts, ServerDies, clientVars, serverVars, faults
  <2> QED
    BY <2>1, FirstsKept DEF Firsts, Counting
<1>3. CASE Serve
  <2>1. UNCHANGED <<program, cpc, line, shown, refused, lost>>
    BY <1>3 DEF Serve, Echo, TakeDatagram, Count, clientVars, faults
  <2>2. CASE Echo
    BY <2>1, <2>2, FirstsKept DEF Echo, Firsts, Counting
  <2>3. CASE Count
    BY <2>1, <2>3, FirstsKept DEF Count, Firsts, Counting
  <2>4. CASE TakeDatagram
    BY <2>1, <2>4 DEF TakeDatagram, Firsts, Counting
  <2> QED
    BY <1>3, <2>2, <2>3, <2>4 DEF Serve
<1>4. CASE Unreachable
  <2>1. /\ UNCHANGED <<program, cpc>> /\ lost' = (lost \/ program # "udpcli02")
        /\ refused' = Reported
    BY <1>4 DEF Unreachable, clientVars
  <2>2. CASE program = "udpcli02"
    BY <2>1, <2>2 DEF Firsts, Reported, connected
  <2>3. CASE program # "udpcli02"
    BY <2>1, <2>3 DEF Firsts
  <2> QED
    BY <2>2, <2>3
<1>5. CASE Lose
  BY <1>5 DEF Lose, Firsts
<1>6. CASE Duplicate \/ Foreign
  <2>1. UNCHANGED <<program, cpc, line, shown, refused, lost>>
    BY <1>6 DEF Duplicate, Foreign, clientVars, serverVars
  <2>2. toServer \cup toClient \subseteq toServer' \cup toClient'
    BY <1>6 DEF Duplicate, Foreign
  <2> QED
    BY <2>1, <2>2, FirstsKept DEF Firsts, Counting
<1> QED
  BY <1>1, <1>2, <1>3, <1>4, <1>5, <1>6 DEF Next

(* A client that waits has shown fewer datagrams than it has sent lines.   *)
LEMMA OneToCome ==
    ASSUME IInv, Firsts, cpc = "recv", ~Counting, ~lost, ~refused
    PROVE  \E l \in 1 .. line : First(l) \in toServer \cup toClient
<1> SUFFICES ASSUME \A l \in 1 .. line : First(l) \notin toServer \cup toClient
             PROVE  FALSE
  OBVIOUS
<1> DEFINE At(l) == CHOOSE k \in 1 .. Len(shown) : shown[k] = First(l)
           f == [l \in 1 .. line |-> At(l)]
<1>1. /\ line \in Nat /\ line \in 0 .. MaxLines /\ Len(shown) = line - 1 /\ Sent = line
      /\ Len(shown) \in Nat /\ UdpAssumption
  BY Shape DEF IInv, Pace, Sent, TypeOK
<1>2. ASSUME NEW l \in 1 .. line
      PROVE  At(l) \in 1 .. Len(shown) /\ shown[At(l)] = First(l)
  BY <1>1, <1>2 DEF Firsts, Places
<1>3. f \in [1 .. line -> 1 .. Len(shown)]
  BY <1>2
<1>4. \A a, b \in 1 .. line : f[a] = f[b] => a = b
  <2>1. ASSUME NEW a \in 1 .. line, NEW b \in 1 .. line, f[a] = f[b] PROVE a = b
    <3>1. First(a) = First(b)
      BY <1>2, <2>1
    <3> QED
      BY <3>1 DEF First
  <2> QED
    BY <2>1
<1>5. ASSUME NEW n \in Nat PROVE IsFiniteSet(1 .. n) /\ Cardinality(1 .. n) = n
  <2>1. 1 \in Int /\ n \in Int /\ (1 > n => n = 0) /\ n - 1 + 1 = n
    OBVIOUS
  <2> QED
    BY <2>1, FS_Interval
<1>6. /\ IsFiniteSet(1 .. Len(shown)) /\ Cardinality(1 .. Len(shown)) = line - 1
      /\ Cardinality(1 .. line) = line
  BY <1>1, <1>5
<1> HIDE DEF f
<1>7. Cardinality(1 .. line) <= Cardinality(1 .. Len(shown))
  BY <1>3, <1>4, <1>6, OneToOne
<1> QED
  BY <1>1, <1>6, <1>7

(* When neither client nor server can go on and nothing is left to arrive, *)
(* the client has ended, unless a datagram was lost: duplicates, others'   *)
(* datagrams and a server that is off or dies never leave it waiting.      *)
THEOREM OnlyLossKeepsWaiting == Spec => []AnsweredAtRest
<1>1. IInv /\ Firsts => AnsweredAtRest
  <2> SUFFICES ASSUME IInv, Firsts, ~ClientRuns, toServer = {}, cpc # "done", lost => Counting
               PROVE  FALSE
    BY DEF AnsweredAtRest, ServerRuns
  <2>1. cpc = "recv" /\ ~refused /\ ~Counting /\ \A d \in toClient : ~Accepts(d)
    BY DEF IInv, TypeOK, Pace, ClientRuns
  <2>2. PICK l \in 1 .. line : First(l) \in toClient
    BY <2>1, OneToCome
  <2> QED
    BY <2>1, <2>2 DEF Accepts, IsForeign, First
<1>2. Init => Firsts
  BY DEF Init, Firsts, Sent
<1> QED
  BY <1>1, <1>2, InitInv, StepInv, FirstsStep, PTL DEF Spec
=============================================================================
