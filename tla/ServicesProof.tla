---------------------------- MODULE ServicesProof ----------------------------
(***************************************************************************)
(* The services that exchange little with each client, for any number of   *)
(* clients, any data and any bounds.  One module holds their proofs: that  *)
(* of SquareRpc is about the module itself, those of HalfClose, FifoServ,  *)
(* EchoFork and PipeCat about instances of them, which take over variables *)
(* and constants of the same names and share nothing else with it.         *)
(***************************************************************************)
EXTENDS SquareRpc, Sequences, FiniteSetTheorems, SequenceTheorems, WellFoundedInduction, TLAPS

----------------------------------------------------------------------------
(* SquareRpc.                                                              *)

(* What is shown, or on its way to be, is right for the client's argument. *)
Right(r, c) == /\ r[1] = "square" => r[2] = Square(arg[c])
               /\ r = <<"error">> => ~Fits(Square(arg[c])) \/ deaths > 0

Linked == \A c \in Clients :
    /\ cpc[c] \in {"call", "wait"} => c \in conn \/ deaths > 0
    /\ cpc[c] # "wait" => age[c] = 0 /\ mail[c] = <<"none">>
    /\ result[c] # <<"none">> => cpc[c] = "done"
    /\ mail[c] # <<"timeout">> /\ Right(mail[c], c) /\ Right(result[c], c)

(* A client calls once, so it is ahead of another at most once.            *)
Once == /\ \A d \in pending \cup ({cur} \ {Nobody}) : cpc[d] \in {"wait", "done"}
        /\ cur \notin pending
        /\ \A c \in Clients : IsFiniteSet(ahead[c])
        /\ \A c \in Clients : \A d \in ahead[c] : d \notin pending /\ cpc[d] \in {"wait", "done"}
        /\ ~Serving => conn = {}

(* The time a client has waited is that of the calls worked on meanwhile;  *)
(* a call that is worked on has "left" of its own still to go.             *)
Worked(c) == Duration * Cardinality(ahead[c])
Pace(c) == /\ age[c] <= Worked(c) + Duration
           /\ c \in conn /\ mail[c] = <<"none">> => c \in pending \/ c = cur
           /\ c = cur => age[c] + left <= Worked(c) + Duration
           /\ c \in pending => age[c] + left <= Worked(c)
           /\ c \in pending /\ spc = "work" => cur \in ahead[c]
Pacing == /\ left <= Duration
          /\ spc # "work" => left = 0
          /\ \A c \in Waiting : Pace(c)

Patience == \A c \in Clients : result[c] = <<"timeout">> => Timeout <= Worked(c) + Duration

SquareInv == TypeOK /\ Linked /\ Once /\ Pacing /\ Patience

LEMMA QTimes == ASSUME NEW d \in Nat, NEW n \in Nat
                PROVE  d * n \in Nat /\ d * (n + 1) = d * n + d
OBVIOUS

LEMMA QLarge == ASSUME NEW m \in Nat, NEW x \in Int, x \notin -m - 1 .. m
                PROVE  x * x \notin -m - 1 .. m
<1>1. CASE x > m
  <2>1. x * x >= x
    BY <1>1
  <2> QED
    BY <1>1, <2>1
<1>2. CASE x < -m - 1
  <2>1. x * x >= -x
    BY <1>2
  <2> QED
    BY <1>2, <2>1
<1> QED
  BY <1>1, <1>2

LEMMA QModulo == ASSUME NEW m \in Nat, NEW y \in Int, 0 <= y, y < m
                 PROVE  y % m = y
OBVIOUS

LEMMA QWire == ASSUME NEW x \in Int, Fits(x) PROVE Wire(x) = x
<1>1. MaxLong \in Nat /\ -MaxLong - 1 <= x /\ x <= MaxLong
  BY RpcAssumption DEF RpcAssumption, Fits
<1>2. /\ x + MaxLong + 1 \in Int /\ 2 * (MaxLong + 1) \in Nat
      /\ 0 <= x + MaxLong + 1 /\ x + MaxLong + 1 < 2 * (MaxLong + 1)
  BY <1>1
<1>3. (x + MaxLong + 1) % (2 * (MaxLong + 1)) = x + MaxLong + 1
  BY <1>2, QModulo
<1> QED
  BY <1>1, <1>3 DEF Wire

LEMMA QConstants ==
    ASSUME vers \in {1, 2}
    PROVE  /\ Duration \in Nat /\ Duration <= Sleep /\ Sleep \in Nat /\ MaxLong \in Nat
           /\ Timeout \in Nat /\ Timeout > 0 /\ Nobody \notin Clients
           /\ \A x \in Args : x \in Int
BY RpcAssumption DEF RpcAssumption, Duration

LEMMA QWorked ==
    ASSUME SquareInv, NEW c \in Clients
    PROVE  /\ Cardinality(ahead[c]) \in Nat /\ Duration \in Nat
           /\ Worked(c) \in Nat
           /\ Duration * (Cardinality(ahead[c]) + 1) = Worked(c) + Duration
<1>1. Duration \in Nat
  BY QConstants DEF SquareInv, TypeOK
<1>2. Cardinality(ahead[c]) \in Nat
  BY FS_CardinalityType DEF SquareInv, Once
<1> QED
  BY <1>1, <1>2, QTimes DEF Worked

LEMMA QTypes ==
    ASSUME TypeOK, NEW c \in Clients
    PROVE  /\ cpc[c] \in {"start", "call", "wait", "done"}
           /\ arg[c] \in Int /\ age[c] \in Nat /\ age[c] <= Timeout
           /\ result[c] \in Results /\ mail[c] \in Results
           /\ left \in Nat /\ deaths \in Nat /\ Square(arg[c]) \in Int
<1>1. arg[c] \in Args \cup {0} /\ age[c] \in 0 .. Timeout
  BY DEF TypeOK
<1>2. arg[c] \in Int /\ age[c] \in Nat /\ age[c] <= Timeout
  <2>1. Timeout \in Nat /\ Args \subseteq Int
    BY RpcAssumption DEF RpcAssumption
  <2>2. 0 \in Int
    OBVIOUS
  <2>4. arg[c] \in Int
    BY <1>1, <2>1, <2>2, Zenon
  <2>3. age[c] \in Nat /\ age[c] <= Timeout
    BY <1>1, <2>1
  <2> QED
    BY <2>3, <2>4
<1> QED
  BY <1>2, QConstants DEF TypeOK, Square

LEMMA QInit == Init => SquareInv
<1> SUFFICES ASSUME Init PROVE SquareInv
  OBVIOUS
<1>1. TypeOK
  <2>1. <<"none">> \in Results /\ 0 \in 0 .. Timeout /\ 0 \in 0 .. Sleep
    BY RpcAssumption DEF RpcAssumption, Results
  <2>2. cur \in Clients <=> spc = "work"
    BY RpcAssumption DEF Init, RpcAssumption
  <2> QED
    BY <2>1, <2>2 DEF Init, TypeOK
<1>2. Linked
  BY DEF Init, Linked, Right
<1>3. Once
  <2>1. \A c \in Clients : ahead[c] = {} /\ IsFiniteSet(ahead[c])
    BY FS_EmptySet DEF Init
  <2> QED
    BY <2>1 DEF Init, Once
<1>4. Pacing /\ Patience
  <2>1. 0 <= Duration
    BY QConstants DEF Init
  <2> QED
    BY <2>1 DEF Init, Pacing, Patience, Waiting
<1> QED
  BY <1>1, <1>2, <1>3, <1>4 DEF SquareInv

(* A step that leaves the calls in progress alone.                         *)
LEMMA QCreate == ASSUME SquareInv, NEW c \in Clients, Create(c) PROVE SquareInv'
<1>1. /\ UNCHANGED <<vers, arg, age, result, mail, spc, registered, cur, left>>
      /\ UNCHANGED <<pending, deaths, ahead>>
      /\ cpc[c] = "start" /\ Serving /\ cpc' = [cpc EXCEPT ![c] = "call"]
      /\ conn' = conn \cup {c}
  BY DEF Create, serverVars
<1>2. TypeOK'
  BY <1>1 DEF SquareInv, TypeOK
<1>3. \A d \in Clients : cpc'[d] = IF d = c THEN "call" ELSE cpc[d]
  BY <1>1 DEF SquareInv, TypeOK
<1>4. Linked'
  BY <1>1, <1>3 DEF SquareInv, Linked, Right, Square, Fits
<1>5. Once'
  <2>1. \A d \in pending \cup ({cur} \ {Nobody}) : d \in Clients /\ d # c
    BY <1>1 DEF SquareInv, TypeOK, Once
  <2>2. \A e \in Clients : \A d \in ahead[e] : d \in Clients /\ d # c
    BY <1>1 DEF SquareInv, TypeOK, Once
  <2> QED
    BY <1>1, <1>3, <2>1, <2>2 DEF SquareInv, Once, Serving
<1>6. Waiting' = Waiting /\ c \notin Waiting
  BY <1>1, <1>3 DEF Waiting
<1>7. Duration' = Duration /\ \A d \in Clients : Worked(d)' = Worked(d)
  BY <1>1 DEF Duration, Worked
<1>8. Pacing' /\ Patience'
  BY <1>1, <1>6, <1>7 DEF SquareInv, Pacing, Patience, Pace, Waiting
<1> QED
  BY <1>2, <1>4, <1>5, <1>8 DEF SquareInv

LEMMA QCall == ASSUME SquareInv, NEW c \in Clients, Call(c) PROVE SquareInv'
<1>1. /\ UNCHANGED <<vers, age, result, mail, conn, spc, registered, cur, left, deaths>>
      /\ cpc[c] = "call" /\ c \in conn /\ cpc' = [cpc EXCEPT ![c] = "wait"]
      /\ pending' = pending \cup {c} /\ ahead' = [ahead EXCEPT ![c] = {cur} \ {Nobody}]
  BY DEF Call, serverVars
<1>2. PICK x \in Args : arg' = [arg EXCEPT ![c] = x]
  BY DEF Call
<1>3. TypeOK'
  <2>1. {cur} \ {Nobody} \subseteq Clients
    BY DEF SquareInv, TypeOK
  <2> QED
    BY <1>1, <1>2, <2>1 DEF SquareInv, TypeOK
<1>4. \A d \in Clients : /\ cpc'[d] = IF d = c THEN "wait" ELSE cpc[d]
                         /\ arg'[d] = IF d = c THEN x ELSE arg[d]
                         /\ ahead'[d] = IF d = c THEN {cur} \ {Nobody} ELSE ahead[d]
  BY <1>1, <1>2 DEF SquareInv, TypeOK
<1>5. age[c] = 0 /\ mail[c] = <<"none">> /\ result[c] = <<"none">>
  BY <1>1 DEF SquareInv, Linked
<1>6. Linked'
  <2>1. SUFFICES ASSUME NEW d \in Clients
                 PROVE  /\ cpc'[d] \in {"call", "wait"} => d \in conn' \/ deaths' > 0
                        /\ cpc'[d] # "wait" => age'[d] = 0 /\ mail'[d] = <<"none">>
                        /\ result'[d] # <<"none">> => cpc'[d] = "done"
                        /\ mail'[d] # <<"timeout">> /\ Right(mail[d], d)' /\ Right(result[d], d)'
    BY DEF Linked
  <2>2. CASE d = c
    BY <1>1, <1>4, <1>5, <2>2 DEF Right
  <2>3. CASE d # c
    BY <1>1, <1>4, <2>3 DEF SquareInv, Linked, Right, Square, Fits
  <2> QED
    BY <2>2, <2>3
<1>7. Once'
  <2>1. \A d \in {cur} \ {Nobody} : d \in Clients /\ d # c /\ cpc[d] \in {"wait", "done"} /\ d \notin pending
    BY <1>1 DEF SquareInv, TypeOK, Once
  <2>2. \A e \in Clients : \A d \in ahead'[e] :
           d \in Clients /\ d # c /\ cpc[d] \in {"wait", "done"} /\ d \notin pending
    BY <1>1, <1>4, <2>1 DEF SquareInv, TypeOK, Once
  <2>3. IsFiniteSet({cur} \ {Nobody})
    BY FS_Singleton, FS_Difference
  <2>4. \A e \in Clients : IsFiniteSet(ahead'[e])
    BY <1>4, <2>3 DEF SquareInv, Once
  <2>5. \A d \in pending' \cup ({cur'} \ {Nobody}) : cpc'[d] \in {"wait", "done"}
    BY <1>1, <1>4, <2>1 DEF SquareInv, TypeOK, Once
  <2>6. cur' \notin pending'
    BY RpcAssumption, <1>1 DEF SquareInv, TypeOK, Once, RpcAssumption
  <2>7. \A e \in Clients : \A d \in ahead'[e] : d \notin pending' /\ cpc'[d] \in {"wait", "done"}
    BY <1>1, <1>4, <2>2
  <2>8. ~Serving' => conn' = {}
    BY <1>1 DEF SquareInv, Once, Serving
  <2> QED
    BY <2>4, <2>5, <2>6, <2>7, <2>8 DEF Once
<1>8. Duration' = Duration /\ Duration \in Nat /\ \A d \in Clients \ {c} : Worked(d)' = Worked(d)
  BY <1>1, <1>4, QConstants DEF SquareInv, TypeOK, Duration, Worked
<1>9. left \in Nat /\ left <= Duration /\ (spc # "work" => left = 0)
  BY QTypes DEF SquareInv, Pacing
<1>10. Pace(c)'
  <2>1. CASE spc = "work"
    <3>1. ahead'[c] = {cur} /\ cur # c
      BY RpcAssumption, <1>1, <1>4, <2>1 DEF SquareInv, TypeOK, Once, RpcAssumption
    <3>2. Worked(c)' = Duration
      <4>1. Cardinality({cur}) = 1
        BY FS_Singleton
      <4> QED
        BY <1>8, <3>1, <4>1 DEF Worked
    <3> QED
      BY <1>1, <1>5, <1>8, <1>9, <3>1, <3>2 DEF Pace
  <2>2. CASE spc # "work"
    <3>1. ahead'[c] = {} /\ cur # c
      BY <1>1, <1>4, <2>2 DEF SquareInv, TypeOK
    <3>2. Worked(c)' = 0
      <4>1. Cardinality({}) = 0
        BY FS_EmptySet
      <4> QED
        BY <1>8, <3>1, <4>1 DEF Worked
    <3> QED
      BY <1>1, <1>5, <1>8, <1>9, <2>2, <3>1, <3>2 DEF Pace
  <2> QED
    BY <2>1, <2>2
<1>11. Pacing'
  <2>1. ASSUME NEW d \in Waiting', d # c PROVE Pace(d)'
    <3>1. d \in Clients /\ Pace(d)
      BY <1>4, <2>1 DEF SquareInv, Pacing, Waiting
    <3> QED
      BY <1>1, <1>4, <1>8, <2>1, <3>1 DEF Pace
  <2> QED
    BY <1>1, <1>8, <1>9, <1>10, <2>1 DEF Pacing
<1>12. Patience'
  BY <1>1, <1>5, <1>8 DEF SquareInv, Patience
<1> QED
  BY <1>3, <1>6, <1>7, <1>11, <1>12 DEF SquareInv

(* The end of a client, with a result that is right.                       *)
LEMMA QEnds ==
    ASSUME SquareInv, NEW c \in Clients, NEW from \in {"start", "call", "wait"},
           NEW r \in Results \ {<<"none">>}, Ends(c, from, r),
           arg' \in [Clients -> Args \cup {0}], \A d \in Clients \ {c} : arg'[d] = arg[d],
           r[1] = "square" => r[2] = Square(arg'[c]),
           r = <<"error">> => ~Fits(Square(arg'[c])) \/ deaths > 0,
           r = <<"timeout">> => Timeout <= Worked(c) + Duration
    PROVE  SquareInv'
<1>1. /\ UNCHANGED <<vers, conn, spc, registered, cur, left, pending, deaths, ahead>>
      /\ cpc[c] = from /\ cpc' = [cpc EXCEPT ![c] = "done"]
      /\ result' = [result EXCEPT ![c] = r] /\ age' = [age EXCEPT ![c] = 0]
      /\ mail' = [mail EXCEPT ![c] = <<"none">>]
  BY DEF Ends, serverVars
<1>2. TypeOK'
  <2>1. <<"none">> \in Results /\ 0 \in 0 .. Timeout
    BY RpcAssumption DEF Results, RpcAssumption
  <2>2. age' \in [Clients -> 0 .. Timeout] /\ {result', mail'} \subseteq [Clients -> Results]
        /\ cpc' \in [Clients -> {"start", "call", "wait", "done"}]
    BY <1>1, <2>1 DEF SquareInv, TypeOK
  <2> QED
    BY <1>1, <2>2 DEF SquareInv, TypeOK
<1>3. \A d \in Clients : /\ cpc'[d] = IF d = c THEN "done" ELSE cpc[d]
                         /\ result'[d] = IF d = c THEN r ELSE result[d]
                         /\ mail'[d] = IF d = c THEN <<"none">> ELSE mail[d]
                         /\ age'[d] = IF d = c THEN 0 ELSE age[d]
  BY <1>1 DEF SquareInv, TypeOK
<1>4. Linked'
  <2>1. SUFFICES ASSUME NEW d \in Clients
                 PROVE  /\ cpc'[d] \in {"call", "wait"} => d \in conn' \/ deaths' > 0
                        /\ cpc'[d] # "wait" => age'[d] = 0 /\ mail'[d] = <<"none">>
                        /\ result'[d] # <<"none">> => cpc'[d] = "done"
                        /\ mail'[d] # <<"timeout">> /\ Right(mail[d], d)' /\ Right(result[d], d)'
    BY DEF Linked
  <2>2. CASE d = c
    BY <1>1, <1>3, <2>2 DEF Right, Square, Fits
  <2>3. CASE d # c
    BY <1>1, <1>3, <2>3 DEF SquareInv, Linked, Right, Square, Fits
  <2> QED
    BY <2>2, <2>3
<1>5. Once'
  <2>1. \A d \in Clients : cpc[d] \in {"wait", "done"} => cpc'[d] \in {"wait", "done"}
    BY <1>3
  <2>2. \A d \in pending \cup ({cur} \ {Nobody}) : d \in Clients
    BY DEF SquareInv, TypeOK
  <2>3. \A e \in Clients : \A d \in ahead[e] : d \in Clients
    BY DEF SquareInv, TypeOK
  <2> QED
    BY <1>1, <2>1, <2>2, <2>3 DEF SquareInv, Once, Serving
<1>6. Duration' = Duration /\ \A d \in Clients : Worked(d)' = Worked(d)
  BY <1>1 DEF Duration, Worked
<1>7. Pacing'
  <2>1. ASSUME NEW d \in Waiting' PROVE Pace(d)'
    <3>1. d \in Clients /\ d # c /\ Pace(d)
      BY <1>3, <2>1 DEF SquareInv, Pacing, Waiting
    <3> QED
      BY <1>1, <1>3, <1>6, <3>1 DEF Pace
  <2> QED
    BY <1>1, <1>6, <2>1 DEF SquareInv, Pacing
<1>8. Patience'
  BY <1>3, <1>6 DEF SquareInv, Patience
<1> QED
  BY <1>2, <1>4, <1>5, <1>7, <1>8 DEF SquareInv

LEMMA QClientEnds ==
    ASSUME SquareInv, NEW c \in Clients,
           CreateFails(c) \/ CallFails(c) \/ Reply(c) \/ Lost(c) \/ TimesOut(c) \/ Interrupted(c)
    PROVE  SquareInv'
<1>1. arg \in [Clients -> Args \cup {0}]
  BY DEF SquareInv, TypeOK
<1>2. /\ <<"crash">> \in Results \ {<<"none">>} /\ <<"error">> \in Results \ {<<"none">>}
      /\ <<"timeout">> \in Results \ {<<"none">>} /\ <<"interrupted">> \in Results \ {<<"none">>}
  BY DEF Results
<1>3. CASE CreateFails(c)
  <2>1. Ends(c, "start", <<"crash">>) /\ arg' = arg
    BY <1>3 DEF CreateFails
  <2> QED
    BY <1>1, <1>2, <2>1, QEnds
<1>4. CASE CallFails(c)
  <2>1. Ends(c, "call", <<"error">>) /\ cpc[c] = "call"
    BY <1>4 DEF CallFails, Ends
  <2>2. PICK x \in Args : (Fits(x) => c \notin conn) /\ arg' = [arg EXCEPT ![c] = x]
    BY <1>4 DEF CallFails
  <2>3. arg' \in [Clients -> Args \cup {0}] /\ arg'[c] = x /\ \A d \in Clients \ {c} : arg'[d] = arg[d]
    BY <1>1, <2>2
  <2>4. ~Fits(Square(x)) \/ deaths > 0
    <3>1. CASE Fits(x)
      BY <2>1, <2>2, <3>1 DEF SquareInv, Linked
    <3>2. CASE ~Fits(x)
      <4>1. x \in Int /\ MaxLong \in Nat
        BY QConstants DEF SquareInv, TypeOK
      <4> QED
        BY <3>2, <4>1, QLarge DEF Fits, Square
    <3> QED
      BY <3>1, <3>2
  <2> QED
    BY <1>2, <2>1, <2>3, <2>4, QEnds
<1>5. CASE Reply(c)
  <2>1. Ends(c, "wait", mail[c]) /\ arg' = arg /\ mail[c] # <<"none">>
    BY <1>5 DEF Reply, Returns
  <2>2. mail[c] \in Results \ {<<"none">>}
    BY <2>1, QTypes DEF SquareInv
  <2>3. /\ mail[c][1] = "square" => mail[c][2] = Square(arg[c])
        /\ mail[c] = <<"error">> => ~Fits(Square(arg[c])) \/ deaths > 0
    BY DEF SquareInv, Linked, Right
  <2>4. mail[c] # <<"timeout">>
    BY DEF SquareInv, Linked
  <2> QED
    BY <1>1, <2>1, <2>2, <2>3, <2>4, QEnds
<1>6. CASE Lost(c)
  <2>1. Ends(c, "wait", <<"error">>) /\ arg' = arg /\ cpc[c] = "wait" /\ c \notin conn
    BY <1>6 DEF Lost, Returns, Ends
  <2>2. deaths > 0
    BY <2>1 DEF SquareInv, Linked
  <2> QED
    BY <1>1, <1>2, <2>1, <2>2, QEnds
<1>7. CASE TimesOut(c)
  <2>1. Ends(c, "wait", <<"timeout">>) /\ arg' = arg /\ cpc[c] = "wait" /\ age[c] = Timeout
    BY <1>7 DEF TimesOut, Returns, Ends
  <2>2. Timeout <= Worked(c) + Duration
    BY <2>1 DEF SquareInv, Pacing, Pace, Waiting
  <2> QED
    BY <1>1, <1>2, <2>1, <2>2, QEnds
<1>8. CASE Interrupted(c)
  <2>1. Ends(c, "wait", <<"interrupted">>) /\ arg' = arg
    BY <1>8 DEF Interrupted, Returns
  <2> QED
    BY <1>1, <1>2, <2>1, QEnds
<1> QED
  BY <1>3, <1>4, <1>5, <1>6, <1>7, <1>8

LEMMA QStarts == ASSUME SquareInv, Unset \/ Register PROVE SquareInv'
<1>1. /\ UNCHANGED <<vers, cpc, arg, age, result, mail, conn, pending, cur, left, deaths, ahead>>
      /\ spc \in {"down", "register"} /\ spc' \in {"register", "idle"}
      /\ registered' \in BOOLEAN
  BY DEF Unset, Register, clientVars
<1>2. TypeOK' /\ conn = {}
  BY <1>1 DEF SquareInv, TypeOK, Once, Serving
<1>3. Linked' /\ Once'
  BY <1>1, <1>2 DEF SquareInv, Linked, Right, Square, Fits, Once
<1>4. Waiting' = Waiting /\ Duration' = Duration /\ \A d \in Clients : Worked(d)' = Worked(d)
  BY <1>1 DEF Waiting, Duration, Worked
<1>5. pending = {} /\ left = 0
  BY <1>1, <1>2 DEF SquareInv, TypeOK, Pacing
<1>6. Pacing' /\ Patience'
  <2>1. ASSUME NEW d \in Waiting PROVE Pace(d)'
    BY <1>1, <1>4, <1>5, <2>1 DEF SquareInv, Pacing, Pace, Waiting
  <2> QED
    BY <1>1, <1>4, <1>5, <2>1 DEF SquareInv, Pacing, Patience
<1> QED
  BY <1>2, <1>3, <1>6 DEF SquareInv

LEMMA QDispatch == ASSUME SquareInv, NEW c \in Clients, Dispatch(c) PROVE SquareInv'
<1>1. /\ UNCHANGED <<vers, cpc, arg, age, result, mail, conn, registered, deaths>>
      /\ spc = "idle" /\ c \in pending /\ spc' = "work" /\ cur' = c /\ left' = Duration
      /\ pending' = pending \ {c}
      /\ ahead' = [d \in Clients |-> IF d \in Waiting \ {c} THEN ahead[d] \cup {c} ELSE ahead[d]]
  BY DEF Dispatch, clientVars, Taken
<1>2. /\ Duration \in Nat /\ Duration' = Duration /\ Duration <= Sleep /\ Sleep \in Nat
      /\ c # Nobody /\ left = 0 /\ cpc[c] \in {"wait", "done"} /\ cur \notin Clients
  <2>1. Duration' = Duration
    BY <1>1 DEF Duration
  <2> QED
    BY <1>1, <2>1, QConstants DEF SquareInv, TypeOK, Once, Pacing
<1>3. TypeOK'
  <2>1. Duration \in 0 .. Sleep
    BY <1>2
  <2> QED
    BY <1>1, <1>2, <2>1 DEF SquareInv, TypeOK
<1>4. Linked'
  BY <1>1 DEF SquareInv, Linked, Right, Square, Fits
<1>5. \A d \in Clients : ahead'[d] = IF d \in Waiting \ {c} THEN ahead[d] \cup {c} ELSE ahead[d]
  BY <1>1
<1>6. \A d \in Clients : IsFiniteSet(ahead[d]) /\ c \notin ahead[d]
  BY <1>1 DEF SquareInv, Once
<1>7. Once'
  <2>1. \A d \in Clients : IsFiniteSet(ahead[d] \cup {c})
    BY <1>6, FS_AddElement
  <2>2. \A e \in Clients : \A d \in ahead'[e] : d = c \/ d \in ahead[e]
    <3>1. ASSUME NEW e \in Clients, NEW d \in ahead'[e] PROVE d = c \/ d \in ahead[e]
      <4>1. ahead'[e] = ahead[e] \cup {c} \/ ahead'[e] = ahead[e]
        BY <1>5, Zenon
      <4> QED
        BY <3>1, <4>1
    <3> QED
      BY <3>1
  <2>3. \A e \in Clients : IsFiniteSet(ahead'[e])
    BY <1>5, <1>6, <2>1
  <2> QED
    BY <1>1, <1>2, <2>2, <2>3 DEF SquareInv, Once, Serving
<1>8. \A d \in Clients : Worked(d)' = IF d \in Waiting \ {c} THEN Worked(d) + Duration ELSE Worked(d)
  <2>1. SUFFICES ASSUME NEW d \in Clients
                 PROVE  Worked(d)' = IF d \in Waiting \ {c} THEN Worked(d) + Duration ELSE Worked(d)
    OBVIOUS
  <2>2. CASE d \in Waiting \ {c}
    <3>1. Cardinality(ahead'[d]) = Cardinality(ahead[d]) + 1
      BY <1>5, <1>6, <2>2, FS_AddElement
    <3>2. Worked(d)' = Duration * (Cardinality(ahead[d]) + 1)
      BY <1>2, <3>1 DEF Worked
    <3> QED
      BY <2>2, <3>2, QWorked
  <2>3. CASE d \notin Waiting \ {c}
    BY <1>2, <1>5, <2>3 DEF Worked
  <2> QED
    BY <2>2, <2>3
<1>9. Waiting' = Waiting
  BY <1>1 DEF Waiting
<1>10. Pacing'
  <2>1. ASSUME NEW d \in Waiting PROVE Pace(d)'
    <3>1. d \in Clients /\ Pace(d)
      BY <2>1 DEF SquareInv, Pacing, Waiting
    <3>2. age[d] \in Nat /\ Worked(d) \in Nat
      BY <3>1, QTypes, QWorked DEF SquareInv
    <3>3. CASE d = c
      <4>1. age[c] <= Worked(c)
        BY <1>1, <1>2, <3>1, <3>2, <3>3 DEF Pace
      <4> QED
        BY <1>1, <1>2, <1>8, <3>1, <3>2, <3>3, <4>1 DEF Pace
    <3>4. CASE d # c
      <4>1. PICK w \in Nat : Worked(d)' = w /\ w = Worked(d) + Duration
        BY <1>2, <1>8, <2>1, <3>1, <3>2, <3>4
      <4>2. age'[d] <= Worked(d)' + Duration' /\ (d \in pending' => age'[d] + left' <= Worked(d)')
        BY <1>1, <1>2, <3>1, <3>2, <4>1 DEF Pace
      <4>3. c \in ahead'[d] /\ cur' # d /\ (d \in conn' /\ mail'[d] = <<"none">> => d \in pending' \/ d = cur')
        BY <1>1, <1>2, <1>5, <2>1, <3>1, <3>4 DEF Pace
      <4> QED
        BY <1>1, <4>2, <4>3 DEF Pace
    <3> QED
      BY <3>3, <3>4
  <2> QED
    BY <1>1, <1>2, <1>9, <2>1 DEF Pacing
<1>11. Patience'
  <2>1. ASSUME NEW d \in Clients, result'[d] = <<"timeout">> PROVE Timeout <= Worked(d)' + Duration'
    <3>1. d \notin Waiting
      BY <1>1, <2>1 DEF SquareInv, Linked, Waiting
    <3> QED
      BY <1>1, <1>2, <1>8, <2>1, <3>1 DEF SquareInv, Patience
  <2> QED
    BY <2>1 DEF Patience
<1> QED
  BY <1>3, <1>4, <1>7, <1>10, <1>11 DEF SquareInv

LEMMA QOutcome ==
    ASSUME SquareInv, NEW c \in Clients
    PROVE  /\ Outcome(c) \in Results \ {<<"none">>, <<"timeout">>}
           /\ Right(Outcome(c), c)
<1>1. Square(arg[c]) \in Int
  BY QTypes DEF SquareInv
<1>2. CASE Fits(Square(arg[c]))
  <2>1. Outcome(c) = <<"square", Square(arg[c])>>
    BY <1>1, <1>2, QWire DEF Outcome
  <2>2. <<"square", Square(arg[c])>> \in Results
    BY <1>2 DEF Fits, Results
  <2> QED
    BY <2>1, <2>2 DEF Right
<1>3. CASE ~Fits(Square(arg[c]))
  BY <1>3 DEF Outcome, Results, Right
<1> QED
  BY <1>2, <1>3

LEMMA QFinish == ASSUME SquareInv, Finish PROVE SquareInv'
<1>1. /\ UNCHANGED <<vers, cpc, arg, age, result, conn, registered, pending, left, deaths, ahead>>
      /\ spc = "work" /\ left = 0 /\ spc' = "idle" /\ cur' = Nobody
      /\ mail' = IF cur \in Waiting THEN [mail EXCEPT ![cur] = Outcome(cur)] ELSE mail
  BY DEF Finish, clientVars
<1>2. /\ cur \in Clients /\ Nobody \notin Clients
      /\ Outcome(cur) \in Results \ {<<"none">>, <<"timeout">>} /\ Right(Outcome(cur), cur)
  <2>1. cur \in Clients
    BY <1>1 DEF SquareInv, TypeOK
  <2> QED
    BY RpcAssumption, <2>1, QOutcome DEF RpcAssumption
<1>3. /\ mail' \in [Clients -> Results]
      /\ \A d \in Clients : mail'[d] = IF d = cur /\ d \in Waiting THEN Outcome(cur) ELSE mail[d]
  BY <1>1, <1>2 DEF SquareInv, TypeOK
<1>4. TypeOK'
  <2>1. cur' \notin Clients /\ {result', mail'} \subseteq [Clients -> Results]
    BY <1>1, <1>2, <1>3 DEF SquareInv, TypeOK
  <2> QED
    BY <1>1, <2>1 DEF SquareInv, TypeOK
<1>5. Linked'
  <2>1. SUFFICES ASSUME NEW d \in Clients
                 PROVE  /\ cpc'[d] \in {"call", "wait"} => d \in conn' \/ deaths' > 0
                        /\ cpc'[d] # "wait" => age'[d] = 0 /\ mail'[d] = <<"none">>
                        /\ result'[d] # <<"none">> => cpc'[d] = "done"
                        /\ mail'[d] # <<"timeout">> /\ Right(mail[d], d)' /\ Right(result[d], d)'
    BY DEF Linked
  <2>2. CASE d = cur /\ d \in Waiting
    BY <1>1, <1>2, <1>3, <2>2 DEF SquareInv, Linked, Right, Square, Fits, Waiting
  <2>3. CASE ~(d = cur /\ d \in Waiting)
    BY <1>1, <1>3, <2>3 DEF SquareInv, Linked, Right, Square, Fits
  <2> QED
    BY <2>2, <2>3
<1>6. Once'
  <2>1. cur' \notin pending'
    BY RpcAssumption, <1>1, <1>4 DEF TypeOK, RpcAssumption
  <2> QED
    BY <1>1, <2>1 DEF SquareInv, Once, Serving
<1>7. Waiting' = Waiting /\ Duration' = Duration /\ \A d \in Clients : Worked(d)' = Worked(d)
  BY <1>1 DEF Waiting, Duration, Worked
<1>8. Pacing'
  <2>1. ASSUME NEW d \in Waiting PROVE Pace(d)'
    <3>1. d \in Clients /\ Pace(d) /\ d # Nobody
      BY <1>2, <2>1 DEF SquareInv, Pacing, Waiting
    <3> QED
      BY <1>1, <1>2, <1>3, <1>7, <2>1, <3>1 DEF Pace
  <2> QED
    BY <1>1, <1>7, <2>1 DEF SquareInv, Pacing
<1>9. Patience'
  BY <1>1, <1>7 DEF SquareInv, Patience
<1> QED
  BY <1>4, <1>5, <1>6, <1>8, <1>9 DEF SquareInv

LEMMA QGone == ASSUME SquareInv, Gone PROVE SquareInv'
<1>1. /\ UNCHANGED <<vers, cpc, arg, age, result, mail, registered, ahead>>
      /\ spc' = "down" /\ cur' = Nobody /\ left' = 0 /\ pending' = {} /\ conn' = {}
      /\ deaths' = deaths + 1
  BY DEF Gone, clientVars
<1>2. deaths' \in Nat /\ deaths' > 0 /\ Nobody \notin Clients /\ 0 \in 0 .. Sleep
  BY RpcAssumption, <1>1 DEF SquareInv, TypeOK, RpcAssumption
<1>3. TypeOK'
  BY <1>1, <1>2 DEF SquareInv, TypeOK
<1>4. Linked'
  BY <1>1, <1>2 DEF SquareInv, Linked, Right, Square, Fits
<1>5. Once'
  BY <1>1 DEF SquareInv, Once
<1>6. Waiting' = Waiting /\ Duration' = Duration /\ \A d \in Clients : Worked(d)' = Worked(d)
  BY <1>1 DEF Waiting, Duration, Worked
<1>7. Pacing'
  <2>1. ASSUME NEW d \in Waiting PROVE Pace(d)'
    <3>1. d \in Clients /\ Pace(d) /\ d # Nobody
      BY <1>2, <2>1 DEF SquareInv, Pacing, Waiting
    <3> QED
      BY <1>1, <1>6, <3>1 DEF Pace
  <2>2. 0 <= Duration
    BY QConstants DEF SquareInv, TypeOK
  <2> QED
    BY <1>1, <1>6, <2>1, <2>2 DEF Pacing
<1>8. Patience'
  BY <1>1, <1>6 DEF SquareInv, Patience
<1> QED
  BY <1>3, <1>4, <1>5, <1>7, <1>8 DEF SquareInv

LEMMA QTick == ASSUME SquareInv, Tick PROVE SquareInv'
<1>1. /\ UNCHANGED <<vers, cpc, arg, result, mail, conn, spc, registered, pending, cur>>
      /\ UNCHANGED <<deaths, ahead>>
      /\ age' = [c \in Clients |-> IF c \in Waiting THEN age[c] + 1 ELSE age[c]]
      /\ left' = IF spc = "work" THEN left - 1 ELSE left
  BY DEF Tick
<1>2. /\ spc = "idle" => pending = {}
      /\ spc = "work" => left # 0
      /\ \A c \in Waiting : mail[c] = <<"none">> /\ c \in conn /\ age[c] # Timeout
  BY DEF Tick, Due
<1>3. left \in Nat /\ left <= Sleep /\ Sleep \in Nat /\ Duration \in Nat /\ Timeout \in Nat
  BY QConstants DEF SquareInv, TypeOK
<1>4. PICK l \in Nat : /\ left' = l /\ l <= left
                       /\ spc = "work" => l = left - 1
                       /\ spc # "work" => l = left
  BY <1>1, <1>2, <1>3
<1>5. \A c \in Clients : age'[c] = (IF c \in Waiting THEN age[c] + 1 ELSE age[c])
  BY <1>1
<1>6. TypeOK'
  <2>1. age' \in [Clients -> 0 .. Timeout]
    <3>1. ASSUME NEW c \in Clients
          PROVE  (IF c \in Waiting THEN age[c] + 1 ELSE age[c]) \in 0 .. Timeout
      BY <1>2, <1>3, QTypes DEF SquareInv
    <3> QED
      BY <1>1, <3>1
  <2>2. left' \in 0 .. Sleep
    BY <1>3, <1>4
  <2> QED
    BY <1>1, <2>1, <2>2 DEF SquareInv, TypeOK
<1>7. Linked'
  BY <1>1, <1>5 DEF SquareInv, Linked, Right, Square, Fits, Waiting
<1>8. Once'
  BY <1>1 DEF SquareInv, Once, Serving
<1>9. Waiting' = Waiting /\ Duration' = Duration /\ \A d \in Clients : Worked(d)' = Worked(d)
  BY <1>1 DEF Waiting, Duration, Worked
<1>10. Pacing'
  <2>1. ASSUME NEW d \in Waiting PROVE Pace(d)'
    <3>1. d \in Clients /\ Pace(d) /\ age[d] \in Nat /\ Worked(d) \in Nat /\ age'[d] = age[d] + 1
      <4>1. d \in Clients
        BY <2>1 DEF Waiting
      <4> QED
        BY <1>5, <2>1, <4>1, QTypes, QWorked DEF SquareInv, Pacing
    <3>2. d \in pending \/ d = cur
      BY <1>2, <2>1, <3>1 DEF Pace
    <3>3. spc = "work"
      <4>1. pending # {} => Serving
        BY DEF SquareInv, TypeOK, Once
      <4> QED
        BY <1>2, <3>1, <3>2, <4>1 DEF SquareInv, TypeOK, Serving
    <3>4. /\ d = cur => age'[d] + left' <= Worked(d) + Duration
          /\ d \in pending => age'[d] + left' <= Worked(d)
      BY <1>3, <1>4, <3>1, <3>3 DEF Pace
    <3>5. age'[d] <= Worked(d) + Duration
      BY <1>3, <1>4, <3>1, <3>2, <3>3 DEF Pace
    <3> QED
      BY <1>1, <1>9, <3>1, <3>4, <3>5 DEF Pace
  <2> QED
    <3>1. left' <= Duration /\ (spc # "work" => left' = 0)
      BY <1>3, <1>4 DEF SquareInv, Pacing
    <3> QED
      BY <1>1, <1>9, <2>1, <3>1 DEF Pacing
<1>11. Patience'
  BY <1>1, <1>9 DEF SquareInv, Patience
<1> QED
  BY <1>6, <1>7, <1>8, <1>10, <1>11 DEF SquareInv

LEMMA QStep == SquareInv /\ [Next]_vars => SquareInv'
<1> SUFFICES ASSUME SquareInv, [Next]_vars PROVE SquareInv'
  OBVIOUS
<1>1. CASE UNCHANGED vars
  <2>1. /\ UNCHANGED <<vers, cpc, arg, age, result, mail, conn, spc, registered, pending, cur>>
        /\ UNCHANGED <<left, deaths, ahead>>
    BY <1>1 DEF vars, clientVars, serverVars
  <2>2. TypeOK' /\ Linked'
    BY <2>1 DEF SquareInv, TypeOK, Linked, Right, Square, Fits
  <2>3. Once'
    BY <2>1 DEF SquareInv, Once, Serving
  <2>4. Waiting' = Waiting /\ Duration' = Duration /\ \A d \in Clients : Worked(d)' = Worked(d)
    BY <2>1 DEF Waiting, Duration, Worked
  <2>5. Pacing' /\ Patience'
    <3>1. ASSUME NEW d \in Waiting PROVE Pace(d)'
      BY <2>1, <2>4, <3>1 DEF SquareInv, Pacing, Pace, Waiting
    <3> QED
      BY <2>1, <2>4, <3>1 DEF SquareInv, Pacing, Patience
  <2> QED
    BY <2>2, <2>3, <2>5 DEF SquareInv
<1>2. CASE Next
  <2>1. ASSUME NEW c \in Clients, Client(c) \/ Interrupted(c) PROVE SquareInv'
    BY <2>1, QCreate, QCall, QClientEnds DEF Client
  <2>2. ASSUME Server PROVE SquareInv'
    BY <2>2, QStarts, QDispatch, QFinish, QGone DEF Server, BrokenPipe
  <2>3. ASSUME Killed \/ Tick PROVE SquareInv'
    BY <2>3, QGone, QTick DEF Killed
  <2> QED
    BY <1>2, <2>1, <2>2, <2>3 DEF Next
<1> QED
  BY <1>1, <1>2

(* A number that a client shows is the square of its own argument, and an  *)
(* error means that it does not fit or that a server died.                 *)
THEOREM SquaresAreRight == Spec => []AnswersRight
<1>1. SquareInv => AnswersRight
  BY DEF SquareInv, Linked, Right, AnswersRight
<1> QED
  BY <1>1, QInit, QStep, PTL DEF Spec

(* A client gives up only if the calls that the server worked on while it  *)
(* waited, and its own, take as long as its timeout.                       *)
THEOREM OnlyAQueueTimesOut == Spec => []TimeoutNeedsQueue
<1>1. SquareInv => TimeoutNeedsQueue
  <2>1. ASSUME SquareInv, NEW c \in Clients, result[c] = <<"timeout">>
        PROVE  Timeout <= Duration * (Cardinality(ahead[c]) + 1)
    BY <2>1, QWorked DEF SquareInv, Patience
  <2> QED
    BY <2>1 DEF TimeoutNeedsQueue
<1> QED
  BY <1>1, QInit, QStep, PTL DEF Spec

CallsKept == \A c \in Waiting :
    mail[c] # <<"none">> \/ c \notin conn \/ c \in pending \/ c = cur

(* A waiting client has its reply on the way, has lost its connection, or  *)
(* its call is still to be read or being worked on: svc_run forgets none.  *)
THEOREM NoCallForgotten == Spec => []CallsKept
<1>1. SquareInv => CallsKept
  BY DEF SquareInv, Pacing, Pace, CallsKept
<1> QED
  BY <1>1, QInit, QStep, PTL DEF Spec

----------------------------------------------------------------------------
(* HalfClose.                                                              *)
CONSTANTS MaxInput, BuffSize, Capacity, MaxJunk

VARIABLES stdin, stdineof, rset, shut, toServer, toClient, buff, died,
          input, exact, sent, printed

H == INSTANCE HalfClose

(* Every byte written is in one place, and input and output differ only    *)
(* where strlen made them differ.                                          *)
Flow == /\ ~died => sent = left + toServer + buff + toClient + printed
        /\ exact => sent = input - Len(stdin)
        /\ input \in Nat

(* The order of the end: all is written when the client shuts its half,    *)
(* the server closes when it has echoed all, and the client ends last.     *)
Order == /\ cpc \in {"select", "sock", "stdin"} => left = 0
         /\ cpc = "stdin" => "stdin" \in rset
         /\ cpc = "write" => ~stdineof
         /\ cpc = "sock" => H!SockReady
         /\ shut => stdineof
         /\ spc = "read" => buff = 0
         /\ spc = "closed" /\ ~died => shut /\ toServer = 0 /\ buff = 0 /\ left = 0
         /\ cpc = "done" /\ ~died => spc = "closed" /\ toClient = 0

HalfCloseInv == H!TypeOK /\ Flow /\ Order

(* A byte more or less.                                                    *)
LEMMA HLeast ==
    ASSUME NEW S \in SUBSET Nat, S # {}
    PROVE  H!Min(S) \in S /\ \A k \in S : H!Min(S) <= k
<1>1. IsWellFoundedOn({ss \in Nat \X Nat : ss[1] < ss[2]}, Nat)
  BY NatLessThanWellFounded, Zenon DEF OpToRel
<1>2. PICK m \in S : \A y \in S : <<y, m>> \notin {ss \in Nat \X Nat : ss[1] < ss[2]}
  BY <1>1, WFMin
<1>3. ASSUME NEW k \in S PROVE m <= k
  <2>1. ~ (k < m)
    BY <1>2
  <2> QED
    BY <2>1
<1> QED
  BY <1>3 DEF H!Min

LEMMA HInit == ASSUME H!HalfCloseAssumption PROVE H!Init => HalfCloseInv
<1> SUFFICES ASSUME H!Init PROVE HalfCloseInv
  OBVIOUS
<1>1. stdin \in Seq({"nul", "other"}) /\ Len(stdin) \in Nat /\ input = Len(stdin)
  BY DEF H!Init, H!SeqOf, H!Bytes
<1>2. H!TypeOK
  <2>1. {stdineof, shut, died, exact} \subseteq BOOLEAN
    BY Zenon DEF H!Init
  <2>2. /\ left \in 0 .. BuffSize + MaxJunk /\ buff \in 0 .. BuffSize
        /\ {toServer, toClient} \subseteq 0 .. Capacity
    BY DEF H!Init, H!HalfCloseAssumption
  <2>3. /\ stdin \in Seq(H!Bytes) /\ Len(stdin) <= input
        /\ rset \subseteq {"sock", "stdin"}
        /\ cpc \in {"select", "sock", "stdin", "write", "done"}
        /\ spc \in {"read", "write", "closed"}
        /\ {sent, printed} \subseteq Nat /\ ~stdineof
    BY <1>1 DEF H!Init, H!Bytes
  <2> QED
    BY <2>1, <2>2, <2>3, Zenon DEF H!TypeOK
<1>3. Flow
  BY <1>1 DEF H!Init, Flow
<1>4. Order
  BY DEF H!Init, Order
<1> QED
  BY <1>2, <1>3, <1>4 DEF HalfCloseInv

LEMMA HShape ==
    ASSUME H!HalfCloseAssumption, HalfCloseInv
    PROVE  /\ left \in Nat /\ buff \in Nat /\ toServer \in Nat /\ toClient \in Nat
           /\ sent \in Nat /\ printed \in Nat /\ input \in Nat /\ Len(stdin) \in Nat
           /\ toServer <= Capacity /\ toClient <= Capacity /\ buff <= BuffSize
           /\ left <= BuffSize + MaxJunk
           /\ BuffSize \in Nat /\ Capacity \in Nat /\ MaxJunk \in Nat
BY DEF H!HalfCloseAssumption, HalfCloseInv, H!TypeOK, Flow

LEMMA HSome ==
    ASSUME NEW a \in Nat, NEW b \in Nat, NEW n \in 1 .. H!Min({a, b})
    PROVE  n \in Nat /\ 1 <= n /\ n <= a /\ n <= b
<1>1. {a, b} \in SUBSET Nat /\ {a, b} # {}
  OBVIOUS
<1>2. H!Min({a, b}) \in {a, b} /\ H!Min({a, b}) <= a /\ H!Min({a, b}) <= b
  BY <1>1, HLeast
<1> QED
  BY <1>2

(* The types that a step of the client, of the server, or of both leaves.  *)
LEMMA HTypes ==
    ASSUME H!HalfCloseAssumption, HalfCloseInv,
           stdin' \in Seq(H!Bytes), Len(stdin') <= input', rset' \subseteq {"sock", "stdin"},
           cpc' \in {"select", "sock", "stdin", "write", "done"},
           spc' \in {"read", "write", "closed"},
           {stdineof', shut', died', exact'} \subseteq BOOLEAN,
           left' \in 0 .. BuffSize + MaxJunk, buff' \in 0 .. BuffSize,
           toServer' \in 0 .. Capacity, toClient' \in 0 .. Capacity,
           sent' \in Nat, printed' \in Nat,
           stdineof' => stdin' = << >> /\ "stdin" \notin rset'
    PROVE  H!TypeOK'
<1>1. /\ {toServer', toClient'} \subseteq 0 .. Capacity
      /\ {sent', printed'} \subseteq Nat
  OBVIOUS
<1> QED
  BY <1>1, Zenon DEF H!TypeOK

LEMMA HTypesNow ==
    ASSUME H!HalfCloseAssumption, HalfCloseInv
    PROVE  /\ stdin \in Seq(H!Bytes) /\ Len(stdin) <= input /\ rset \subseteq {"sock", "stdin"}
           /\ cpc \in {"select", "sock", "stdin", "write", "done"}
           /\ spc \in {"read", "write", "closed"}
           /\ {stdineof, shut, died, exact} \subseteq BOOLEAN
           /\ left \in 0 .. BuffSize + MaxJunk /\ buff \in 0 .. BuffSize
           /\ toServer \in 0 .. Capacity /\ toClient \in 0 .. Capacity
           /\ sent \in Nat /\ printed \in Nat
           /\ stdineof => stdin = << >> /\ "stdin" \notin rset
<1>1. /\ toServer \in 0 .. Capacity /\ toClient \in 0 .. Capacity
      /\ sent \in Nat /\ printed \in Nat
  BY DEF HalfCloseInv, H!TypeOK
<1> QED
  BY <1>1, Zenon DEF HalfCloseInv, H!TypeOK

LEMMA HSelect == ASSUME H!HalfCloseAssumption, HalfCloseInv, H!Select PROVE HalfCloseInv'
<1>1. /\ UNCHANGED <<stdin, stdineof, left, shut, input, exact, sent, printed>>
      /\ UNCHANGED <<toServer, toClient, spc, buff, died>>
      /\ cpc = "select" /\ cpc' = IF H!SockReady THEN "sock" ELSE "stdin"
      /\ rset' \subseteq H!Watched /\ rset' # {} /\ ("sock" \in rset' <=> H!SockReady)
  BY DEF H!Select, H!Step, H!serverVars
<1>2. /\ rset' \subseteq {"sock", "stdin"}
      /\ stdineof => stdin = << >> /\ "stdin" \notin rset'
  BY <1>1 DEF HalfCloseInv, H!TypeOK, H!Watched
<1>3. H!TypeOK'
  <2>1. cpc' \in {"select", "sock", "stdin", "write", "done"}
    BY <1>1
  <2> QED
    BY <1>1, <1>2, <2>1, Zenon DEF HalfCloseInv, H!TypeOK
<1>4. Flow'
  BY <1>1 DEF HalfCloseInv, Flow
<1>5. Order'
  BY <1>1, <1>2 DEF HalfCloseInv, Order, H!SockReady
<1> QED
  BY <1>3, <1>4, <1>5 DEF HalfCloseInv

LEMMA HReadSock == ASSUME H!HalfCloseAssumption, HalfCloseInv, H!ReadSock PROVE HalfCloseInv'
<1>1. /\ UNCHANGED <<stdin, stdineof, rset, left, shut, input, exact, sent>>
      /\ UNCHANGED <<toServer, spc, buff, died>>
      /\ cpc = "sock" /\ cpc' = IF "stdin" \in rset THEN "stdin" ELSE "select"
  BY DEF H!ReadSock, H!Step, H!serverVars
<1>2. PICK n \in 1 .. H!Min({toClient, BuffSize}) :
         toClient' = toClient - n /\ printed' = printed + n
  BY DEF H!ReadSock
<1>3. n \in Nat /\ n <= toClient
  BY HShape, HSome
<1>4. H!TypeOK'
  <2>1. toClient' \in 0 .. Capacity /\ printed' \in Nat
    <3>1. toClient \in Nat /\ printed \in Nat /\ toClient <= Capacity /\ Capacity \in Nat
      BY HShape
    <3> QED
      BY <1>2, <1>3, <3>1
  <2>2. cpc' \in {"select", "sock", "stdin", "write", "done"}
    BY <1>1
  <2> QED
    BY <1>1, <2>1, <2>2, HTypesNow, HTypes, Zenon
<1>5. Flow'
  <2>1. /\ left \in Nat /\ buff \in Nat /\ toServer \in Nat /\ toClient \in Nat
        /\ sent \in Nat /\ printed \in Nat /\ input \in Nat
    BY HShape
  <2>3. ~died' => sent' = left' + toServer' + buff' + toClient' + printed'
    <3>8. ~died' => ~died
      BY <1>1, Zenon
    <3>9. ~died => sent = left + toServer + buff + toClient + printed
      BY DEF HalfCloseInv, Flow
    <3> QED
      BY <1>1, <1>2, <1>3, <2>1, <3>8, <3>9
  <2> QED
    BY <1>1, <2>1, <2>3 DEF HalfCloseInv, Flow
<1>6. Order'
  BY <1>1 DEF HalfCloseInv, Order, H!SockReady
<1> QED
  BY <1>4, <1>5, <1>6 DEF HalfCloseInv

LEMMA HSockEof == ASSUME H!HalfCloseAssumption, HalfCloseInv, H!SockEof PROVE HalfCloseInv'
<1>1. /\ UNCHANGED <<stdin, stdineof, rset, left, shut, input, exact, sent, printed>>
      /\ UNCHANGED <<toServer, toClient, spc, buff, died>>
      /\ cpc = "sock" /\ cpc' = "done" /\ toClient = 0
  BY DEF H!SockEof, H!Step, H!serverVars
<1>2. H!TypeOK' /\ Flow'
  <2>1. cpc' \in {"select", "sock", "stdin", "write", "done"}
    BY <1>1
  <2>2. H!TypeOK'
    BY <1>1, <2>1, Zenon DEF HalfCloseInv, H!TypeOK
  <2>3. Flow'
    BY <1>1 DEF HalfCloseInv, Flow
  <2> QED
    BY <2>2, <2>3
<1>3. Order'
  BY <1>1 DEF HalfCloseInv, Order, H!SockReady
<1> QED
  BY <1>2, <1>3 DEF HalfCloseInv

LEMMA HLengths ==
    ASSUME H!HalfCloseAssumption, NEW n \in Nat, 1 <= n, n <= BuffSize, NEW l \in H!Lengths(n)
    PROVE  l \in 0 .. BuffSize + MaxJunk
<1>1. MaxJunk \in Nat /\ BuffSize \in Nat
  BY DEF H!HalfCloseAssumption
<1>2. CASE H!Nuls(n) # {}
  <2>1. H!Nuls(n) \in SUBSET Nat /\ H!Nuls(n) \subseteq 1 .. n
    BY DEF H!Nuls
  <2>2. H!Min(H!Nuls(n)) \in 1 .. n /\ l = H!Min(H!Nuls(n)) - 1
    BY <1>2, <2>1, HLeast DEF H!Lengths
  <2> QED
    BY <1>1, <2>2
<1>3. CASE H!Nuls(n) = {} /\ n = BuffSize
  <2>1. l \in n .. n + MaxJunk
    BY <1>3 DEF H!Lengths
  <2> QED
    BY <1>1, <1>3, <2>1
<1>4. CASE H!Nuls(n) = {} /\ n # BuffSize
  <2>1. l = n
    BY <1>4 DEF H!Lengths
  <2> QED
    BY <1>1, <2>1
<1> QED
  BY <1>2, <1>3, <1>4

LEMMA HReadStdin == ASSUME H!HalfCloseAssumption, HalfCloseInv, H!ReadStdin PROVE HalfCloseInv'
<1>1. /\ UNCHANGED <<stdineof, rset, shut, input, printed, toServer, toClient>>
      /\ UNCHANGED <<spc, buff, died>> /\ sent' = sent + left'
      /\ cpc = "stdin" /\ cpc' = "write" /\ stdin # << >>
  BY DEF H!ReadStdin, H!Step, H!serverVars
<1>2. PICK n \in 1 .. H!Min({Len(stdin), BuffSize}) :
         /\ left' \in H!Lengths(n)
         /\ stdin' = SubSeq(stdin, n + 1, Len(stdin))
         /\ exact' = (exact /\ left' = n)
  BY DEF H!ReadStdin
<1>3. n \in Nat /\ 1 <= n /\ n <= Len(stdin) /\ n <= BuffSize /\ Len(stdin) <= input
      /\ stdin \in Seq(H!Bytes) /\ left = 0 /\ ~stdineof
  BY <1>1, HShape, HSome DEF HalfCloseInv, H!TypeOK, Order
<1>4. PICK l \in Nat : left' = l /\ l \in 0 .. BuffSize + MaxJunk
  <2>1. left' \in 0 .. BuffSize + MaxJunk
    BY <1>2, <1>3, HLengths
  <2> QED
    BY <2>1, HShape
<1>5. stdin' \in Seq(H!Bytes) /\ Len(stdin') = Len(stdin) - n
  BY <1>2, <1>3
<1>6. exact' \in BOOLEAN
  BY <1>2, Zenon
<1>7. H!TypeOK'
  <2>1. /\ sent' \in Nat /\ printed \in Nat /\ Len(stdin') <= input'
        /\ toServer \in 0 .. Capacity /\ toClient \in 0 .. Capacity
        /\ cpc' \in {"select", "sock", "stdin", "write", "done"}
    <3>1. sent \in Nat /\ Len(stdin) \in Nat /\ input \in Nat
      BY HShape
    <3>2. printed \in Nat /\ toServer \in 0 .. Capacity /\ toClient \in 0 .. Capacity
      BY HTypesNow
    <3>3. sent' \in Nat
      BY <1>1, <1>4, <3>1
    <3>4. Len(stdin') <= input'
      BY <1>1, <1>3, <1>5, <3>1
    <3> QED
      BY <1>1, <3>2, <3>3, <3>4
  <2>2. {stdineof', shut', died', exact'} \subseteq BOOLEAN
    BY <1>1, <1>6, Zenon DEF HalfCloseInv, H!TypeOK
  <2>3. ~stdineof'
    BY <1>1, <1>3
  <2> QED
    BY <1>1, <1>4, <1>5, <2>1, <2>2, <2>3, HTypesNow, HTypes, Zenon
<1>8. Flow'
  <2>1. ~died' => sent' = left' + toServer' + buff' + toClient' + printed'
    <3>1. /\ left \in Nat /\ buff \in Nat /\ toServer \in Nat /\ toClient \in Nat
          /\ sent \in Nat /\ printed \in Nat /\ input \in Nat
      BY HShape
    <3>8. ~died' => ~died
      BY <1>1, Zenon
    <3>9. ~died => sent = left + toServer + buff + toClient + printed
      BY DEF HalfCloseInv, Flow
    <3> QED
      BY <1>1, <1>3, <1>4, <3>1, <3>8, <3>9
  <2>2. exact' => exact /\ left' = n
    BY <1>2
  <2>3. exact' => sent' = input' - Len(stdin')
    <3>1. /\ sent \in Nat /\ input \in Nat /\ Len(stdin) \in Nat
          /\ exact => sent = input - Len(stdin)
      BY HShape DEF HalfCloseInv, Flow
    <3> QED
      BY <1>1, <1>3, <1>4, <1>5, <2>2, <3>1
  <2> QED
    BY <1>1, <2>1, <2>3 DEF HalfCloseInv, Flow
<1>9. Order'
  <2>1. spc = "closed" => died
    BY <1>1, <1>3 DEF HalfCloseInv, Order
  <2> QED
    BY <1>1, <1>3, <2>1 DEF HalfCloseInv, Order, H!SockReady
<1> QED
  BY <1>7, <1>8, <1>9 DEF HalfCloseInv

LEMMA HStdinEof == ASSUME H!HalfCloseAssumption, HalfCloseInv, H!StdinEof PROVE HalfCloseInv'
<1>1. /\ UNCHANGED <<stdin, left, input, exact, sent, printed, toServer, toClient>>
      /\ UNCHANGED <<spc, buff, died>> /\ rset' = rset \ {"stdin"}
      /\ cpc = "stdin" /\ cpc' = "select" /\ stdin = << >>
      /\ stdineof' = TRUE /\ shut' = TRUE
  BY DEF H!StdinEof, H!Step, H!serverVars, H!AfterEof, H!Shut, H!Cleared
<1>2. H!TypeOK'
  <2>1. /\ cpc' \in {"select", "sock", "stdin", "write", "done"}
        /\ rset' \subseteq {"sock", "stdin"} /\ "stdin" \notin rset'
    BY <1>1 DEF HalfCloseInv, H!TypeOK
  <2>2. {stdineof', shut', died', exact'} \subseteq BOOLEAN
    BY <1>1, Zenon DEF HalfCloseInv, H!TypeOK
  <2> QED
    BY <1>1, <2>1, <2>2, Zenon DEF HalfCloseInv, H!TypeOK
<1>3. Flow'
  BY <1>1 DEF HalfCloseInv, Flow
<1>4. Order'
  BY <1>1 DEF HalfCloseInv, Order, H!SockReady
<1> QED
  BY <1>2, <1>3, <1>4 DEF HalfCloseInv

LEMMA HWrites ==
    ASSUME H!HalfCloseAssumption, HalfCloseInv, H!WriteSome \/ H!Written \/ H!WriteFails
    PROVE  HalfCloseInv'
<1>1. /\ UNCHANGED <<stdin, stdineof, rset, shut, input, exact, sent, printed, toClient>>
      /\ UNCHANGED <<spc, buff, died>> /\ cpc = "write"
  BY DEF H!WriteSome, H!Written, H!WriteFails, H!Step, H!serverVars
<1>2. \/ cpc' = "write" /\ left > 0
      \/ cpc' = "select" /\ left' = left /\ left = 0
      \/ cpc' = "done" /\ left' = left /\ left > 0 /\ spc = "closed"
  <2>1. ASSUME H!WriteSome PROVE cpc' = "write" /\ left > 0
    <3>1. PICK n \in 1 .. H!Min({left, Capacity - toServer}) : TRUE
      BY <2>1 DEF H!WriteSome
    <3>2. Capacity - toServer \in Nat
      BY HShape
    <3>3. n \in Nat /\ 1 <= n /\ n <= left
      BY <3>2, HShape, HSome
    <3> QED
      BY <2>1, <3>3, HShape DEF H!WriteSome, H!Step
  <2> QED
    BY <2>1, HShape DEF H!Written, H!WriteFails, H!Step
<1>3. left' + toServer' = left + toServer /\ left' \in 0 .. BuffSize + MaxJunk
      /\ toServer' \in 0 .. Capacity
  <2>1. CASE H!WriteSome
    <3>1. PICK n \in 1 .. H!Min({left, Capacity - toServer}) :
             toServer' = toServer + n /\ left' = left - n
      BY <2>1 DEF H!WriteSome
    <3>2. Capacity - toServer \in Nat
      BY HShape
    <3>3. n \in Nat /\ 1 <= n /\ n <= left /\ n <= Capacity - toServer
      BY <3>2, HShape, HSome
    <3>4. left' + toServer' = left + toServer /\ left' <= left /\ left' \in Nat
          /\ toServer' <= Capacity /\ toServer' \in Nat
      <4>1. left \in Nat /\ toServer \in Nat /\ Capacity \in Nat
        BY HShape
      <4> QED
        BY <3>1, <3>3, <4>1
    <3>5. left <= BuffSize + MaxJunk /\ BuffSize + MaxJunk \in Nat /\ left \in Nat
          /\ Capacity \in Nat
      BY HShape
    <3> QED
      BY <3>4, <3>5
  <2>2. CASE H!Written \/ H!WriteFails
    BY <2>2, HShape DEF H!Written, H!WriteFails
  <2> QED
    BY <2>1, <2>2
<1>4. H!TypeOK'
  <2>1. /\ cpc' \in {"select", "sock", "stdin", "write", "done"}
        /\ toClient \in 0 .. Capacity /\ sent \in Nat /\ printed \in Nat
    BY <1>2, HShape
  <2> QED
    BY <1>1, <1>3, <2>1, HTypesNow, HTypes, Zenon
<1>5. Flow'
  <2>1. /\ left \in Nat /\ buff \in Nat /\ toServer \in Nat /\ toClient \in Nat
        /\ sent \in Nat /\ printed \in Nat /\ Capacity \in Nat /\ BuffSize + MaxJunk \in Nat
    BY HShape
  <2>2. PICK x \in Nat, y \in Nat : left' = x /\ toServer' = y /\ x + y = left + toServer
    <3>1. left' \in Nat /\ toServer' \in Nat
      BY <1>3, <2>1
    <3> QED
      BY <1>3, <3>1
  <2>3. ~died' => sent' = left' + toServer' + buff' + toClient' + printed'
    <3>1. ~died' => ~died
      BY <1>1, Zenon
    <3>2. ~died => sent = left + toServer + buff + toClient + printed
      BY DEF HalfCloseInv, Flow
    <3> QED
      BY <1>1, <2>1, <2>2, <3>1, <3>2
  <2> QED
    BY <1>1, <2>3 DEF HalfCloseInv, Flow
<1>6. Order'
  <2>1. ~stdineof /\ ~shut /\ (spc = "closed" => died)
    BY <1>1 DEF HalfCloseInv, Order
  <2> QED
    BY <1>1, <1>2, <2>1 DEF HalfCloseInv, Order
<1> QED
  BY <1>4, <1>5, <1>6 DEF HalfCloseInv

LEMMA HServer ==
    ASSUME H!HalfCloseAssumption, HalfCloseInv, H!Read \/ H!WriteBack
    PROVE  HalfCloseInv'
<1>1. /\ UNCHANGED <<stdin, stdineof, rset, cpc, left, shut, input, exact, sent, printed, died>>
      /\ spc # "closed" /\ spc' \in {"read", "write"} /\ (spc' = "read" => buff' = 0)
  BY DEF H!Read, H!WriteBack, H!clientVars
<1>2. /\ toServer' + buff' + toClient' = toServer + buff + toClient
      /\ toServer' \in 0 .. Capacity /\ toClient' \in 0 .. Capacity /\ buff' \in 0 .. BuffSize
      /\ toClient' >= toClient
  <2>1. CASE H!Read
    <3>1. PICK n \in 1 .. H!Min({toServer, BuffSize}) : toServer' = toServer - n /\ buff' = n
      BY <2>1 DEF H!Read
    <3>2. n \in Nat /\ 1 <= n /\ n <= toServer /\ n <= BuffSize
      BY HShape, HSome
    <3>3. toClient' = toClient /\ buff = 0
      BY <2>1 DEF H!Read, HalfCloseInv, Order
    <3> QED
      <4>1. /\ toServer \in Nat /\ toClient \in Nat /\ toServer <= Capacity
            /\ toClient <= Capacity /\ Capacity \in Nat /\ BuffSize \in Nat
        BY HShape
      <4> QED
        BY <3>1, <3>2, <3>3, <4>1
  <2>2. CASE H!WriteBack
    <3>1. PICK n \in 1 .. H!Min({buff, Capacity - toClient}) :
             toClient' = toClient + n /\ buff' = buff - n
      BY <2>2 DEF H!WriteBack
    <3>2. Capacity - toClient \in Nat
      BY HShape
    <3>3. n \in Nat /\ 1 <= n /\ n <= buff /\ n <= Capacity - toClient
      BY <3>2, HShape, HSome
    <3>4. toServer' = toServer
      BY <2>2 DEF H!WriteBack
    <3>5. /\ toServer' + buff' + toClient' = toServer + buff + toClient
          /\ toClient' >= toClient /\ toClient' <= Capacity /\ toClient' \in Nat
          /\ buff' <= buff /\ buff' \in Nat
      <4>1. /\ left \in Nat /\ buff \in Nat /\ toServer \in Nat /\ toClient \in Nat
            /\ sent \in Nat /\ printed \in Nat /\ input \in Nat /\ Capacity \in Nat
        BY HShape
      <4> QED
        BY <3>1, <3>3, <3>4, <4>1
    <3>6. /\ toServer \in 0 .. Capacity /\ Capacity \in Nat /\ BuffSize \in Nat
          /\ buff <= BuffSize /\ buff \in Nat
      BY HShape
    <3> QED
      BY <3>4, <3>5, <3>6
  <2> QED
    BY <2>1, <2>2
<1>3. H!TypeOK'
  <2>1. sent \in Nat /\ printed \in Nat /\ spc' \in {"read", "write", "closed"}
    BY <1>1, HShape
  <2> QED
    BY <1>1, <1>2, <2>1, HTypesNow, HTypes, Zenon
<1>4. Flow'
  <2>1. toServer' \in Nat /\ toClient' \in Nat /\ buff' \in Nat
    BY <1>2
  <2> QED
    <3>1. /\ left \in Nat /\ buff \in Nat /\ toServer \in Nat /\ toClient \in Nat
          /\ sent \in Nat /\ printed \in Nat /\ input \in Nat
      BY HShape
    <3>3. PICK x \in Nat, y \in Nat, z \in Nat :
             /\ toServer' = x /\ toClient' = y /\ buff' = z
             /\ x + z + y = toServer + buff + toClient
      BY <1>2, <2>1
    <3>2. ~died' => sent' = left' + toServer' + buff' + toClient' + printed'
      <4>8. ~died' => ~died
        BY <1>1, Zenon
      <4>9. ~died => sent = left + toServer + buff + toClient + printed
        BY DEF HalfCloseInv, Flow
      <4> QED
        BY <1>1, <3>1, <3>3, <4>8, <4>9
    <3> QED
      BY <1>1, <3>1, <3>2 DEF HalfCloseInv, Flow
<1>5. Order'
  <2>1. H!SockReady => toClient' > 0
    <3>1. toClient \in Nat
      BY HShape
    <3> QED
      BY <1>1, <1>2, <3>1 DEF H!SockReady
  <2> QED
    BY <1>1, <2>1 DEF HalfCloseInv, Order, H!SockReady
<1> QED
  BY <1>3, <1>4, <1>5 DEF HalfCloseInv

LEMMA HCloses ==
    ASSUME H!HalfCloseAssumption, HalfCloseInv, H!Close \/ H!Dies
    PROVE  HalfCloseInv'
<1>1. /\ UNCHANGED <<stdin, stdineof, rset, cpc, left, shut, input, exact, sent, printed>>
      /\ UNCHANGED <<buff, toServer, toClient>> /\ spc' = "closed" /\ spc # "closed"
      /\ \/ died' = TRUE
         \/ died' = died /\ spc = "read" /\ toServer = 0 /\ shut
  BY DEF H!Close, H!Dies, H!clientVars
<1>2. H!TypeOK'
  <2>1. {stdineof', shut', died', exact'} \subseteq BOOLEAN
    BY <1>1, Zenon DEF HalfCloseInv, H!TypeOK
  <2>2. spc' \in {"read", "write", "closed"}
    BY <1>1
  <2> QED
    BY <1>1, <2>1, <2>2, Zenon DEF HalfCloseInv, H!TypeOK
<1>3. Flow'
  BY <1>1 DEF HalfCloseInv, Flow
<1>4. Order'
  <2>1. shut => left = 0 \/ cpc = "done"
    BY DEF HalfCloseInv, H!TypeOK, Order
  <2> QED
    BY <1>1, <2>1 DEF HalfCloseInv, Order, H!SockReady
<1> QED
  BY <1>2, <1>3, <1>4 DEF HalfCloseInv

LEMMA HStep == ASSUME H!HalfCloseAssumption PROVE HalfCloseInv /\ [H!Next]_H!vars => HalfCloseInv'
<1> SUFFICES ASSUME HalfCloseInv, [H!Next]_H!vars PROVE HalfCloseInv'
  OBVIOUS
<1>1. CASE UNCHANGED H!vars
  <2>1. /\ UNCHANGED <<stdin, stdineof, rset, cpc, left, shut, input, exact, sent, printed>>
        /\ UNCHANGED <<spc, buff, died, toServer, toClient>>
    BY <1>1 DEF H!vars, H!clientVars, H!serverVars
  <2>2. H!TypeOK'
    BY <2>1, Zenon DEF HalfCloseInv, H!TypeOK
  <2>3. Flow'
    BY <2>1 DEF HalfCloseInv, Flow
  <2>4. Order'
    BY <2>1 DEF HalfCloseInv, Order, H!SockReady
  <2> QED
    BY <2>2, <2>3, <2>4 DEF HalfCloseInv
<1>2. CASE H!Next
  BY <1>2, HSelect, HReadSock, HSockEof, HReadStdin, HStdinEof, HWrites, HServer, HCloses
     DEF H!Next, H!Client, H!Server
<1> QED
  BY <1>1, <1>2

(* tcpcli.c ends, its server alive, only when all that it wrote has been   *)
(* echoed and printed, and has then read its input to the end.             *)
THEOREM EverythingEchoed == ASSUME H!HalfCloseAssumption PROVE H!Spec => []H!AllEchoed
<1>1. HalfCloseInv => H!AllEchoed
  <2>1. ASSUME HalfCloseInv, cpc = "done", ~died
        PROVE  stdineof /\ printed = sent /\ (exact => sent = input)
    <3>1. stdineof /\ left = 0 /\ toServer = 0 /\ buff = 0 /\ toClient = 0 /\ stdin = << >>
      BY <2>1 DEF HalfCloseInv, Order, H!TypeOK
    <3> QED
      <4>1. sent \in Nat /\ printed \in Nat /\ input \in Nat
        BY <2>1, HShape
      <4>2. Len(stdin) = 0
        BY <3>1
      <4> QED
        BY <2>1, <3>1, <4>1, <4>2 DEF HalfCloseInv, Flow
  <2> QED
    BY <2>1 DEF HalfCloseInv, H!AllEchoed
<1> QED
  BY <1>1, HInit, HStep, PTL DEF H!Spec

(* Who can take a step: select() returns when something is ready, read()   *)
(* when there is data or the end of it, write() when there is room.        *)
HClientRuns == \/ cpc \in {"sock", "stdin"}
               \/ cpc = "select" /\ (H!SockReady \/ "stdin" \in H!Watched)
               \/ cpc = "write" /\ (left = 0 \/ toServer < Capacity \/ spc = "closed")
HServerRuns == \/ spc = "read" /\ (toServer > 0 \/ shut)
               \/ spc = "write" /\ toClient < Capacity

OnlyFullStops == cpc # "done" => \/ HClientRuns \/ HServerRuns
                                 \/ H!Deadlocked /\ sent > 2 * Capacity

(* The server hears of the end of input, and writes only what it has.      *)
Heard == /\ stdineof => shut
         /\ spc = "write" => buff > 0
         /\ died => spc = "closed"

LEMMA HHeard == ASSUME H!HalfCloseAssumption, HalfCloseInv, Heard, [H!Next]_H!vars PROVE Heard'
<1>1. ASSUME H!Client PROVE Heard'
  <2>1. UNCHANGED <<spc, buff, died>>
    BY <1>1 DEF H!Client, H!Select, H!ReadSock, H!SockEof, H!ReadStdin, H!StdinEof, H!WriteSome,
       H!Written, H!WriteFails, H!Step, H!serverVars
  <2>2. stdineof' => shut'
    BY <1>1 DEF Heard, H!Client, H!Select, H!ReadSock, H!SockEof, H!ReadStdin, H!StdinEof,
       H!WriteSome, H!Written, H!WriteFails, H!Shut
  <2> QED
    BY <2>1, <2>2, Zenon DEF Heard
<1>2. ASSUME H!Server \/ H!Dies PROVE Heard'
  <2>1. UNCHANGED <<stdineof, shut>>
    BY <1>2 DEF H!Server, H!Read, H!WriteBack, H!Close, H!Dies, H!clientVars
  <2>2. spc' = "write" => buff' > 0
    <3>1. CASE H!Read
      <4>1. PICK n \in 1 .. H!Min({toServer, BuffSize}) : buff' = n
        BY <3>1 DEF H!Read
      <4>2. n \in Nat /\ 1 <= n
        BY HShape, HSome
      <4> QED
        BY <4>1, <4>2
    <3>2. CASE H!WriteBack
      <4>1. PICK n \in 1 .. H!Min({buff, Capacity - toClient}) :
               buff' = buff - n /\ spc' = IF buff' = 0 THEN "read" ELSE "write"
        BY <3>2 DEF H!WriteBack
      <4>2. Capacity - toClient \in Nat
        BY HShape
      <4>3. n \in Nat /\ n <= buff
        BY <4>2, HShape, HSome
      <4>4. buff \in Nat
        BY HShape
      <4> QED
        BY <4>1, <4>3, <4>4
    <3> QED
      BY <1>2, <3>1, <3>2 DEF H!Server, H!Close, H!Dies
  <2>3. died' => spc' = "closed"
    BY <1>2, Zenon DEF Heard, H!Server, H!Read, H!WriteBack, H!Close, H!Dies
  <2> QED
    BY <2>1, <2>2, <2>3, Zenon DEF Heard
<1>3. CASE UNCHANGED H!vars
  <2>1. UNCHANGED <<stdineof, shut, spc, buff, died>>
    BY <1>3 DEF H!vars, H!clientVars, H!serverVars
  <2> QED
    BY <2>1, Zenon DEF Heard
<1> QED
  BY <1>1, <1>2, <1>3 DEF H!Next

(* The two never wait for each other, but in writen with both directions   *)
(* full, when more was written than the two of them hold; at end of input, *)
(* the server is told, and the client waits for nothing but its answer.    *)
THEOREM OnlyFullConnectionsStop ==
    ASSUME H!HalfCloseAssumption PROVE H!Spec => []OnlyFullStops
<1>1. ASSUME HalfCloseInv, Heard, cpc # "done", ~HClientRuns, ~HServerRuns
      PROVE  H!Deadlocked /\ sent > 2 * Capacity
  <2>1. /\ left \in Nat /\ buff \in Nat /\ toServer \in Nat /\ toClient \in Nat
        /\ sent \in Nat /\ printed \in Nat /\ Capacity \in Nat \ {0}
        /\ toServer <= Capacity /\ toClient <= Capacity
    BY <1>1, HShape DEF H!HalfCloseAssumption
  <2>2. spc # "closed"
    BY <1>1, HTypesNow DEF HClientRuns, H!SockReady
  <2>3. cpc = "write"
    <3>1. ASSUME cpc = "select" PROVE FALSE
      <4>1. toClient = 0 /\ stdineof
        BY <1>1, <2>1, <3>1 DEF HClientRuns, H!SockReady, H!Watched
      <4> QED
        BY <1>1, <2>1, <2>2, <4>1, HTypesNow DEF Heard, HServerRuns
    <3> QED
      BY <1>1, <3>1, HTypesNow DEF HClientRuns
  <2>4. left > 0 /\ toServer = Capacity
    BY <1>1, <2>1, <2>3 DEF HClientRuns
  <2>5. spc = "write" /\ toClient = Capacity /\ ~died
    BY <1>1, <2>1, <2>2, <2>4, HTypesNow DEF HServerRuns, Heard
  <2>6. sent = left + toServer + buff + toClient + printed
    BY <1>1, <2>5 DEF HalfCloseInv, Flow
  <2> QED
    BY <2>1, <2>3, <2>4, <2>5, <2>6 DEF H!Deadlocked
<1>2. HalfCloseInv /\ Heard => OnlyFullStops
  BY <1>1 DEF OnlyFullStops
<1>3. H!Init => Heard
  BY DEF H!Init, Heard
<1> QED
  BY <1>2, <1>3, HInit, HStep, HHeard, PTL DEF H!Spec

----------------------------------------------------------------------------
(* FifoServ.                                                               *)
CONSTANT MaxDeaths

VARIABLES servfifo, queue, merged, dummy, reply, killed, swallowed, lost

F == INSTANCE FifoServ

(* Sequences without repetitions: the FIFO and the backlog.                *)
LEMMA Appended ==
    ASSUME NEW S, NEW s \in Seq(S), F!IsInjective(s), NEW c \in S, c \notin F!ToSet(s)
    PROVE  /\ Append(s, c) \in Seq(S) /\ F!IsInjective(Append(s, c))
           /\ F!ToSet(Append(s, c)) = F!ToSet(s) \cup {c}
<1> DEFINE q == Append(s, c)
<1>1. /\ Len(s) \in Nat
      /\ \A m, n \in 1 .. Len(s) : s[m] = s[n] => m = n
      /\ \A n \in 1 .. Len(s) : s[n] # c
  <2>1. DOMAIN s = 1 .. Len(s) /\ Len(s) \in Nat
    OBVIOUS
  <2> QED
    BY <2>1 DEF F!ToSet, F!IsInjective
<1>2. /\ q \in Seq(S) /\ Len(q) = Len(s) + 1 /\ DOMAIN q = 1 .. Len(s) + 1
      /\ \A n \in 1 .. Len(s) : q[n] = s[n]
      /\ q[Len(s) + 1] = c /\ DOMAIN s = 1 .. Len(s)
  BY <1>1
<1> HIDE DEF q
<1>3. F!IsInjective(q)
  <2>1. \A m, n \in 1 .. Len(s) + 1 : q[m] = q[n] => m = n
    BY <1>1, <1>2
  <2> QED
    BY <1>2, <2>1 DEF F!IsInjective
<1>4. F!ToSet(q) = F!ToSet(s) \cup {c}
  <2>1. \A n \in 1 .. Len(s) + 1 : n \in 1 .. Len(s) \/ n = Len(s) + 1
    BY <1>1
  <2>2. \A n \in 1 .. Len(s) : n \in 1 .. Len(s) + 1
    BY <1>1
  <2>3. Len(s) + 1 \in 1 .. Len(s) + 1
    BY <1>1
  <2> QED
    BY <1>2, <2>1, <2>2, <2>3 DEF F!ToSet
<1> QED
  BY <1>2, <1>3, <1>4 DEF q

LEMMA Parted ==
    ASSUME NEW S, NEW s \in Seq(S), F!IsInjective(s), s # << >>
    PROVE  /\ Head(s) \in S /\ Tail(s) \in Seq(S) /\ F!IsInjective(Tail(s))
           /\ F!ToSet(s) = {Head(s)} \cup F!ToSet(Tail(s)) /\ Head(s) \notin F!ToSet(Tail(s))
<1> DEFINE q == Tail(s)
<1>1. /\ Len(s) \in Nat /\ Len(s) > 0 /\ DOMAIN s = 1 .. Len(s)
      /\ \A m, n \in 1 .. Len(s) : s[m] = s[n] => m = n
  <2>1. DOMAIN s = 1 .. Len(s) /\ Len(s) \in Nat /\ Len(s) > 0
    OBVIOUS
  <2> QED
    BY <2>1 DEF F!IsInjective
<1>2. /\ q \in Seq(S) /\ Len(q) = Len(s) - 1 /\ DOMAIN q = 1 .. Len(s) - 1
      /\ \A n \in 1 .. Len(s) - 1 : q[n] = s[n + 1]
      /\ Head(s) = s[1] /\ 1 \in 1 .. Len(s)
  BY <1>1
<1> HIDE DEF q
<1>3. \A n \in 1 .. Len(s) - 1 : n + 1 \in 1 .. Len(s) /\ n + 1 # 1
  BY <1>1
<1>4. \A n \in 1 .. Len(s) : n = 1 \/ (n - 1 \in 1 .. Len(s) - 1 /\ (n - 1) + 1 = n)
  BY <1>1
<1>5. F!IsInjective(q)
  <2>1. ASSUME NEW m \in 1 .. Len(s) - 1, NEW n \in 1 .. Len(s) - 1, q[m] = q[n] PROVE m = n
    <3>1. m + 1 = n + 1
      BY <1>1, <1>2, <1>3, <2>1
    <3> QED
      BY <1>1, <3>1
  <2> QED
    BY <1>2, <2>1 DEF F!IsInjective
<1>6. \A n \in 1 .. Len(s) - 1 : q[n] # Head(s)
  BY <1>1, <1>2, <1>3
<1>7. F!ToSet(s) = {Head(s)} \cup F!ToSet(q)
  <2>1. ASSUME NEW x \in F!ToSet(s) PROVE x = Head(s) \/ x \in F!ToSet(q)
    <3>1. PICK n \in 1 .. Len(s) : x = s[n]
      BY <1>1 DEF F!ToSet
    <3>2. n = 1 \/ (n - 1 \in 1 .. Len(s) - 1 /\ s[n] = q[n - 1])
      BY <1>2, <1>4
    <3> QED
      BY <1>2, <3>1, <3>2 DEF F!ToSet
  <2>2. ASSUME NEW x \in F!ToSet(q) PROVE x \in F!ToSet(s)
    <3>1. PICK n \in 1 .. Len(s) - 1 : x = q[n]
      BY <1>2 DEF F!ToSet
    <3>2. n + 1 \in 1 .. Len(s) /\ x = s[n + 1]
      BY <1>2, <1>3, <3>1
    <3> QED
      BY <1>1, <3>2 DEF F!ToSet
  <2>3. Head(s) \in F!ToSet(s)
    BY <1>1, <1>2 DEF F!ToSet
  <2> QED
    BY <2>1, <2>2, <2>3
<1>8. Head(s) \notin F!ToSet(q)
  BY <1>2, <1>6 DEF F!ToSet
<1> QED
  BY <1>1, <1>2, <1>5, <1>7, <1>8 DEF q

(* Who is in the FIFO or in the server's hands has asked once, and has not *)
(* been answered yet.                                                      *)
InHand == /\ \A c \in F!ToSet(queue) : cpc[c] = "openown" /\ c # cur
          /\ spc = "openclient" => cpc[cur] = "openown"
          /\ spc = "answer" => cpc[cur] = "reading"

Accounted == \A c \in Clients \ killed : cpc[c] = "openown" =>
                c \in F!ToSet(queue) \/ c = cur \/ c \in swallowed \/ c \in lost

FifoInv == F!TypeOK /\ InHand /\ Accounted

LEMMA FInit == ASSUME F!FifoAssumption PROVE F!Init => FifoInv
<1> SUFFICES ASSUME F!Init PROVE FifoInv
  OBVIOUS
<1>1. F!ToSet(queue) = {} /\ queue \in Seq(Clients) /\ F!IsInjective(queue)
  BY DEF F!Init, F!ToSet, F!IsInjective
<1>2. F!TypeOK
  <2>1. servfifo \in BOOLEAN /\ {merged, dummy} \subseteq BOOLEAN
    BY Zenon DEF F!Init
  <2>2. /\ spc \in {"start", "openread", "read", "openclient", "answer", "overrun", "dead"}
        /\ cur # Nobody <=> spc \in {"openclient", "answer"}
        /\ cur \in Clients \cup {Nobody} /\ deaths \in 0 .. MaxDeaths
    BY DEF F!Init, F!FifoAssumption
  <2>3. /\ cpc \in [Clients -> {"start", "open", "write", "openown", "reading",
                                "failed", "done"}]
        /\ reply \in [Clients -> {"none", "file", "error"}]
        /\ {killed, swallowed, lost} \subseteq SUBSET Clients
    BY DEF F!Init
  <2> QED
    BY <1>1, <2>1, <2>2, <2>3, Zenon DEF F!TypeOK
<1>3. InHand /\ Accounted
  BY <1>1 DEF F!Init, InHand, Accounted
<1> QED
  BY <1>2, <1>3 DEF FifoInv

(* What becomes of the requests in a FIFO.                                 *)
LEMMA FClosed ==
    ASSUME FifoInv, NEW open \in BOOLEAN, F!AfterClose(open)
    PROVE  /\ queue' \in Seq(Clients) /\ F!IsInjective(queue')
           /\ F!ToSet(queue') \subseteq F!ToSet(queue) /\ F!ToSet(queue) \subseteq Clients
           /\ F!ToSet(queue) \subseteq F!ToSet(queue') \cup lost'
           /\ lost \subseteq lost' /\ lost' \subseteq Clients
<1>1. /\ queue \in Seq(Clients) /\ F!IsInjective(queue) /\ lost \subseteq Clients
      /\ F!ToSet(queue) \subseteq Clients
  BY DEF FifoInv, F!TypeOK, F!ToSet
<1>2. F!ToSet(<< >>) = {} /\ << >> \in Seq(Clients) /\ F!IsInjective(<< >>)
  BY DEF F!ToSet, F!IsInjective
<1>3. \/ queue' = queue /\ lost' = lost
      \/ queue' = << >> /\ lost' = lost \cup F!ToSet(queue)
  BY Zenon DEF F!AfterClose
<1> QED
  BY <1>1, <1>2, <1>3

(* A client's step, by which it may come to wait.                          *)
LEMMA FClient ==
    ASSUME F!FifoAssumption, FifoInv, NEW c \in Clients, NEW from, NEW to,
           F!Step(c, from, to), from # "openown", from = "reading" => cur # c,
           to \in {"open", "write", "openown", "failed", "done"},
           queue' \in Seq(Clients), F!IsInjective(queue'), lost' \subseteq Clients,
           F!ToSet(queue') \subseteq
               F!ToSet(queue) \cup (IF to = "openown" THEN {c} ELSE {}),
           F!ToSet(queue) \subseteq F!ToSet(queue') \cup lost', lost \subseteq lost',
           to = "openown" => c \in F!ToSet(queue') \cup lost'
    PROVE  FifoInv'
<1>1. /\ UNCHANGED <<servfifo, reply, killed, swallowed, spc, cur, merged, dummy, deaths>>
      /\ cpc[c] = from /\ cpc' = [cpc EXCEPT ![c] = to]
  BY DEF F!Step, F!serverVars
<1>2. /\ cpc \in [Clients -> {"start", "open", "write", "openown", "reading", "failed", "done"}]
      /\ cur \in Clients \cup {Nobody} /\ (spc \in {"openclient", "answer"} => cur # Nobody)
      /\ {killed, swallowed, lost} \subseteq SUBSET Clients
  BY DEF FifoInv, F!TypeOK
<1>3. /\ cpc' \in [Clients -> {"start", "open", "write", "openown", "reading", "failed", "done"}]
      /\ cpc'[c] = to /\ \A d \in Clients \ {c} : cpc'[d] = cpc[d]
  BY <1>1, <1>2
<1>4. c \notin F!ToSet(queue) /\ (spc \in {"openclient", "answer"} => c # cur)
  BY <1>1 DEF FifoInv, InHand
<1>5. cur = c => spc \in {"openclient", "answer"}
  BY DEF FifoInv, F!TypeOK, F!FifoAssumption
<1>6. F!TypeOK'
  <2>1. {killed', swallowed', lost'} \subseteq SUBSET Clients
    BY <1>1, <1>2
  <2> QED
    BY <1>1, <1>3, <2>1, Zenon DEF FifoInv, F!TypeOK
<1>7. F!ToSet(queue') \subseteq Clients
  BY DEF F!ToSet
<1>8. InHand'
  <2>1. ASSUME NEW d \in F!ToSet(queue') PROVE cpc'[d] = "openown" /\ d # cur
    BY <1>1, <1>3, <1>4, <1>5, <1>7, <2>1 DEF FifoInv, InHand
  <2> QED
    BY <1>1, <1>2, <1>3, <1>4, <2>1 DEF FifoInv, InHand
<1>9. Accounted'
  BY <1>1, <1>3 DEF FifoInv, Accounted
<1> QED
  BY <1>6, <1>8, <1>9 DEF FifoInv

LEMMA FClientStep ==
    ASSUME F!FifoAssumption, FifoInv, NEW c \in Clients, F!Client(c)
    PROVE  FifoInv'
<1>1. /\ queue \in Seq(Clients) /\ F!IsInjective(queue) /\ lost \subseteq Clients
  BY DEF FifoInv, F!TypeOK
<1>2. CASE F!MakeFifo(c) \/ F!NoInput(c) \/ F!OpenServ(c)
  <2>1. PICK from \in {"start", "open"}, to \in {"open", "failed", "write"} :
           F!Step(c, from, to) /\ queue' = queue /\ lost' = lost
    BY <1>2 DEF F!MakeFifo, F!NoInput, F!OpenServ
  <2> QED
    BY <1>1, <2>1, FClient
<1>3. CASE F!OpenServFails(c)
  <2>1. F!Step(c, "open", "openown") /\ lost' = lost \cup {c} /\ queue' = queue
    BY <1>3 DEF F!OpenServFails
  <2> QED
    BY <1>1, <2>1, FClient
<1>4. CASE F!Request(c)
  <2>1. F!Step(c, "write", "openown") /\ queue' = Append(queue, c) /\ lost' = lost
    BY <1>4 DEF F!Request
  <2>2. c \notin F!ToSet(queue)
    BY <2>1 DEF F!Step, FifoInv, InHand
  <2>3. /\ queue' \in Seq(Clients) /\ F!IsInjective(queue')
        /\ F!ToSet(queue') = F!ToSet(queue) \cup {c}
    BY <2>1, <2>2, Appended DEF FifoInv, F!TypeOK
  <2> QED
    BY <1>1, <2>1, <2>2, <2>3, FClient
<1>5. CASE F!BrokenPipe(c) \/ F!Finish(c)
  <2>1. PICK from \in {"write", "reading"}, to \in {"failed", "done"}, open \in BOOLEAN :
           /\ F!Step(c, from, to) /\ F!AfterClose(open)
           /\ from = "reading" => cur # c
    BY <1>5 DEF F!BrokenPipe, F!Finish
  <2> QED
    BY <2>1, FClosed, FClient
<1> QED
  BY <1>2, <1>3, <1>4, <1>5 DEF F!Client

LEMMA FKill ==
    ASSUME F!FifoAssumption, FifoInv, NEW c \in Clients, F!Kill(c)
    PROVE  FifoInv'
<1>1. PICK open \in BOOLEAN : F!AfterClose(open)
  BY DEF F!Kill
<1>2. /\ UNCHANGED <<servfifo, cpc, reply, swallowed, spc, cur, merged, dummy, deaths>>
      /\ killed' = killed \cup {c}
  BY DEF F!Kill, F!serverVars
<1>3. F!TypeOK'
  <2>1. {killed', swallowed', lost'} \subseteq SUBSET Clients
    BY <1>1, <1>2, FClosed DEF FifoInv, F!TypeOK
  <2> QED
    BY <1>1, <1>2, <2>1, FClosed, Zenon DEF FifoInv, F!TypeOK
<1>4. InHand'
  BY <1>1, <1>2, FClosed DEF FifoInv, InHand
<1>5. Accounted'
  BY <1>1, <1>2, FClosed DEF FifoInv, Accounted
<1> QED
  BY <1>3, <1>4, <1>5 DEF FifoInv

(* The server takes the first requests: one, and the others as a part of   *)
(* it.                                                                     *)
LEMMA FTaken ==
    ASSUME NEW S, NEW s \in Seq(S), F!IsInjective(s), NEW n \in 1 .. Len(s)
    PROVE  LET first == SubSeq(s, 2, n)
               rest == SubSeq(s, n + 1, Len(s))
           IN  /\ rest \in Seq(S) /\ F!IsInjective(rest)
               /\ Head(s) \in S /\ Head(s) \in F!ToSet(s) /\ Head(s) \notin F!ToSet(rest)
               /\ F!ToSet(first) \subseteq S /\ F!ToSet(rest) \subseteq F!ToSet(s)
               /\ F!ToSet(s) \subseteq {Head(s)} \cup F!ToSet(first) \cup F!ToSet(rest)
<1> DEFINE first == SubSeq(s, 2, n)
           rest == SubSeq(s, n + 1, Len(s))
<1>1. /\ Len(s) \in Nat /\ n \in Nat /\ 1 <= n /\ n <= Len(s)
      /\ DOMAIN s = 1 .. Len(s) /\ Head(s) = s[1] /\ 1 \in 1 .. Len(s)
  OBVIOUS
<1>2. /\ first \in Seq(S) /\ DOMAIN first = 1 .. n - 1
      /\ \A k \in 1 .. n - 1 : first[k] = s[k + 1]
  <2>1. n <= Len(s) /\ \A k \in 2 .. n : s[k] \in S
    BY <1>1
  <2>2. /\ first \in Seq(S) /\ Len(first) = n - 1
        /\ \A k \in 1 .. n - 1 : first[k] = s[2 + k - 1]
    BY <1>1, <2>1, SubSeqProperties
  <2> QED
    BY <2>2
<1>3. /\ rest \in Seq(S) /\ DOMAIN rest = 1 .. Len(s) - n
      /\ \A k \in 1 .. Len(s) - n : rest[k] = s[k + n]
  <2>1. PICK m \in Nat, l \in Nat : m = n + 1 /\ l = Len(s)
    <3>1. n + 1 \in Nat /\ Len(s) \in Nat
      BY <1>1
    <3> QED
      BY <3>1, Zenon
  <2>2. rest = SubSeq(s, m, l)
    BY <2>1, Zenon
  <2> HIDE DEF rest, first
  <2>3. m <= l + 1 /\ \A k \in m .. l : s[k] \in S
    BY <1>1, <2>1
  <2>4. /\ rest \in Seq(S) /\ Len(rest) = l - m + 1
        /\ \A k \in 1 .. l - m + 1 : rest[k] = s[m + k - 1]
    BY <2>2, <2>3, SubSeqProperties
  <2>5. l - m + 1 = Len(s) - n /\ \A k \in 1 .. l - m + 1 : m + k - 1 = k + n
    BY <1>1, <2>1
  <2>6. DOMAIN rest = 1 .. Len(s) - n
    BY <2>4, <2>5
  <2>7. \A k \in 1 .. l - m + 1 : rest[k] = s[k + n]
    BY <2>4, <2>5
  <2> QED
    BY <2>4, <2>5, <2>6, <2>7, Zenon
<1> HIDE DEF first, rest
<1>4. F!IsInjective(rest)
  <2>1. ASSUME NEW k \in 1 .. Len(s) - n, NEW l \in 1 .. Len(s) - n, rest[k] = rest[l]
        PROVE  k = l
    <3>1. k + n \in 1 .. Len(s) /\ l + n \in 1 .. Len(s) /\ s[k + n] = s[l + n]
      BY <1>1, <1>3, <2>1
    <3>2. k + n = l + n
      BY <1>1, <3>1 DEF F!IsInjective
    <3> QED
      BY <1>1, <3>2
  <2> QED
    BY <1>3, <2>1 DEF F!IsInjective
<1>5. Head(s) \in S /\ Head(s) \in F!ToSet(s)
  BY <1>1 DEF F!ToSet
<1>6. Head(s) \notin F!ToSet(rest)
  <2>1. ASSUME NEW k \in 1 .. Len(s) - n PROVE rest[k] # s[1]
    <3>1. k + n \in 1 .. Len(s) /\ k + n # 1
      BY <1>1
    <3> QED
      BY <1>1, <1>3, <3>1 DEF F!IsInjective
  <2> QED
    BY <1>1, <1>3, <2>1 DEF F!ToSet
<1>7. F!ToSet(first) \subseteq S
  BY <1>2 DEF F!ToSet
<1>8. F!ToSet(rest) \subseteq F!ToSet(s)
  <2>1. \A k \in 1 .. Len(s) - n : k + n \in 1 .. Len(s)
    BY <1>1
  <2> QED
    BY <1>1, <1>3, <2>1 DEF F!ToSet
<1>9. ASSUME NEW k \in 1 .. Len(s)
      PROVE  s[k] \in {Head(s)} \cup F!ToSet(first) \cup F!ToSet(rest)
  <2>1. CASE k = 1
    BY <1>1, <2>1
  <2>2. CASE k # 1 /\ k <= n
    <3>1. k - 1 \in 1 .. n - 1 /\ (k - 1) + 1 = k
      BY <1>1, <2>2
    <3> QED
      BY <1>2, <3>1 DEF F!ToSet
  <2>3. CASE k > n
    <3>1. k - n \in 1 .. Len(s) - n /\ (k - n) + n = k
      BY <1>1, <2>3
    <3> QED
      BY <1>3, <3>1 DEF F!ToSet
  <2> QED
    BY <1>1, <2>1, <2>2, <2>3
<1>10. F!ToSet(s) \subseteq {Head(s)} \cup F!ToSet(first) \cup F!ToSet(rest)
  BY <1>1, <1>9 DEF F!ToSet
<1> QED
  BY <1>3, <1>4, <1>5, <1>6, <1>7, <1>8, <1>10 DEF first, rest

LEMMA FRead == ASSUME F!FifoAssumption, FifoInv, F!ReadRequest PROVE FifoInv'
<1>1. PICK n \in 1 .. Len(queue) :
         /\ merged' = (n > 1)
         /\ swallowed' = swallowed \cup F!ToSet(SubSeq(queue, 2, n))
         /\ queue' = SubSeq(queue, n + 1, Len(queue))
  BY DEF F!ReadRequest
<1>2. /\ UNCHANGED <<servfifo, dummy, deaths, cpc, reply, killed, lost>>
      /\ spc = "read" /\ spc' = "openclient" /\ cur' = Head(queue)
  BY DEF F!ReadRequest, F!Chosen
<1>3. /\ queue \in Seq(Clients) /\ F!IsInjective(queue) /\ swallowed \subseteq Clients
  BY DEF FifoInv, F!TypeOK
<1> DEFINE read == F!ToSet(SubSeq(queue, 2, n))
<1>4. /\ queue' \in Seq(Clients) /\ F!IsInjective(queue')
      /\ cur' \in Clients /\ cur' \in F!ToSet(queue) /\ cur' \notin F!ToSet(queue')
      /\ read \subseteq Clients /\ F!ToSet(queue') \subseteq F!ToSet(queue)
      /\ F!ToSet(queue) \subseteq {cur'} \cup read \cup F!ToSet(queue')
  BY <1>1, <1>2, <1>3, FTaken
<1>5. swallowed' = swallowed \cup read
  BY <1>1
<1> HIDE DEF read
<1>6. F!TypeOK'
  <2>1. {killed', swallowed', lost'} \subseteq SUBSET Clients
    BY <1>2, <1>3, <1>4, <1>5 DEF FifoInv, F!TypeOK
  <2>2. {merged', dummy'} \subseteq BOOLEAN
    <3>1. (n > 1) \in BOOLEAN
      OBVIOUS
    <3>2. merged' \in BOOLEAN
      BY <1>1, <3>1, Zenon
    <3>3. dummy \in BOOLEAN
      BY Zenon DEF FifoInv, F!TypeOK
    <3> QED
      BY <1>2, <3>2, <3>3, Zenon
  <2>3. /\ spc' \in {"start", "openread", "read", "openclient", "answer", "overrun", "dead"}
        /\ cur' # Nobody <=> spc' \in {"openclient", "answer"}
        /\ cur' \in Clients \cup {Nobody}
    BY <1>2, <1>4 DEF F!FifoAssumption
  <2> QED
    BY <1>2, <1>4, <2>1, <2>2, <2>3, Zenon DEF FifoInv, F!TypeOK
<1>7. InHand'
  BY <1>2, <1>4 DEF FifoInv, InHand
<1>8. Accounted'
  <2>1. cur = Nobody
    BY <1>2 DEF FifoInv, F!TypeOK
  <2> QED
    BY <1>2, <1>4, <1>5, <2>1 DEF FifoInv, Accounted, F!FifoAssumption
<1> QED
  BY <1>6, <1>7, <1>8 DEF FifoInv

LEMMA FServer ==
    ASSUME F!FifoAssumption, FifoInv,
           F!MakeServFifo \/ F!OpenRead \/ F!Overfill \/ F!OpenClient \/ F!Answer \/ F!Restart
    PROVE  FifoInv'
<1>1. UNCHANGED <<queue, deaths, merged, killed, swallowed, lost>>
  BY DEF F!MakeServFifo, F!OpenRead, F!Overfill, F!OpenClient, F!Answer, F!Restart, F!fifoVars
<1>2. /\ cpc \in [Clients -> {"start", "open", "write", "openown", "reading", "failed", "done"}]
      /\ reply \in [Clients -> {"none", "file", "error"}]
      /\ cur # Nobody <=> spc \in {"openclient", "answer"}
      /\ cur \in Clients \cup {Nobody}
  BY DEF FifoInv, F!TypeOK
<1>3. \/ /\ spc \in {"start", "openread", "dead"} /\ spc' \in {"openread", "read"}
         /\ UNCHANGED <<cur, cpc, reply>>
      \/ spc = "read" /\ spc' = "overrun" /\ UNCHANGED <<cur, cpc, reply>>
      \/ /\ spc = "openclient" /\ spc' = "answer" /\ UNCHANGED <<cur, reply>>
         /\ cpc' = [cpc EXCEPT ![cur] = "reading"]
      \/ /\ spc = "answer" /\ spc' = "read" /\ cur' = Nobody /\ UNCHANGED cpc
         /\ \E r \in {"file", "error"} : reply' = [reply EXCEPT ![cur] = r]
  BY DEF F!MakeServFifo, F!OpenRead, F!Overfill, F!OpenClient, F!Answer, F!Answers, F!Closed, F!Restart, F!fifoVars
<1>4. {servfifo', dummy'} \subseteq BOOLEAN
  <2>1. {servfifo, dummy} \subseteq BOOLEAN
    BY Zenon DEF FifoInv, F!TypeOK
  <2> QED
    BY <2>1, Zenon DEF F!MakeServFifo, F!OpenRead, F!Overfill, F!OpenClient, F!Answer, F!Restart,
                       F!fifoVars, F!HoldsDummy
<1>5. /\ spc' \in {"start", "openread", "read", "openclient", "answer", "overrun", "dead"}
      /\ cur' # Nobody <=> spc' \in {"openclient", "answer"}
      /\ cur' \in Clients \cup {Nobody}
      /\ cpc' \in [Clients -> {"start", "open", "write", "openown", "reading", "failed", "done"}]
      /\ reply' \in [Clients -> {"none", "file", "error"}]
  BY <1>2, <1>3
<1>6. F!TypeOK'
  <2>1. servfifo' \in BOOLEAN /\ {merged', dummy'} \subseteq BOOLEAN
    BY <1>1, <1>4, Zenon DEF FifoInv, F!TypeOK
  <2> QED
    BY <1>1, <1>5, <2>1, Zenon DEF FifoInv, F!TypeOK
<1>7. InHand'
  <2>1. F!ToSet(queue) \subseteq Clients
    BY DEF FifoInv, F!TypeOK, F!ToSet
  <2> QED
    BY <1>1, <1>2, <1>3, <2>1 DEF FifoInv, InHand, F!FifoAssumption
<1>8. Accounted'
  BY <1>1, <1>2, <1>3 DEF FifoInv, Accounted, InHand
<1> QED
  BY <1>6, <1>7, <1>8 DEF FifoInv

LEMMA FGone ==
    ASSUME F!FifoAssumption, FifoInv, F!ServerGone, deaths' \in 0 .. MaxDeaths
    PROVE  FifoInv'
<1>1. /\ UNCHANGED <<servfifo, merged, cpc, reply, killed, swallowed>>
      /\ spc' = "dead" /\ cur' = Nobody /\ dummy' = FALSE
      /\ lost \subseteq lost' /\ (cur # Nobody => cur \in lost')
      /\ \/ queue' = queue /\ lost' \subseteq lost \cup ({cur} \ {Nobody})
         \/ queue' = << >> /\ lost' = lost \cup F!ToSet(queue) \cup ({cur} \ {Nobody})
  BY Zenon DEF F!ServerGone
<1>2. /\ queue \in Seq(Clients) /\ F!IsInjective(queue) /\ lost \subseteq Clients
      /\ F!ToSet(queue) \subseteq Clients /\ cur \in Clients \cup {Nobody}
  BY DEF FifoInv, F!TypeOK, F!ToSet
<1>3. F!ToSet(<< >>) = {} /\ << >> \in Seq(Clients) /\ F!IsInjective(<< >>)
  BY DEF F!ToSet, F!IsInjective
<1>4. /\ queue' \in Seq(Clients) /\ F!IsInjective(queue') /\ lost' \subseteq Clients
      /\ F!ToSet(queue') \subseteq F!ToSet(queue)
      /\ F!ToSet(queue) \subseteq F!ToSet(queue') \cup lost'
  BY <1>1, <1>2, <1>3
<1>5. F!TypeOK'
  <2>1. {killed', swallowed', lost'} \subseteq SUBSET Clients
    BY <1>1, <1>4 DEF FifoInv, F!TypeOK
  <2>2. {merged', dummy'} \subseteq BOOLEAN
    BY <1>1, Zenon DEF FifoInv, F!TypeOK
  <2>3. /\ spc' \in {"start", "openread", "read", "openclient", "answer", "overrun", "dead"}
        /\ cur' # Nobody <=> spc' \in {"openclient", "answer"}
        /\ cur' \in Clients \cup {Nobody}
    BY <1>1
  <2> QED
    BY <1>1, <1>4, <2>1, <2>2, <2>3, Zenon DEF FifoInv, F!TypeOK
<1>6. InHand'
  <2>1. Nobody \notin Clients
    BY DEF F!FifoAssumption
  <2> QED
    BY <1>1, <1>2, <1>4, <2>1 DEF FifoInv, InHand
<1>7. Accounted'
  BY <1>1, <1>4 DEF FifoInv, Accounted, F!FifoAssumption
<1> QED
  BY <1>5, <1>6, <1>7 DEF FifoInv

LEMMA FStep == ASSUME F!FifoAssumption PROVE FifoInv /\ [F!Next]_F!vars => FifoInv'
<1> SUFFICES ASSUME FifoInv, [F!Next]_F!vars PROVE FifoInv'
  OBVIOUS
<1>1. deaths \in 0 .. MaxDeaths /\ MaxDeaths \in Nat
  BY DEF FifoInv, F!TypeOK, F!FifoAssumption
<1>2. CASE UNCHANGED F!vars
  <2>1. UNCHANGED <<servfifo, queue, spc, cur, merged, dummy, deaths, cpc, reply, killed,
                    swallowed, lost>>
    BY <1>2 DEF F!vars, F!fifoVars, F!serverVars
  <2>2. F!TypeOK'
    BY <2>1, Zenon DEF FifoInv, F!TypeOK
  <2>3. InHand' /\ Accounted'
    BY <2>1 DEF FifoInv, InHand, Accounted
  <2> QED
    BY <2>2, <2>3 DEF FifoInv
<1>3. CASE F!ServerDies
  BY <1>1, <1>3, FGone DEF F!ServerDies
<1>4. CASE F!ServerKilled
  <2>1. F!ServerGone /\ deaths' \in 0 .. MaxDeaths
    BY <1>1, <1>4 DEF F!ServerKilled
  <2> QED
    BY <2>1, FGone
<1>5. CASE F!Next /\ ~F!ServerDies /\ ~F!ServerKilled
  BY <1>5, FClientStep, FKill, FRead, FServer DEF F!Next, F!Server
<1> QED
  BY <1>2, <1>3, <1>4, <1>5

(* Who waits for an answer has its request in the FIFO or in the server's  *)
(* hands, or waits in vain for one of the three reasons there are.         *)
THEOREM NobodyForgotten == ASSUME F!FifoAssumption PROVE F!Spec => []F!WaitingAccountedFor
<1>1. FifoInv => F!WaitingAccountedFor
  BY DEF FifoInv, Accounted, F!WaitingAccountedFor
<1> QED
  BY <1>1, FInit, FStep, PTL DEF F!Spec

(* Who can take a step: a FIFO opens when it is open at the other end, and *)
(* is read when there is a request or no writer is left.                   *)
FServerRuns == \/ spc \in {"start", "answer"} \/ F!AtEof
               \/ spc = "openread" /\ F!Writing # {}
               \/ spc = "read" /\ queue # << >>
               \/ spc = "openclient" /\ cpc[cur] = "openown" /\ cur \notin killed
FClientRuns(c) == \/ cpc[c] \in {"start", "write"}
                  \/ cpc[c] = "open" /\ (~servfifo \/ F!HasReader)
                  \/ cpc[c] = "reading" /\ cur # c

OnlyDeathStops == \A c \in Clients \ killed :
    \/ cpc[c] \in {"failed", "done"} \/ FClientRuns(c) \/ FServerRuns
    \/ c \in swallowed \cup lost
    \/ spc \in {"dead", "overrun"} \/ (spc = "openclient" /\ cur \in killed)

(* Client and server, each opening a FIFO that the other has to open, wait *)
(* for each other only if one has died: a client that cannot go on, and    *)
(* whose request is neither behind another one nor lost, has a server that *)
(* can go on, is down or has overrun its buffer, or has opened the FIFO of *)
(* a client that was killed.                                               *)
THEOREM OpensMeet == ASSUME F!FifoAssumption PROVE F!Spec => []OnlyDeathStops
<1>1. ASSUME FifoInv, NEW c \in Clients \ killed, cpc[c] \notin {"failed", "done"},
             ~FClientRuns(c), ~FServerRuns, c \notin swallowed \cup lost,
             spc \notin {"dead", "overrun"}
      PROVE  spc = "openclient" /\ cur \in killed
  <2>1. /\ spc \in {"start", "openread", "read", "openclient", "answer", "overrun", "dead"}
        /\ cpc[c] \in {"start", "open", "write", "openown", "reading", "failed", "done"}
        /\ cur \in Clients \cup {Nobody}
        /\ cur # Nobody <=> spc \in {"openclient", "answer"}
        /\ queue \in Seq(Clients)
    BY <1>1, Zenon DEF FifoInv, F!TypeOK
  <2>2. F!HasReader
    BY <1>1, <2>1 DEF F!HasReader, FServerRuns
  <2>3. cpc[c] = "openown"
    BY <1>1, <2>1, <2>2 DEF FClientRuns, FServerRuns, FifoInv, InHand
  <2>4. c \in F!ToSet(queue) \/ c = cur
    BY <1>1, <2>3 DEF FifoInv, Accounted
  <2>5. spc # "openread"
    BY <1>1, <2>3 DEF FServerRuns, F!Writing
  <2>6. spc # "read"
    <3>1. ASSUME spc = "read" PROVE FALSE
      <4>1. c \in F!ToSet(queue)
        BY <2>1, <2>4, <3>1, <1>1
      <4>2. queue # << >>
        BY <4>1 DEF F!ToSet
      <4> QED
        BY <1>1, <3>1, <4>2 DEF FServerRuns
    <3> QED
      BY <3>1
  <2> QED
    BY <1>1, <2>1, <2>5, <2>6 DEF FServerRuns, FifoInv, InHand
<1>2. FifoInv => OnlyDeathStops
  BY <1>1 DEF OnlyDeathStops
<1> QED
  BY <1>2, FInit, FStep, PTL DEF F!Spec

----------------------------------------------------------------------------
(* EchoFork.                                                               *)
CONSTANTS MaxLines, LineLen, None

VARIABLES ppc, connfd, held, handler, child, backlog, unread, rst, cli, line

E == INSTANCE EchoFork

(* A connection is in the backlog, then the parent's, then a child's, or   *)
(* the parent has gone; a child ends by itself only after its client has   *)
(* left, and there are no more bytes than the lines sent had.              *)
Served(c) == /\ c \in E!ToSet(backlog) => cli[c] \notin {"connect", "refused"} /\ child[c] = "none"
             /\ cli[c] \in {"connect", "refused"} => child[c] = "none" /\ connfd # c
             /\ cli[c] \notin {"connect", "refused"} /\ child[c] = "none" =>
                   c \in E!ToSet(backlog) \/ c \in held \/ ppc = "gone"
             /\ c \in rst => E!Left(c)
             /\ child[c] \in {"zombie", "reaped"} => E!Left(c) \/ c \in killed
             /\ cli[c] = "cut" => c \in killed \/ (child[c] = "none" /\ ppc = "gone")
Echoed(c) == /\ child[c] # "write" => buff[c] = 0
             /\ unread[c] + buff[c] + toClient[c] <= line[c] * LineLen

EchoInv == /\ E!TypeOK
           /\ ppc = "fork" => connfd \notin E!ToSet(backlog) /\ child[connfd] = "none"
           /\ ppc = "close" => child[connfd] # "none"
           /\ \A c \in Clients : Served(c)
           /\ \A c \in Clients : Echoed(c)

LEMMA ETimes == ASSUME NEW n \in Nat, NEW l \in Nat, NEW m \in Nat, n <= m
                PROVE  n * l \in Nat /\ (n + 1) * l = n * l + l /\ n * l <= m * l
<1>1. PICK k \in Nat : m = n + k
  <2>1. m - n \in Nat /\ m = n + (m - n)
    OBVIOUS
  <2> QED
    BY <2>1
<1>2. n * l \in Nat /\ k * l \in Nat
  OBVIOUS
<1>3. (n + k) * l = n * l + k * l
  OBVIOUS
<1> QED
  BY <1>1, <1>2, <1>3

LEMMA EConstants ==
    ASSUME E!EchoAssumption
    PROVE  MaxLines \in Nat /\ LineLen \in Nat /\ LineLen > 0 /\ None \notin Clients
BY DEF E!EchoAssumption

LEMMA ENow ==
    ASSUME E!EchoAssumption, EchoInv, NEW c \in Clients
    PROVE  /\ buff[c] \in Nat /\ unread[c] \in Nat /\ toClient[c] \in Nat /\ line[c] \in Nat
           /\ line[c] <= MaxLines /\ line[c] * LineLen \in Nat /\ MaxLines * LineLen \in Nat
<1>1. MaxLines \in Nat /\ LineLen \in Nat
  BY EConstants
<1>2. line[c] \in 0 .. MaxLines /\ MaxLines * LineLen \in Nat
  BY <1>1, ETimes DEF EchoInv, E!TypeOK
<1>3. line[c] * LineLen \in Nat
  BY <1>1, <1>2, ETimes
<1>4. buff[c] \in E!Bytes /\ unread[c] \in E!Bytes /\ toClient[c] \in E!Bytes
  BY DEF EchoInv, E!TypeOK
<1> QED
  BY <1>1, <1>2, <1>3, <1>4 DEF E!Bytes

LEMMA EInit == ASSUME E!EchoAssumption PROVE E!Init => EchoInv
<1> SUFFICES ASSUME E!Init PROVE EchoInv
  OBVIOUS
<1>1. E!ToSet(backlog) = {} /\ backlog \in Seq(Clients) /\ E!IsInjective(backlog)
  BY DEF E!Init, E!ToSet, E!IsInjective
<1>2. MaxLines \in Nat /\ LineLen \in Nat /\ 0 \in 0 .. MaxLines /\ 0 \in E!Bytes
  <2>1. MaxLines \in Nat /\ LineLen \in Nat
    BY EConstants
  <2>2. MaxLines * LineLen \in Nat
    BY <2>1, ETimes
  <2> QED
    BY <2>1, <2>2 DEF E!Bytes
<1>3. E!TypeOK
  <2>1. {handler, pending} \subseteq BOOLEAN
    BY Zenon DEF E!Init
  <2>2. /\ {buff, unread, toClient} \subseteq [Clients -> E!Bytes]
        /\ line \in [Clients -> 0 .. MaxLines]
    BY <1>2 DEF E!Init
  <2>3. /\ ppc \in {"accept", "fork", "close", "gone"}
        /\ connfd \in Clients \cup {None} /\ held \subseteq {connfd} \ {None}
        /\ (ppc = "accept" <=> connfd = None)
        /\ child \in [Clients -> {"none", "forked", "read", "write", "zombie", "reaped"}]
        /\ {killed, rst} \subseteq SUBSET Clients
        /\ cli \in [Clients -> {"connect", "refused", "gets", "read", "done", "cut"}]
    BY DEF E!Init
  <2> QED
    BY <1>1, <2>1, <2>2, <2>3, Zenon DEF E!TypeOK
<1>4. ASSUME NEW c \in Clients PROVE Served(c) /\ Echoed(c)
  BY <1>1, <1>2, ETimes DEF E!Init, Served, Echoed
<1> QED
  BY <1>3, <1>4 DEF EchoInv, E!Init

(* The bytes on a connection stay in their bounds.                         *)
LEMMA EBytes ==
    ASSUME E!EchoAssumption, NEW u \in Nat, NEW b \in Nat, NEW t \in Nat,
           NEW n \in 0 .. MaxLines, u + b + t <= n * LineLen
    PROVE  u \in E!Bytes /\ b \in E!Bytes /\ t \in E!Bytes
<1>1. n * LineLen <= MaxLines * LineLen /\ n * LineLen \in Nat /\ MaxLines * LineLen \in Nat
  <2>1. MaxLines \in Nat /\ LineLen \in Nat /\ n \in Nat /\ n <= MaxLines
    BY EConstants
  <2> QED
    BY <2>1, ETimes
<1> QED
  BY <1>1 DEF E!Bytes

LEMMA ESame == ASSUME NEW s PROVE /\ E!ToSet(s) = F!ToSet(s)
                                  /\ E!IsInjective(s) <=> F!IsInjective(s)
BY DEF E!ToSet, F!ToSet, E!IsInjective, F!IsInjective

(* A step of a client that concerns its own connection only.               *)
OwnConnection(c) ==
    /\ unread' = [unread EXCEPT ![c] = unread'[c]] /\ unread'[c] \in Nat
    /\ toClient' = [toClient EXCEPT ![c] = toClient'[c]] /\ toClient'[c] \in Nat
    /\ buff' = [buff EXCEPT ![c] = buff'[c]] /\ buff'[c] \in Nat
    /\ line' = [line EXCEPT ![c] = line'[c]] /\ line'[c] \in 0 .. MaxLines
    /\ unread'[c] + buff'[c] + toClient'[c] <= line'[c] * LineLen

LEMMA EOwn ==
    ASSUME E!EchoAssumption, EchoInv, NEW c \in Clients, OwnConnection(c)
    PROVE  /\ {unread', buff', toClient'} \subseteq [Clients -> E!Bytes]
           /\ line' \in [Clients -> 0 .. MaxLines]
           /\ \A d \in Clients \ {c} : (child'[d] = child[d] => Echoed(d)')
           /\ (child'[c] # "write" => buff'[c] = 0) => Echoed(c)'
<1>1. /\ line \in [Clients -> 0 .. MaxLines]
      /\ buff \in [Clients -> E!Bytes] /\ unread \in [Clients -> E!Bytes]
      /\ toClient \in [Clients -> E!Bytes]
  BY DEF EchoInv, E!TypeOK
<1>2. PICK u \in Nat, b \in Nat, t \in Nat, n \in 0 .. MaxLines :
         /\ unread' = [unread EXCEPT ![c] = u] /\ buff' = [buff EXCEPT ![c] = b]
         /\ toClient' = [toClient EXCEPT ![c] = t] /\ line' = [line EXCEPT ![c] = n]
         /\ u + b + t <= n * LineLen
  BY Zenon DEF OwnConnection
<1>3. u \in E!Bytes /\ b \in E!Bytes /\ t \in E!Bytes
  BY <1>2, EBytes
<1>4. \A d \in Clients : /\ unread'[d] = IF d = c THEN u ELSE unread[d]
                         /\ buff'[d] = IF d = c THEN b ELSE buff[d]
                         /\ toClient'[d] = IF d = c THEN t ELSE toClient[d]
                         /\ line'[d] = IF d = c THEN n ELSE line[d]
  BY <1>1, <1>2
<1>5. {unread', buff', toClient'} \subseteq [Clients -> E!Bytes]
  <2>1. unread' \in [Clients -> E!Bytes]
    BY <1>1, <1>2, <1>3
  <2>2. buff' \in [Clients -> E!Bytes]
    BY <1>1, <1>2, <1>3
  <2>3. toClient' \in [Clients -> E!Bytes]
    BY <1>1, <1>2, <1>3
  <2> QED
    BY <2>1, <2>2, <2>3
<1>6. line' \in [Clients -> 0 .. MaxLines]
  BY <1>1, <1>2
<1>7. ASSUME NEW d \in Clients \ {c}, child'[d] = child[d] PROVE Echoed(d)'
  BY <1>4, <1>7 DEF EchoInv, Echoed
<1>8. ASSUME child'[c] # "write" => buff'[c] = 0 PROVE Echoed(c)'
  BY <1>2, <1>4, <1>8 DEF Echoed
<1> QED
  BY <1>5, <1>6, <1>7, <1>8

LEMMA EClient ==
    ASSUME E!EchoAssumption, EchoInv, NEW c \in Clients, OwnConnection(c),
           UNCHANGED <<ppc, connfd, held, handler, child, buff, killed, pending>>,
           NEW to \in {"gets", "read", "done", "cut", "refused"},
           cli' = [cli EXCEPT ![c] = to], ~E!Left(c), cli[c] # "refused",
           to = "cut" => c \in killed \/ (child[c] = "none" /\ ppc = "gone"),
           backlog' \in Seq(Clients), E!IsInjective(backlog'),
           \/ E!ToSet(backlog') = E!ToSet(backlog) /\ cli[c] # "connect" /\ to # "refused"
           \/ E!ToSet(backlog') = E!ToSet(backlog) /\ cli[c] = "connect" /\ to = "refused"
           \/ E!ToSet(backlog') = E!ToSet(backlog) \cup {c} /\ cli[c] = "connect" /\ to = "gets",
           rst' = rst \/ (rst' = rst \cup {c} /\ to = "done")
    PROVE  EchoInv'
<1>1. /\ cli \in [Clients -> {"connect", "refused", "gets", "read", "done", "cut"}]
      /\ rst \subseteq Clients /\ killed \subseteq Clients
  BY DEF EchoInv, E!TypeOK
<1>3. \A d \in Clients : cli'[d] = IF d = c THEN to ELSE cli[d]
  BY <1>1
<1>4. E!TypeOK'
  <2>1. /\ cli' \in [Clients -> {"connect", "refused", "gets", "read", "done", "cut"}]
        /\ {killed', rst'} \subseteq SUBSET Clients
    BY <1>1
  <2> QED
    BY <2>1, EOwn, Zenon DEF EchoInv, E!TypeOK, E!Bytes
<1>5. ASSUME NEW d \in Clients PROVE Served(d)'
  <2>1. Served(d) /\ Served(c)
    BY DEF EchoInv
  <2>2. CASE d = c
    BY <1>3, <2>1, <2>2 DEF Served, E!Left
  <2>3. CASE d # c
    BY <1>3, <2>1, <2>3 DEF Served, E!Left
  <2> QED
    BY <2>2, <2>3
<1>6. ASSUME NEW d \in Clients PROVE Echoed(d)'
  <2>1. child'[c] # "write" => buff'[c] = 0
    BY DEF EchoInv, Echoed
  <2> QED
    BY <2>1, EOwn
<1>7. /\ ppc' = "fork" => connfd' \notin E!ToSet(backlog') /\ child'[connfd'] = "none"
      /\ ppc' = "close" => child'[connfd'] # "none"
  <2>1. ppc = "fork" => connfd # c \/ cli[c] # "connect"
    BY DEF EchoInv, Served
  <2> QED
    BY <2>1 DEF EchoInv
<1> QED
  BY <1>4, <1>5, <1>6, <1>7 DEF EchoInv

(* Nothing moves on the connection.                                        *)
LEMMA EStill ==
    ASSUME E!EchoAssumption, EchoInv, NEW c \in Clients,
           UNCHANGED <<unread, toClient, buff, line>>
    PROVE  OwnConnection(c)
<1>1. /\ unread = [unread EXCEPT ![c] = unread[c]] /\ buff = [buff EXCEPT ![c] = buff[c]]
      /\ toClient = [toClient EXCEPT ![c] = toClient[c]]
      /\ line = [line EXCEPT ![c] = line[c]] /\ line[c] \in 0 .. MaxLines
  BY DEF EchoInv, E!TypeOK
<1>2. unread[c] \in Nat /\ buff[c] \in Nat /\ toClient[c] \in Nat
  BY ENow
<1>3. unread[c] + buff[c] + toClient[c] <= line[c] * LineLen
  BY DEF EchoInv, Echoed
<1> QED
  BY <1>1, <1>2, <1>3, Zenon DEF OwnConnection

LEMMA EConnect ==
    ASSUME E!EchoAssumption, EchoInv, NEW c \in Clients, E!Connect(c)
    PROVE  EchoInv'
<1>1. /\ UNCHANGED <<ppc, connfd, held, handler, child, buff, killed, pending>>
      /\ UNCHANGED <<unread, toClient, rst, line>> /\ cli[c] = "connect"
      /\ cli' = [cli EXCEPT ![c] = IF E!Listening THEN "gets" ELSE "refused"]
      /\ backlog' = IF E!Listening THEN Append(backlog, c) ELSE backlog
  BY DEF E!Connect, E!CliStep, E!parentVars, E!childVars, E!tcpVars
<1>2. backlog \in Seq(Clients) /\ E!IsInjective(backlog)
  BY DEF EchoInv, E!TypeOK
<1>3. OwnConnection(c)
  BY <1>1, EStill
<1>4. c \notin E!ToSet(backlog) /\ ~E!Left(c)
  BY <1>1 DEF EchoInv, Served, E!Left
<1>5. CASE E!Listening
  <2>1. /\ backlog' \in Seq(Clients) /\ E!IsInjective(backlog')
        /\ E!ToSet(backlog') = E!ToSet(backlog) \cup {c}
    BY <1>1, <1>2, <1>4, <1>5, ESame, Appended
  <2>2. cli' = [cli EXCEPT ![c] = "gets"]
    BY <1>1, <1>5
  <2> QED
    BY <1>1, <1>3, <1>4, <2>1, <2>2, EClient
<1>6. CASE ~E!Listening
  <2>1. /\ backlog' \in Seq(Clients) /\ E!IsInjective(backlog')
        /\ E!ToSet(backlog') = E!ToSet(backlog)
    BY <1>1, <1>2, <1>6
  <2>2. cli' = [cli EXCEPT ![c] = "refused"]
    BY <1>1, <1>6
  <2> QED
    BY <1>1, <1>3, <1>4, <2>1, <2>2, EClient
<1> QED
  BY <1>5, <1>6

LEMMA EClientStep ==
    ASSUME E!EchoAssumption, EchoInv, NEW c \in Clients,
           E!SendLine(c) \/ E!ReadReply(c) \/ E!Quit(c) \/ E!Cut(c)
    PROVE  EchoInv'
<1>1. /\ UNCHANGED <<ppc, connfd, held, handler, child, buff, killed, pending, backlog>>
      /\ cli[c] \in {"gets", "read"}
  BY DEF E!SendLine, E!ReadReply, E!Quit, E!Cut, E!CliStep, E!parentVars, E!childVars
<1>2. /\ unread \in [Clients -> E!Bytes] /\ toClient \in [Clients -> E!Bytes]
      /\ buff = [buff EXCEPT ![c] = buff[c]] /\ line \in [Clients -> 0 .. MaxLines]
      /\ unread = [unread EXCEPT ![c] = unread[c]]
      /\ toClient = [toClient EXCEPT ![c] = toClient[c]]
      /\ line = [line EXCEPT ![c] = line[c]] /\ line[c] \in 0 .. MaxLines
  BY DEF EchoInv, E!TypeOK
<1>3. /\ unread[c] \in Nat /\ toClient[c] \in Nat /\ buff[c] \in Nat
      /\ unread[c] + buff[c] + toClient[c] <= line[c] * LineLen
  BY ENow DEF EchoInv, Echoed
<1>4. /\ ~E!Left(c) /\ cli[c] # "connect" /\ cli[c] # "refused"
      /\ backlog' \in Seq(Clients) /\ E!IsInjective(backlog')
      /\ E!ToSet(backlog') = E!ToSet(backlog)
  BY <1>1 DEF E!Left, EchoInv, E!TypeOK
<1>5. CASE E!SendLine(c)
  <2>1. /\ UNCHANGED <<toClient, rst>> /\ cli' = [cli EXCEPT ![c] = "read"]
        /\ line' = [line EXCEPT ![c] = line[c] + 1] /\ line[c] < MaxLines
        /\ unread' = [unread EXCEPT ![c] = unread[c] + LineLen]
    BY <1>5 DEF E!SendLine, E!CliStep
  <2>2. /\ MaxLines \in Nat /\ LineLen \in Nat /\ line[c] \in Nat
        /\ line[c] * LineLen \in Nat
        /\ (line[c] + 1) * LineLen = line[c] * LineLen + LineLen
    <3>1. MaxLines \in Nat /\ LineLen \in Nat
      BY EConstants
    <3>2. line[c] \in Nat
      BY <1>2, <3>1
    <3> QED
      BY <3>1, <3>2, ETimes
  <2>3. /\ line[c] + 1 \in 0 .. MaxLines /\ unread[c] + LineLen \in Nat
        /\ unread[c] + LineLen + buff[c] + toClient[c] <= (line[c] + 1) * LineLen
    BY <1>3, <2>1, <2>2
  <2>4. unread'[c] = unread[c] + LineLen /\ line'[c] = line[c] + 1
    BY <1>2, <2>1
  <2>5. OwnConnection(c)
    BY <1>1, <1>2, <1>3, <2>1, <2>3, <2>4, Zenon DEF OwnConnection
  <2> QED
    BY <1>1, <1>4, <2>1, <2>5, EClient
<1>6. CASE E!ReadReply(c)
  <2>1. UNCHANGED <<unread, rst, line>> /\ cli' = [cli EXCEPT ![c] = "gets"]
    BY <1>6 DEF E!ReadReply, E!CliStep
  <2>2. PICK n \in 1 .. toClient[c] : toClient' = [toClient EXCEPT ![c] = toClient[c] - n]
    BY <1>6 DEF E!ReadReply
  <2>3. /\ toClient[c] - n \in Nat
        /\ unread[c] + buff[c] + (toClient[c] - n) <= line[c] * LineLen
    <3>1. n \in Nat /\ n <= toClient[c] /\ line[c] * LineLen \in Nat
      BY <1>3, ENow
    <3> QED
      BY <1>3, <3>1
  <2>4. toClient'[c] = toClient[c] - n
    BY <1>2, <2>2
  <2>5. OwnConnection(c)
    BY <1>1, <1>2, <1>3, <2>1, <2>2, <2>3, <2>4, Zenon DEF OwnConnection
  <2> QED
    BY <1>1, <1>4, <2>1, <2>5, EClient
<1>7. CASE E!Quit(c)
  <2>1. /\ UNCHANGED <<unread, toClient, line>> /\ cli' = [cli EXCEPT ![c] = "done"]
        /\ rst' = rst \/ rst' = rst \cup {c}
    BY <1>7 DEF E!Quit, E!CliStep
  <2>2. OwnConnection(c)
    BY <1>1, <2>1, EStill
  <2> QED
    BY <1>1, <1>4, <2>1, <2>2, EClient
<1>8. CASE E!Cut(c)
  <2>1. /\ UNCHANGED <<unread, toClient, line, rst>> /\ cli' = [cli EXCEPT ![c] = "cut"]
        /\ E!ServerClosed(c)
    BY <1>8 DEF E!Cut, E!CliStep, E!tcpVars
  <2>2. c \in killed \/ (child[c] = "none" /\ ppc = "gone")
    <3>1. Served(c) /\ child[c] \in {"none", "forked", "read", "write", "zombie", "reaped"}
      BY DEF EchoInv, E!TypeOK
    <3> QED
      BY <1>1, <2>1, <3>1 DEF Served, E!ServerClosed, E!Listening, E!Alive, E!Left
  <2>3. OwnConnection(c)
    BY <1>1, <2>1, EStill
  <2> QED
    BY <1>1, <1>4, <2>1, <2>2, <2>3, EClient
<1> QED
  BY <1>1, <1>5, <1>6, <1>7, <1>8

(* The parent.                                                             *)
LEMMA EAccept == ASSUME E!EchoAssumption, EchoInv, E!Accept PROVE EchoInv'
<1>1. /\ UNCHANGED <<handler, buff, killed, pending, unread, toClient, rst, cli, line, child>>
      /\ ppc = "accept" /\ ppc' = "fork" /\ backlog # << >> /\ connfd' = Head(backlog)
      /\ held' = held \cup {connfd'} /\ backlog' = Tail(backlog)
  BY DEF E!Accept, E!ParentStep, E!tcpVars, E!cliVars
<1>2. backlog \in Seq(Clients) /\ E!IsInjective(backlog) /\ connfd = None /\ held = {}
  BY <1>1 DEF EchoInv, E!TypeOK
<1>3. PICK h : h = Head(backlog)
  OBVIOUS
<1>4. /\ h \in Clients /\ backlog' \in Seq(Clients) /\ E!IsInjective(backlog')
      /\ E!ToSet(backlog) = {h} \cup E!ToSet(backlog') /\ h \notin E!ToSet(backlog')
  BY <1>1, <1>2, <1>3, ESame, Parted
<1>5. E!TypeOK'
  <2>1. /\ ppc' \in {"accept", "fork", "close", "gone"} /\ connfd' \in Clients \cup {None}
        /\ held' \subseteq {connfd'} \ {None} /\ ppc' # "accept" /\ connfd' # None
    BY <1>1, <1>2, <1>3, <1>4, EConstants
  <2> QED
    BY <1>1, <1>4, <2>1, Zenon DEF EchoInv, E!TypeOK, E!Bytes
<1>6. ASSUME NEW c \in Clients PROVE Served(c)' /\ Echoed(c)'
  BY <1>1, <1>2, <1>3, <1>4 DEF EchoInv, Served, Echoed, E!Left
<1>7. child'[h] = "none"
  BY <1>1, <1>4 DEF EchoInv, Served
<1> QED
  BY <1>1, <1>3, <1>4, <1>5, <1>6, <1>7 DEF EchoInv

LEMMA EParent ==
    ASSUME E!EchoAssumption, EchoInv, E!Fork \/ E!ForkFails \/ E!CloseConn
    PROVE  EchoInv'
<1>1. /\ UNCHANGED <<handler, buff, killed, pending, unread, toClient, rst, cli, line, backlog>>
      /\ connfd \in Clients \cup {None}
  BY DEF E!Fork, E!ForkFails, E!CloseConn, E!ParentStep, E!tcpVars, E!cliVars, EchoInv, E!TypeOK
<1>2. CASE E!Fork
  <2>1. /\ ppc = "fork" /\ ppc' = "close" /\ UNCHANGED <<connfd, held>>
        /\ child' = [child EXCEPT ![connfd] = "forked"] /\ connfd \in Clients
    BY <1>1, <1>2 DEF E!Fork, E!ParentStep, EchoInv, E!TypeOK
  <2>2. \A c \in Clients : child'[c] = IF c = connfd THEN "forked" ELSE child[c]
    BY <2>1 DEF EchoInv, E!TypeOK
  <2>3. E!TypeOK'
    <3>1. child' \in [Clients -> {"none", "forked", "read", "write", "zombie", "reaped"}]
      BY <2>1 DEF EchoInv, E!TypeOK
    <3>2. /\ ppc' \in {"accept", "fork", "close", "gone"} /\ ppc' # "accept"
          /\ connfd' # None
      BY <2>1, EConstants
    <3> QED
      BY <1>1, <2>1, <3>1, <3>2, Zenon DEF EchoInv, E!TypeOK, E!Bytes
  <2>4. ASSUME NEW c \in Clients PROVE Served(c)' /\ Echoed(c)'
    <3>1. /\ Served(c) /\ Echoed(c)
          /\ connfd \notin E!ToSet(backlog) /\ child[connfd] = "none"
      BY <2>1 DEF EchoInv
    <3> QED
      BY <1>1, <2>1, <2>2, <3>1 DEF Served, Echoed, E!Left
  <2>5. child'[connfd] # "none"
    BY <2>1, <2>2
  <2> QED
    BY <2>1, <2>3, <2>4, <2>5 DEF EchoInv
<1>3. CASE E!ForkFails \/ E!CloseConn
  <2>1. /\ ppc \in {"fork", "close"} /\ UNCHANGED child /\ held' = {}
        /\ \/ ppc' = "gone" /\ connfd' = connfd
           \/ ppc' = "accept" /\ connfd' = None /\ ppc = "close"
    BY <1>3 DEF E!ForkFails, E!CloseConn, E!Kept, E!ParentStep, EchoInv, E!TypeOK
  <2>3. E!TypeOK'
    <3>1. /\ ppc' \in {"accept", "fork", "close", "gone"} /\ connfd' \in Clients \cup {None}
          /\ held' \subseteq {connfd'} \ {None}
          /\ (ppc' = "accept" <=> connfd' = None) \/ ppc' = "gone"
      BY <1>1, <2>1
    <3> QED
      BY <1>1, <2>1, <3>1, Zenon DEF EchoInv, E!TypeOK, E!Bytes
  <2>4. ASSUME NEW c \in Clients PROVE Served(c)' /\ Echoed(c)'
    <3>1. /\ Served(c) /\ Echoed(c) /\ c # None /\ (c \in held => c = connfd)
          /\ ppc = "close" => child[connfd] # "none"
      BY EConstants DEF EchoInv, E!TypeOK
    <3> QED
      BY <1>1, <2>1, <3>1 DEF Served, Echoed, E!Left
  <2> QED
    BY <2>1, <2>3, <2>4 DEF EchoInv
<1> QED
  BY <1>2, <1>3

(* The children, each with its own connection, and their end.              *)
LEMMA EChild ==
    ASSUME E!EchoAssumption, EchoInv, NEW c \in Clients, OwnConnection(c),
           UNCHANGED <<ppc, connfd, held, backlog, cli, line>>,
           {handler', pending'} \subseteq BOOLEAN,
           child[c] # "none", NEW to \in {"read", "write", "zombie", "reaped"},
           child' = [child EXCEPT ![c] = to], to # "write" => buff'[c] = 0,
           killed \subseteq killed', killed' \subseteq Clients,
           to \in {"zombie", "reaped"} => E!Left(c) \/ c \in killed',
           rst' = rst \/ (rst' = rst \cup {c} /\ E!Left(c))
    PROVE  EchoInv'
<1>1. /\ child \in [Clients -> {"none", "forked", "read", "write", "zombie", "reaped"}]
      /\ rst \subseteq Clients
  BY DEF EchoInv, E!TypeOK
<1>3. \A d \in Clients : child'[d] = IF d = c THEN to ELSE child[d]
  BY <1>1
<1>4. E!TypeOK'
  <2>1. child' \in [Clients -> {"none", "forked", "read", "write", "zombie", "reaped"}]
    BY <1>1
  <2>2. {killed', rst'} \subseteq SUBSET Clients
    BY <1>1
  <2> QED
    BY <2>1, <2>2, EOwn, Zenon DEF EchoInv, E!TypeOK, E!Bytes
<1>5. ASSUME NEW d \in Clients PROVE Served(d)'
  <2>1. Served(d) /\ Served(c)
    BY DEF EchoInv
  <2>2. CASE d = c
    BY <1>3, <2>1, <2>2 DEF Served, E!Left
  <2>3. CASE d # c
    BY <1>3, <2>1, <2>3 DEF Served, E!Left
  <2> QED
    BY <2>2, <2>3
<1>6. ASSUME NEW d \in Clients PROVE Echoed(d)'
  BY <1>3, EOwn
<1>7. /\ ppc' = "fork" => connfd' \notin E!ToSet(backlog') /\ child'[connfd'] = "none"
      /\ ppc' = "close" => child'[connfd'] # "none"
  <2>1. ppc = "close" => connfd \in Clients
    BY DEF EchoInv, E!TypeOK
  <2>2. ppc = "fork" => connfd \in Clients /\ connfd # c
    BY DEF EchoInv, E!TypeOK
  <2> QED
    BY <1>3, <2>1, <2>2 DEF EchoInv
<1> QED
  BY <1>4, <1>5, <1>6, <1>7 DEF EchoInv

(* The child of a connection has nothing left to write.                    *)
LEMMA ENothing ==
    ASSUME E!EchoAssumption, EchoInv, NEW c \in Clients,
           UNCHANGED <<unread, toClient, line>>, buff' = [buff EXCEPT ![c] = 0]
    PROVE  OwnConnection(c) /\ buff'[c] = 0
<1>1. /\ unread = [unread EXCEPT ![c] = unread[c]]
      /\ toClient = [toClient EXCEPT ![c] = toClient[c]] /\ buff'[c] = 0
      /\ line = [line EXCEPT ![c] = line[c]] /\ line[c] \in 0 .. MaxLines
  BY DEF EchoInv, E!TypeOK
<1>2. unread[c] \in Nat /\ toClient[c] \in Nat /\ 0 \in Nat
  BY ENow
<1>3. unread[c] + 0 + toClient[c] <= line[c] * LineLen
  <2>1. unread[c] + buff[c] + toClient[c] <= line[c] * LineLen
    BY DEF EchoInv, Echoed
  <2> QED
    BY <2>1, ENow
<1> QED
  BY <1>1, <1>2, <1>3, Zenon DEF OwnConnection

LEMMA ESigChld == ASSUME E!EchoAssumption, EchoInv, E!SigChld PROVE EchoInv'
<1>1. CASE E!HandlerStarts \/ E!HandlerReturns
  <2>1. /\ UNCHANGED <<ppc, connfd, held, child, buff, killed, backlog, unread, toClient, rst>>
        /\ UNCHANGED <<cli, line>>
    BY <1>1 DEF E!HandlerStarts, E!HandlerReturns, E!childVars, E!tcpVars, E!cliVars
  <2>2. {handler', pending'} \subseteq BOOLEAN
    BY <1>1, Zenon DEF E!HandlerStarts, E!HandlerReturns, E!childVars, EchoInv, E!TypeOK
  <2>3. E!TypeOK'
    BY <2>1, <2>2, Zenon DEF EchoInv, E!TypeOK, E!Bytes
  <2> QED
    BY <2>1, <2>3 DEF EchoInv, Served, Echoed, E!Left
<1>2. CASE E!Reap
  <2>1. /\ UNCHANGED <<ppc, connfd, held, buff, killed, pending, backlog, unread, toClient, rst>>
        /\ UNCHANGED <<cli, line>> /\ handler' = TRUE
    BY <1>2 DEF E!Reap, E!GoesOn, E!tcpVars, E!cliVars
  <2>2. PICK c \in E!Zombies : child' = [child EXCEPT ![c] = "reaped"]
    BY <1>2 DEF E!Reap
  <2>3. c \in Clients /\ child[c] = "zombie"
    BY DEF E!Zombies
  <2>4. {handler', pending'} \subseteq BOOLEAN
    BY <2>1, Zenon DEF EchoInv, E!TypeOK
  <2>5. OwnConnection(c)
    BY <2>1, <2>3, EStill
  <2>6. /\ buff'[c] = 0 /\ (E!Left(c) \/ c \in killed')
        /\ killed \subseteq killed' /\ killed' \subseteq Clients
    BY <2>1, <2>3 DEF EchoInv, Echoed, Served, E!TypeOK
  <2> QED
    BY <2>1, <2>2, <2>3, <2>4, <2>5, <2>6, EChild
<1> QED
  BY <1>1, <1>2 DEF E!SigChld

LEMMA EChildStep ==
    ASSUME E!EchoAssumption, EchoInv, NEW c \in Clients,
           E!CloseListen(c) \/ E!ReadLine(c) \/ E!WriteBack(c)
    PROVE  EchoInv'
<1>1. UNCHANGED <<ppc, connfd, held, handler, pending, killed, backlog, cli, line>>
  BY DEF E!CloseListen, E!ReadLine, E!WriteBack, E!ChildStep, E!parentVars, E!cliVars
<1>2. {handler', pending'} \subseteq BOOLEAN
  BY <1>1, Zenon DEF EchoInv, E!TypeOK
<1>3. /\ unread = [unread EXCEPT ![c] = unread[c]]
      /\ toClient = [toClient EXCEPT ![c] = toClient[c]]
      /\ line = [line EXCEPT ![c] = line[c]] /\ line[c] \in 0 .. MaxLines
      /\ killed \subseteq killed' /\ killed' \subseteq Clients
  BY <1>1 DEF EchoInv, E!TypeOK
<1>4. /\ unread[c] \in Nat /\ buff[c] \in Nat /\ toClient[c] \in Nat
      /\ line[c] * LineLen \in Nat
      /\ unread[c] + buff[c] + toClient[c] <= line[c] * LineLen
  BY ENow DEF EchoInv, Echoed
<1>5. CASE E!CloseListen(c)
  <2>1. /\ UNCHANGED <<buff, unread, toClient, rst>> /\ child[c] = "forked"
        /\ child' = [child EXCEPT ![c] = "read"]
    BY <1>5 DEF E!CloseListen, E!ChildStep, E!tcpVars
  <2>2. OwnConnection(c) /\ buff'[c] = 0
    BY <1>1, <2>1, EStill DEF EchoInv, Echoed
  <2> QED
    BY <1>1, <1>2, <1>3, <2>1, <2>2, EChild
<1>6. CASE E!ReadLine(c)
  <2>1. /\ UNCHANGED <<toClient, rst>> /\ child[c] = "read"
        /\ child' = [child EXCEPT ![c] = "write"]
    BY <1>6 DEF E!ReadLine, E!ChildStep
  <2>2. PICK n \in 1 .. unread[c] : /\ unread' = [unread EXCEPT ![c] = unread[c] - n]
                                    /\ buff' = [buff EXCEPT ![c] = n]
    BY <1>6 DEF E!ReadLine
  <2>3. /\ n \in Nat /\ unread[c] - n \in Nat
        /\ (unread[c] - n) + n + toClient[c] <= line[c] * LineLen
    BY <1>4
  <2>4. unread'[c] = unread[c] - n /\ buff'[c] = n
    BY <2>2 DEF EchoInv, E!TypeOK
  <2>5. OwnConnection(c)
    BY <1>1, <1>3, <1>4, <2>1, <2>2, <2>3, <2>4, Zenon DEF OwnConnection
  <2> QED
    BY <1>1, <1>2, <1>3, <2>1, <2>5, EChild
<1>7. CASE E!WriteBack(c)
  <2>1. /\ UNCHANGED unread /\ child[c] = "write" /\ child' = [child EXCEPT ![c] = "read"]
        /\ buff' = [buff EXCEPT ![c] = 0]
        /\ toClient' = IF E!Left(c) THEN toClient
                       ELSE [toClient EXCEPT ![c] = toClient[c] + buff[c]]
        /\ rst' = IF E!Left(c) THEN rst \cup {c} ELSE rst
    BY <1>7 DEF E!WriteBack, E!ChildStep, E!AfterEcho
  <2>2. OwnConnection(c) /\ buff'[c] = 0
    <3>1. CASE E!Left(c)
      BY <1>1, <2>1, <3>1, ENothing
    <3>2. CASE ~E!Left(c)
      <4>1. /\ toClient' = [toClient EXCEPT ![c] = toClient[c] + buff[c]]
            /\ toClient'[c] = toClient[c] + buff[c] /\ buff'[c] = 0
        BY <2>1, <3>2 DEF EchoInv, E!TypeOK
      <4>2. /\ toClient[c] + buff[c] \in Nat /\ 0 \in Nat
            /\ unread[c] + 0 + (toClient[c] + buff[c]) <= line[c] * LineLen
        BY <1>4
      <4> QED
        BY <1>1, <1>3, <1>4, <2>1, <4>1, <4>2, Zenon DEF OwnConnection
    <3> QED
      BY <3>1, <3>2
  <2> QED
    BY <1>1, <1>2, <1>3, <2>1, <2>2, EChild
<1> QED
  BY <1>5, <1>6, <1>7

LEMMA EChildEnds ==
    ASSUME E!EchoAssumption, EchoInv, NEW c \in Clients, E!ChildEnds(c) \/ E!Kill(c)
    PROVE  EchoInv'
<1>1. /\ UNCHANGED <<ppc, connfd, held, handler, backlog, unread, toClient, rst, cli, line>>
      /\ pending' = (ppc # "gone") /\ buff' = [buff EXCEPT ![c] = 0]
  BY DEF E!ChildEnds, E!Kill, E!Ends, E!parentVars, E!tcpVars, E!cliVars
<1>2. PICK to \in {"zombie", "reaped"} : child' = [child EXCEPT ![c] = to]
  BY DEF E!ChildEnds, E!Kill, E!Ends
<1>3. {handler', pending'} \subseteq BOOLEAN
  BY <1>1, Zenon DEF EchoInv, E!TypeOK
<1>4. /\ child[c] # "none" /\ killed \subseteq killed' /\ killed' \subseteq Clients
      /\ E!Left(c) \/ c \in killed'
  <2>1. killed \subseteq Clients /\ Served(c)
    BY DEF EchoInv, E!TypeOK
  <2> QED
    BY <2>1 DEF E!ChildEnds, E!Kill, E!Alive, Served
<1>5. OwnConnection(c) /\ buff'[c] = 0
  BY <1>1, ENothing
<1> QED
  BY <1>1, <1>2, <1>3, <1>4, <1>5, EChild

LEMMA EStep == ASSUME E!EchoAssumption PROVE EchoInv /\ [E!Next]_E!vars => EchoInv'
<1> SUFFICES ASSUME EchoInv, [E!Next]_E!vars PROVE EchoInv'
  OBVIOUS
<1>1. CASE UNCHANGED E!vars
  <2>1. /\ UNCHANGED <<ppc, connfd, held, handler, pending, child, buff, killed, backlog>>
        /\ UNCHANGED <<unread, toClient, rst, cli, line>>
    BY <1>1 DEF E!vars, E!parentVars, E!childVars, E!tcpVars, E!cliVars
  <2>2. E!TypeOK'
    BY <2>1, Zenon DEF EchoInv, E!TypeOK, E!Bytes
  <2> QED
    BY <2>1, <2>2 DEF EchoInv, Served, Echoed, E!Left
<1>2. CASE E!Next
  <2>1. ASSUME NEW c \in Clients, E!Client(c) \/ E!Child(c) \/ E!Kill(c) PROVE EchoInv'
    BY <2>1, EConnect, EClientStep, EChildStep, EChildEnds DEF E!Client, E!Child
  <2>2. ASSUME E!Parent PROVE EchoInv'
    BY <2>2, EAccept, EParent DEF E!Parent
  <2> QED
    BY <1>2, <2>1, <2>2, ESigChld DEF E!Next
<1> QED
  BY <1>1, <1>2

(* A client is cut off only if its own child was killed or none was forked *)
(* for it; what became of other children and of the parent is no matter.   *)
THEOREM OnlyFailureCuts == ASSUME E!EchoAssumption PROVE E!Spec => []E!CutOnlyByFailure
<1>1. EchoInv => E!CutOnlyByFailure
  BY DEF EchoInv, Served, E!CutOnlyByFailure
<1> QED
  BY <1>1, EInit, EStep, PTL DEF E!Spec

(* What a client, its child and the parent (or sig_chld) can do next.      *)
EClientRuns(c) == \/ cli[c] \in {"connect", "gets"}
                  \/ cli[c] = "read" /\ (toClient[c] > 0 \/ E!ServerClosed(c))
EChildRuns(c) == \/ child[c] \in {"forked", "write"}
                 \/ child[c] = "read" /\ (c \in rst \/ unread[c] > 0 \/ E!Left(c))
EParentRuns == \/ ~handler /\ (ppc \in {"fork", "close"} \/ (ppc = "accept" /\ backlog # << >>))
               \/ ppc # "gone" /\ (handler \/ pending)

AllEnd == \/ EParentRuns \/ \E c \in Clients : EClientRuns(c) \/ EChildRuns(c)
          \/ \A c \in Clients : /\ cli[c] \in {"done", "cut", "refused"}
                                /\ child[c] = "none" \/ child[c] = "reaped"
                                   \/ (child[c] = "zombie" /\ ppc = "gone")

(* One SIGCHLD may stand for many children, but there is one, or sig_chld  *)
(* runs, while any is a zombie; and bytes are on their way to a client     *)
(* that reads, unless its child was killed over them.                      *)
Told(c) == child[c] = "zombie" => handler \/ pending \/ ppc = "gone"
Owed(c) == /\ cli[c] = "read" => c \in killed \/ unread[c] + buff[c] + toClient[c] > 0
           /\ c \in killed => child[c] \in {"zombie", "reaped"}
ParentGone == ppc = "gone" => held = {} /\ ~handler
Awaited == ParentGone /\ \A c \in Clients : Told(c) /\ Owed(c)

LEMMA EAwaitedInit == ASSUME E!EchoAssumption PROVE E!Init => Awaited
  BY DEF E!Init, Awaited, ParentGone, Told, Owed

LEMMA EAwaitedClient ==
    ASSUME E!EchoAssumption, EchoInv, Awaited, NEW c \in Clients, E!Client(c)
    PROVE  Awaited'
<1>1. /\ UNCHANGED <<ppc, connfd, held, handler, child, buff, killed, pending>>
      /\ \E to \in {"gets", "read", "refused", "done", "cut"} : cli' = [cli EXCEPT ![c] = to]
      /\ \A d \in Clients \ {c} : unread'[d] = unread[d] /\ toClient'[d] = toClient[d]
  BY DEF E!Client, E!Connect, E!SendLine, E!ReadReply, E!Quit, E!Cut, E!CliStep, E!parentVars,
     E!childVars, E!tcpVars, EchoInv, E!TypeOK
<1>2. /\ cli \in [Clients -> {"connect", "refused", "gets", "read", "done", "cut"}]
      /\ unread \in [Clients -> E!Bytes]
      /\ LineLen \in Nat /\ LineLen > 0 /\ unread[c] \in Nat /\ buff[c] \in Nat /\ toClient[c] \in Nat
  BY ENow, EConstants DEF EchoInv, E!TypeOK
<1>3. ASSUME cli'[c] = "read" PROVE unread'[c] + buff'[c] + toClient'[c] > 0
  <2>1. E!SendLine(c)
    BY <1>2, <1>3 DEF E!Client, E!Connect, E!SendLine, E!ReadReply, E!Quit, E!Cut, E!CliStep
  <2>2. unread'[c] = unread[c] + LineLen /\ toClient' = toClient
    BY <1>2, <2>1 DEF E!SendLine
  <2> QED
    BY <1>1, <1>2, <2>2
<1>4. ASSUME NEW d \in Clients PROVE Told(d)' /\ Owed(d)'
  <2>1. Told(d) /\ Owed(d) /\ (d # c => cli'[d] = cli[d])
    BY <1>1, <1>2 DEF Awaited
  <2>2. Told(d)'
    BY <1>1, <2>1, Zenon DEF Told
  <2>3. Owed(d)'
    BY <1>1, <1>3, <2>1 DEF Owed
  <2> QED
    BY <2>2, <2>3
<1>5. ParentGone'
  BY <1>1, Zenon DEF Awaited, ParentGone
<1> QED
  BY <1>4, <1>5 DEF Awaited

LEMMA EAwaitedChild ==
    ASSUME E!EchoAssumption, EchoInv, Awaited, NEW c \in Clients,
           E!CloseListen(c) \/ E!ReadLine(c) \/ E!WriteBack(c)
    PROVE  Awaited'
<1>1. /\ UNCHANGED <<ppc, connfd, held, handler, pending, killed, cli>>
      /\ child[c] \in {"forked", "read", "write"}
      /\ \E to \in {"read", "write"} : child' = [child EXCEPT ![c] = to]
  BY DEF E!CloseListen, E!ReadLine, E!WriteBack, E!ChildStep, E!parentVars, E!cliVars, E!AfterEcho
<1>2. /\ child \in [Clients -> {"none", "forked", "read", "write", "zombie", "reaped"}]
      /\ unread \in [Clients -> E!Bytes] /\ buff \in [Clients -> E!Bytes]
      /\ toClient \in [Clients -> E!Bytes]
      /\ unread[c] \in Nat /\ buff[c] \in Nat /\ toClient[c] \in Nat
  BY ENow DEF EchoInv, E!TypeOK
<1>3. ASSUME ~E!Left(c)
      PROVE  unread'[c] + buff'[c] + toClient'[c] = unread[c] + buff[c] + toClient[c]
  <2>1. CASE E!CloseListen(c)
    BY <2>1 DEF E!CloseListen, E!tcpVars
  <2>2. CASE E!ReadLine(c)
    <3>1. PICK n \in 1 .. unread[c] : /\ unread' = [unread EXCEPT ![c] = unread[c] - n]
                                      /\ buff' = [buff EXCEPT ![c] = n]
      BY <2>2 DEF E!ReadLine
    <3>2. child[c] = "read" /\ toClient' = toClient
      BY <2>2 DEF E!ReadLine, E!ChildStep
    <3>3. buff[c] = 0 /\ n \in Nat
      BY <1>2, <3>2 DEF EchoInv, Echoed
    <3>4. unread'[c] = unread[c] - n /\ buff'[c] = n
      BY <1>2, <3>1
    <3> QED
      BY <1>2, <3>2, <3>3, <3>4
  <2>3. CASE E!WriteBack(c)
    <3>1. unread' = unread /\ buff'[c] = 0 /\ toClient'[c] = toClient[c] + buff[c]
      BY <1>2, <1>3, <2>3 DEF E!WriteBack
    <3> QED
      BY <1>2, <3>1
  <2> QED
    BY <2>1, <2>2, <2>3
<1>4. ASSUME NEW d \in Clients PROVE Told(d)' /\ Owed(d)'
  <2>1. Told(d) /\ Owed(d) /\ child'[c] \in {"read", "write"}
    BY <1>1, <1>2 DEF Awaited
  <2>2. ASSUME d # c
        PROVE  /\ child'[d] = child[d] /\ unread'[d] = unread[d] /\ buff'[d] = buff[d]
               /\ toClient'[d] = toClient[d]
    BY <1>1, <1>2, <2>2 DEF E!CloseListen, E!ReadLine, E!WriteBack, E!tcpVars
  <2>3. Told(d)'
    <3>1. child'[d] = "zombie" => child[d] = "zombie"
      BY <2>1, <2>2
    <3> QED
      BY <1>1, <2>1, <3>1, Zenon DEF Told
  <2>4. Owed(d)'
    <3>1. CASE d = c
      BY <1>1, <1>3, <2>1, <3>1 DEF Owed, E!Left
    <3>2. CASE d # c
      BY <1>1, <2>1, <2>2, <3>2 DEF Owed
    <3> QED
      BY <3>1, <3>2
  <2> QED
    BY <2>3, <2>4
<1>5. ParentGone'
  BY <1>1, Zenon DEF Awaited, ParentGone
<1> QED
  BY <1>4, <1>5 DEF Awaited

LEMMA EAwaitedEnds ==
    ASSUME E!EchoAssumption, EchoInv, Awaited, NEW c \in Clients, E!ChildEnds(c) \/ E!Kill(c)
    PROVE  Awaited'
<1>1. /\ UNCHANGED <<ppc, connfd, held, handler, unread, toClient, cli>>
      /\ pending' = (ppc # "gone") /\ buff' = [buff EXCEPT ![c] = 0]
      /\ child' = [child EXCEPT ![c] = IF ppc = "gone" THEN "reaped" ELSE "zombie"]
      /\ killed' = killed \/ killed' = killed \cup {c}
  BY DEF E!ChildEnds, E!Kill, E!Ends, E!parentVars, E!tcpVars, E!cliVars
<1>2. /\ child \in [Clients -> {"none", "forked", "read", "write", "zombie", "reaped"}]
      /\ buff \in [Clients -> E!Bytes]
  BY DEF EchoInv, E!TypeOK
<1>3. cli[c] = "read" => c \in killed'
  BY DEF E!ChildEnds, E!Kill, E!Left, EchoInv, Served
<1>4. ASSUME NEW d \in Clients PROVE Told(d)' /\ Owed(d)'
  <2>1. /\ Told(d) /\ Owed(d) /\ child'[c] \in {"zombie", "reaped"}
        /\ d # c => child'[d] = child[d] /\ buff'[d] = buff[d]
    BY <1>1, <1>2 DEF Awaited
  <2>2. Told(d)'
    BY <1>1, Zenon DEF Told
  <2>3. Owed(d)'
    BY <1>1, <1>3, <2>1 DEF Owed
  <2> QED
    BY <2>2, <2>3
<1>5. ParentGone'
  BY <1>1, Zenon DEF Awaited, ParentGone
<1> QED
  BY <1>4, <1>5 DEF Awaited

LEMMA EAwaitedParent ==
    ASSUME E!EchoAssumption, EchoInv, Awaited, E!Parent \/ E!SigChld PROVE Awaited'
<1>1. UNCHANGED <<buff, killed, unread, toClient, cli>>
  BY DEF E!Parent, E!Accept, E!Fork, E!ForkFails, E!CloseConn, E!ParentStep, E!SigChld,
     E!HandlerStarts, E!Reap, E!HandlerReturns, E!childVars, E!tcpVars, E!cliVars
<1>2. child \in [Clients -> {"none", "forked", "read", "write", "zombie", "reaped"}]
  BY DEF EchoInv, E!TypeOK
<1>3. ASSUME NEW c \in Clients
      PROVE  child'[c] = child[c] \/ (child[c] = "none" /\ child'[c] = "forked")
                                  \/ (child[c] = "zombie" /\ child'[c] = "reaped")
  <2>1. CASE E!Parent
    BY <1>2, <2>1 DEF E!Parent, E!Accept, E!Fork, E!ForkFails, E!CloseConn, E!ParentStep, EchoInv
  <2>2. CASE E!SigChld
    BY <1>2, <2>2 DEF E!SigChld, E!HandlerStarts, E!Reap, E!HandlerReturns, E!childVars, E!Zombies
  <2> QED
    BY <2>1, <2>2
<1>4. ASSUME NEW c \in Clients PROVE Owed(c)'
  BY <1>1, <1>3 DEF Awaited, Owed
<1>5. ASSUME NEW c \in Clients, child'[c] = "zombie" PROVE handler' \/ pending' \/ ppc' = "gone"
  <2>1. Told(c) /\ child[c] = "zombie" /\ c \in E!Zombies
    BY <1>3, <1>5 DEF Awaited, E!Zombies
  <2>2. CASE E!Parent
    BY <2>1, <2>2, Zenon DEF Told, E!Parent, E!Accept, E!Fork, E!ForkFails, E!CloseConn, E!ParentStep
  <2>3. CASE E!SigChld
    BY <2>1, <2>3, Zenon DEF E!SigChld, E!HandlerStarts, E!Reap, E!GoesOn, E!HandlerReturns
  <2> QED
    BY <2>2, <2>3
<1>6. ParentGone'
  <2>1. CASE E!Parent
    BY <2>1 DEF Awaited, ParentGone, E!Parent, E!Accept, E!Fork, E!ForkFails, E!CloseConn,
       E!ParentStep
  <2>2. CASE E!SigChld
    BY <2>2, Zenon DEF Awaited, ParentGone, E!SigChld, E!HandlerStarts, E!Reap, E!HandlerReturns
  <2> QED
    BY <2>1, <2>2
<1> QED
  BY <1>4, <1>5, <1>6 DEF Awaited, Told

LEMMA EAwaited ==
    ASSUME E!EchoAssumption, EchoInv, Awaited, [E!Next]_E!vars PROVE Awaited'
<1>1. CASE UNCHANGED E!vars
  BY <1>1, Zenon DEF E!vars, E!parentVars, E!childVars, E!tcpVars, E!cliVars, Awaited, ParentGone,
     Told, Owed
<1>2. CASE E!Next
  BY <1>2, EAwaitedClient, EAwaitedChild, EAwaitedEnds, EAwaitedParent DEF E!Next, E!Child
<1> QED
  BY <1>1, <1>2

(* Clients, children, the parent and its handler never wait for each other *)
(* for ever: when none of them can go on every client has ended, and every *)
(* child was reaped unless the parent had gone.  No SIGCHLD is one too few.*)
THEOREM NoneLeftBehind == ASSUME E!EchoAssumption PROVE E!Spec => []AllEnd
<1>1. ASSUME EchoInv, Awaited, ~EParentRuns,
             \A c \in Clients : ~EClientRuns(c) /\ ~EChildRuns(c), NEW c \in Clients
      PROVE  /\ cli[c] \in {"done", "cut", "refused"}
             /\ child[c] = "none" \/ child[c] = "reaped" \/ (child[c] = "zombie" /\ ppc = "gone")
  <2>1. /\ Served(c) /\ Echoed(c) /\ Told(c) /\ Owed(c) /\ ParentGone
        /\ child[c] \in {"none", "forked", "read", "write", "zombie", "reaped"}
        /\ cli[c] \in {"connect", "refused", "gets", "read", "done", "cut"}
        /\ ppc \in {"accept", "fork", "close", "gone"} /\ held \subseteq {connfd} \ {None}
        /\ (ppc = "accept" <=> connfd = None) \/ ppc = "gone"
    BY <1>1 DEF EchoInv, E!TypeOK, Awaited
  <2>2. ~handler /\ (pending => ppc = "gone")
    BY <1>1, <2>1, Zenon DEF EParentRuns, ParentGone
  <2>3. (ppc = "accept" /\ backlog = << >>) \/ ppc = "gone"
    <3>1. ppc \notin {"fork", "close"} /\ ~(ppc = "accept" /\ backlog # << >>)
      BY <1>1, <2>2, Zenon DEF EParentRuns
    <3> QED
      BY <2>1, <3>1
  <2>4. held = {} /\ (E!Alive(c) \/ E!ServerClosed(c))
    <3>1. held = {}
      BY <2>1, <2>3 DEF ParentGone
    <3>2. c \in E!ToSet(backlog) => ~E!Listening /\ child[c] = "none"
      <4>1. backlog = << >> => E!ToSet(backlog) = {}
        BY DEF E!ToSet
      <4>2. \A d \in Clients : child[d] # "forked"
        BY <1>1 DEF EChildRuns
      <4> QED
        BY <2>1, <2>3, <4>1, <4>2 DEF E!Listening, Served
    <3> QED
      BY <3>1, <3>2 DEF E!ServerClosed, E!Alive
  <2>5. cli[c] # "read"
    <3>1. ASSUME cli[c] = "read" PROVE FALSE
      <4>1. toClient[c] = 0 /\ child[c] = "read" /\ unread[c] = 0
        <5>1. /\ unread[c] \in Nat /\ toClient[c] \in Nat
              /\ ~(toClient[c] > 0) /\ ~E!ServerClosed(c)
          BY <1>1, <3>1, ENow DEF EClientRuns
        <5>2. child[c] \notin {"forked", "write"} /\ (child[c] = "read" => ~(unread[c] > 0))
          BY <1>1 DEF EChildRuns
        <5> QED
          BY <2>4, <5>1, <5>2 DEF E!Alive
      <4>2. buff[c] = 0 /\ c \notin killed
        BY <2>1, <4>1 DEF Echoed, Owed
      <4> QED
        BY <2>1, <3>1, <4>1, <4>2 DEF Owed
    <3> QED
      BY <3>1
  <2>6. cli[c] \in {"done", "cut", "refused"}
    BY <1>1, <2>1, <2>5 DEF EClientRuns
  <2>7. child[c] \notin {"forked", "read", "write"}
    BY <1>1, <2>1, <2>6 DEF EChildRuns, E!Left, Served
  <2>8. child[c] = "zombie" => ppc = "gone"
    BY <2>1, <2>2, Zenon DEF Told
  <2> QED
    BY <2>1, <2>6, <2>7, <2>8
<1>2. EchoInv /\ Awaited => AllEnd
  BY <1>1, Zenon DEF AllEnd
<1> QED
  BY <1>2, EInit, EStep, EAwaitedInit, EAwaited, PTL DEF E!Spec

----------------------------------------------------------------------------
(* PipeCat.                                                                *)
CONSTANTS N, MaxWrites

VARIABLES program, pc, ends, data, linked, made, todo, answered, shown, blank, overlap

P == INSTANCE PipeCat

Parent(i) == <<i, "client">>
Child(i) == <<i, "server">>
Own(i, n) == <<n, IF program = "pipe" THEN i ELSE linked[n]>>
Idle(i) == pc[Parent(i)] \in {"start", "done", "dead"} /\ P!Ended(Child(i))
Clean == killed = {} /\ ~P!Sharing

(* Of every instance, whatever was killed and whoever shares the names.    *)
Began(n) == {i \in P!Instances : pc[Parent(i)] \notin IF n = 1 THEN {"start"} ELSE {"start", "make2"}}
Roles(i) ==
    /\ pc[Parent(i)] \in {"start", "fork", "ask", "show", "reap", "done", "dead"} \cup
                        (IF program = "pipe" THEN {"close"}
                         ELSE {"make2", "open1", "wait1", "open2", "wait2", "unlink1", "unlink2"})
    /\ pc[Child(i)] \in {"none", "read", "write", "done", "dead"} \cup
                       (IF program = "pipe" THEN {"close"}
                        ELSE {"open1", "wait1", "open2", "wait2"})
    /\ pc[Parent(i)] \in {"start", "make2", "fork"} => pc[Child(i)] = "none"
    /\ pc[Parent(i)] \in {"unlink1", "unlink2", "done"} => P!Ended(Child(i))
    /\ pc[Parent(i)] \in {"unlink1", "unlink2"} => ends[Parent(i)] = {}

(* What a process has open in a clean run.                                 *)
End(p, n) == <<P!Mode(p, n), Own(p[1], n)>>
Exact(p) ==
    ends[p] = CASE pc[p] \in {"fork", "close"} /\ program = "pipe" -> {"r", "w"} \X {Own(p[1], 1), Own(p[1], 2)}
                [] pc[p] \in {"wait1", "open2"} -> {End(p, 1)}
                [] pc[p] \in {"wait2", "ask", "show", "reap", "read", "write"} -> {End(p, 1), End(p, 2)}
                [] OTHER -> {}

Names(i) == program = "fifo" /\ ~Idle(i) =>
    /\ pc[Parent(i)] # "unlink2" => linked[1] # 0
    /\ pc[Parent(i)] # "make2" => linked[2] # 0

Together(i) ==
    LET c == pc[Parent(i)]
        s == pc[Child(i)]
    IN /\ c \in {"close", "ask"} => s \in {"none", "close", "read"}
       /\ c = "open1" => s \in {"none", "open1", "wait1"}
       /\ c = "wait1" => s \in {"none", "open1"}
       /\ c = "open2" => s \in {"open2", "wait2"}
       /\ c = "wait2" => s = "open2"
       /\ c = "show" => s \in {"none", "close", "read", "write", "done"}
       /\ c = "reap" => P!Ended(Child(i)) \/ (s \in {"close", "read"} /\ data[Own(i, 1)] = 0)
       /\ c = "dead" => P!Ended(Child(i))

Whole(i) ==
    LET c == pc[Parent(i)]
    IN /\ c \in {"fork", "close", "open1", "wait1", "open2", "wait2", "ask"} =>
             data[Own(i, 1)] = 0 /\ data[Own(i, 2)] = 0
       /\ c \notin {"show", "reap", "unlink1", "unlink2", "done", "dead"} => answered[i] = 0 /\ shown[i] = 0
       /\ c = "show" => answered[i] = shown[i] + data[Own(i, 2)]
       /\ c = "reap" => data[Own(i, 2)] = 0
       /\ c \in {"reap", "unlink1", "unlink2", "done"} => answered[i] = shown[i]

Alone == program = "fifo" => \A i, j \in P!Instances : Idle(i) \/ Idle(j) \/ i = j
NobodyHas(f) == \A p \in P!Procs : <<"r", f>> \notin ends[p] /\ <<"w", f>> \notin ends[p]
Unheld == \A f \in P!Pipes : NobodyHas(f) => data[f] = 0

Always == /\ P!TypeOK
          /\ \A n \in {1, 2} : made[n] <= Cardinality(Began(n))
          /\ \A i \in P!Instances : Roles(i)
Tidy == /\ Alone /\ Unheld
        /\ \A p \in P!Procs : Exact(p)
        /\ \A i \in P!Instances : Names(i) /\ Together(i) /\ Whole(i)
PipeInv == Always /\ (Clean => Tidy)

LEMMA PShape ==
    /\ \A i \in P!Instances : Parent(i) \in P!Procs /\ Child(i) \in P!Procs
    /\ \A p \in P!Procs : p[1] \in P!Instances /\ (p = Parent(p[1]) \/ p = Child(p[1]))
    /\ \A i, j : Parent(i) # Child(j)
    /\ \A i, j : (Parent(i) = Parent(j) <=> i = j) /\ (Child(i) = Child(j) <=> i = j)
    /\ \A i : Parent(i)[1] = i /\ Child(i)[1] = i
    /\ \A i : Parent(i)[2] = "client" /\ Child(i)[2] = "server"
BY DEF Parent, Child, P!Procs

LEMMA PInstances ==
    ASSUME P!PipeCatAssumption
    PROVE  /\ N \in Nat /\ MaxWrites \in Nat /\ MaxKilled \in Nat /\ Capacity \in Nat /\ Capacity > 0
           /\ IsFiniteSet(P!Instances) /\ Cardinality(P!Instances) = N /\ P!Instances \subseteq Nat \ {0}
<1>1. N \in Nat /\ MaxWrites \in Nat /\ MaxKilled \in Nat /\ Capacity \in Nat /\ Capacity > 0
  BY DEF P!PipeCatAssumption
<1>2. 1 \in Int /\ N \in Int /\ P!Instances = 1 .. N
  BY <1>1 DEF P!Instances
<1>3. IsFiniteSet(1 .. N) /\ Cardinality(1 .. N) = IF 1 > N THEN 0 ELSE N - 1 + 1
  BY <1>2, FS_Interval
<1> QED
  BY <1>1, <1>2, <1>3

LEMMA PInit == ASSUME P!PipeCatAssumption PROVE P!Init => PipeInv
<1> SUFFICES ASSUME P!Init PROVE PipeInv
  OBVIOUS
<1>1. /\ program \in {"pipe", "fifo"} /\ blank = {} /\ overlap = FALSE /\ killed = {}
      /\ pc = [p \in P!Procs |-> IF p[2] = "client" THEN "start" ELSE "none"]
      /\ ends = [p \in P!Procs |-> {}] /\ data = [f \in P!Pipes |-> 0]
      /\ linked = [n \in {1, 2} |-> 0] /\ made = linked
      /\ todo = [i \in P!Instances |-> 0] /\ answered = todo /\ shown = todo
  BY DEF P!Init
<1>2. \A i \in P!Instances : pc[Parent(i)] = "start" /\ pc[Child(i)] = "none"
  BY <1>1, PShape
<1>3. \A p \in P!Procs : ends[p] = {} /\ pc[p] \in {"start", "none"}
  BY <1>1
<1>4. P!TypeOK
  <2>1. data \in [P!Pipes -> 0 .. Capacity]
    BY <1>1, PInstances
  <2>2. todo \in [P!Instances -> 0 .. MaxWrites] /\ {answered, shown} \subseteq [P!Instances -> Nat]
    BY <1>1, PInstances
  <2>3. /\ {linked, made} \subseteq [{1, 2} -> {0} \cup P!Instances]
        /\ blank \subseteq P!Instances /\ overlap \in BOOLEAN /\ killed \subseteq P!Procs
        /\ ends \in [P!Procs -> SUBSET P!Ends]
    BY <1>1
  <2> QED
    BY <1>1, <1>3, <2>1, <2>2, <2>3 DEF P!TypeOK
<1>5. \A n \in {1, 2} : made[n] <= Cardinality(Began(n))
  <2>1. \A n \in {1, 2} : Began(n) = {}
    BY <1>2 DEF Began
  <2>2. Cardinality({}) = 0 /\ \A n \in {1, 2} : made[n] = 0
    BY <1>1, FS_EmptySet
  <2>3. ASSUME NEW n \in {1, 2} PROVE made[n] <= Cardinality(Began(n))
    <3>1. Cardinality(Began(n)) = 0
      BY <2>1, <2>2, Zenon
    <3> QED
      BY <2>2, <3>1
  <2> QED
    BY <2>3
<1>6. \A i \in P!Instances : Roles(i) /\ Names(i) /\ Together(i) /\ Whole(i)
  <2> SUFFICES ASSUME NEW i \in P!Instances PROVE Roles(i) /\ Names(i) /\ Together(i) /\ Whole(i)
    OBVIOUS
  <2>1. answered[i] = 0 /\ shown[i] = 0
    BY <1>1
  <2> QED
    BY <1>2, <2>1 DEF Roles, Names, Together, Whole, Idle, P!Ended
<1>7. Alone /\ Unheld
  BY <1>1, <1>2 DEF Alone, Unheld, Idle, P!Ended
<1>8. \A p \in P!Procs : Exact(p)
  BY <1>3 DEF Exact
<1> QED
  BY <1>4, <1>5, <1>6, <1>7, <1>8 DEF PipeInv, Always, Tidy

Points == {"none", "start", "make2", "fork", "close", "open1", "wait1", "open2", "wait2", "ask",
           "show", "reap", "unlink1", "unlink2", "read", "write", "done", "dead"}

LEMMA PNow ==
    ASSUME P!PipeCatAssumption, P!TypeOK
    PROVE  /\ program \in {"pipe", "fifo"} /\ pc \in [P!Procs -> Points]
           /\ ends \in [P!Procs -> SUBSET P!Ends] /\ data \in [P!Pipes -> 0 .. Capacity]
           /\ data \in [P!Pipes -> Nat]
           /\ linked \in [{1, 2} -> {0} \cup P!Instances] /\ made \in [{1, 2} -> {0} \cup P!Instances]
           /\ made \in [{1, 2} -> Nat]
           /\ todo \in [P!Instances -> 0 .. MaxWrites] /\ todo \in [P!Instances -> Nat]
           /\ answered \in [P!Instances -> Nat] /\ shown \in [P!Instances -> Nat]
           /\ blank \subseteq P!Instances /\ overlap \in BOOLEAN /\ killed \subseteq P!Procs
           /\ \A p \in P!Procs : P!Ended(p) => ends[p] = {}
<1>1. /\ program \in {"pipe", "fifo"} /\ pc \in [P!Procs -> Points]
      /\ ends \in [P!Procs -> SUBSET P!Ends] /\ data \in [P!Pipes -> 0 .. Capacity]
      /\ linked \in [{1, 2} -> {0} \cup P!Instances] /\ made \in [{1, 2} -> {0} \cup P!Instances]
      /\ todo \in [P!Instances -> 0 .. MaxWrites]
      /\ answered \in [P!Instances -> Nat] /\ shown \in [P!Instances -> Nat]
      /\ blank \subseteq P!Instances /\ overlap \in BOOLEAN /\ killed \subseteq P!Procs
      /\ \A p \in P!Procs : P!Ended(p) => ends[p] = {}
  BY Zenon DEF P!TypeOK, Points
<1>2. data \in [P!Pipes -> Nat]
  BY <1>1, PInstances
<1>3. made \in [{1, 2} -> Nat]
  BY <1>1, PInstances
<1>4. todo \in [P!Instances -> Nat]
  BY <1>1, PInstances
<1> QED
  BY <1>1, <1>2, <1>3, <1>4

(* What a step leaves alone or keeps in its type.                          *)
LEMMA PTyped ==
    ASSUME P!PipeCatAssumption, P!TypeOK,
           UNCHANGED program, pc' \in [P!Procs -> Points], ends' \in [P!Procs -> SUBSET P!Ends],
           \A p \in P!Procs : P!Ended(p)' => ends'[p] = {},
           UNCHANGED data \/ data' \in [P!Pipes -> 0 .. Capacity],
           UNCHANGED linked \/ linked' \in [{1, 2} -> {0} \cup P!Instances],
           UNCHANGED made \/ made' \in [{1, 2} -> {0} \cup P!Instances],
           UNCHANGED todo \/ todo' \in [P!Instances -> 0 .. MaxWrites],
           UNCHANGED answered \/ answered' \in [P!Instances -> Nat],
           UNCHANGED shown \/ shown' \in [P!Instances -> Nat],
           UNCHANGED blank \/ blank' \subseteq P!Instances,
           UNCHANGED overlap \/ overlap' \in BOOLEAN,
           UNCHANGED killed \/ killed' \subseteq P!Procs
    PROVE  P!TypeOK'
<1>1. /\ program' \in {"pipe", "fifo"} /\ data' \in [P!Pipes -> 0 .. Capacity]
      /\ linked' \in [{1, 2} -> {0} \cup P!Instances] /\ made' \in [{1, 2} -> {0} \cup P!Instances]
      /\ todo' \in [P!Instances -> 0 .. MaxWrites]
      /\ answered' \in [P!Instances -> Nat] /\ shown' \in [P!Instances -> Nat]
      /\ blank' \subseteq P!Instances /\ killed' \subseteq P!Procs
  BY PNow
<1>2. overlap' \in BOOLEAN
  BY PNow, Zenon
<1> QED
  BY <1>1, <1>2, Zenon DEF P!TypeOK, Points

LEMMA PLeave ==
    ASSUME P!PipeCatAssumption, P!TypeOK, NEW p \in P!Procs, P!Leave(p)
    PROVE  /\ ends' \in [P!Procs -> SUBSET P!Ends] /\ data' \in [P!Pipes -> 0 .. Capacity]
           /\ ends'[p] = {} /\ \A q \in P!Procs \ {p} : ends'[q] = ends[q]
           /\ \A f \in P!Pipes :
                 data'[f] = IF \A q \in P!Procs \ {p} : <<"r", f>> \notin ends[q] /\ <<"w", f>> \notin ends[q]
                            THEN 0 ELSE data[f]
<1>1. /\ ends' = [ends EXCEPT ![p] = {}]
      /\ data' = [f \in P!Pipes |-> IF P!Readers(f) \cup P!Writers(f) \subseteq {p} THEN 0 ELSE data[f]]
  BY DEF P!Leave
<1>2. /\ ends' \in [P!Procs -> SUBSET P!Ends] /\ ends'[p] = {}
      /\ \A q \in P!Procs \ {p} : ends'[q] = ends[q]
  BY <1>1, PNow
<1>3. data' \in [P!Pipes -> 0 .. Capacity]
  BY <1>1, PNow, PInstances
<1>4. ASSUME NEW f \in P!Pipes
      PROVE  P!Readers(f) \cup P!Writers(f) \subseteq {p}
             <=> \A q \in P!Procs \ {p} : <<"r", f>> \notin ends[q] /\ <<"w", f>> \notin ends[q]
  BY Zenon DEF P!Readers, P!Writers
<1> QED
  BY <1>1, <1>2, <1>3, <1>4

LEMMA PPut ==
    ASSUME P!PipeCatAssumption, P!TypeOK, NEW p \in P!Procs, P!Put(p)
    PROVE  /\ data' \in [P!Pipes -> 0 .. Capacity]
           /\ \A f \in P!Pipes : data'[f] = IF <<"w", f>> \in ends[p] THEN data[f] + 1 ELSE data[f]
<1>1. /\ \A f \in P!To(p) : data[f] < Capacity
      /\ data' = [f \in P!Pipes |-> IF f \in P!To(p) THEN data[f] + 1 ELSE data[f]]
  BY DEF P!Put, P!HasRoom
<1>2. \A f \in P!Pipes : data[f] \in 0 .. Capacity /\ (f \in P!To(p) <=> <<"w", f>> \in ends[p])
  BY PNow DEF P!To
<1>3. ASSUME NEW f \in P!Pipes
      PROVE  (IF f \in P!To(p) THEN data[f] + 1 ELSE data[f]) \in 0 .. Capacity
  <2>1. data[f] \in Nat /\ data[f] <= Capacity /\ Capacity \in Nat
    <3>1. Capacity \in Nat
      BY PInstances
    <3>2. data[f] \in 0 .. Capacity
      BY <1>2
    <3> QED
      BY <3>1, <3>2
  <2>2. f \in P!To(p) => data[f] < Capacity
    BY <1>1
  <2> QED
    BY <2>1, <2>2
<1> QED
  BY <1>1, <1>2, <1>3

LEMMA PStep ==
    ASSUME P!PipeCatAssumption, P!TypeOK, NEW p \in P!Procs, NEW from, NEW to \in Points,
           P!Step(p, from, to)
    PROVE  /\ pc' \in [P!Procs -> Points] /\ pc[p] = from /\ pc'[p] = to
           /\ \A q \in P!Procs \ {p} : pc'[q] = pc[q]
BY PNow DEF P!Step

(* The bound on made, and the points an instance can be at, need a look    *)
(* only where they change.                                                 *)
LEMMA PBegan ==
    ASSUME P!PipeCatAssumption, Always, NEW n \in {1, 2}, Began(n) \subseteq Began(n)'
    PROVE  /\ Cardinality(Began(n)) <= Cardinality(Began(n)')
           /\ Cardinality(Began(n)) \in Nat /\ Cardinality(Began(n)') \in Nat
           /\ Cardinality(Began(n)') <= N
           /\ \A i \in Began(n)' \ Began(n) : Cardinality(Began(n)) + 1 <= Cardinality(Began(n)')
<1>1. Began(n) \subseteq P!Instances /\ Began(n)' \subseteq P!Instances
  BY DEF Began, P!Instances
<1>2. \A S, T : IsFiniteSet(T) /\ S \subseteq T =>
                   /\ IsFiniteSet(S) /\ Cardinality(S) <= Cardinality(T)
                   /\ Cardinality(S) \in Nat /\ Cardinality(T) \in Nat
  BY FS_Subset, FS_CardinalityType
<1>3. /\ IsFiniteSet(Began(n)) /\ IsFiniteSet(Began(n)')
      /\ Cardinality(Began(n)) <= Cardinality(Began(n)')
      /\ Cardinality(Began(n)) \in Nat /\ Cardinality(Began(n)') \in Nat
      /\ Cardinality(Began(n)') <= N
  BY <1>1, <1>2, PInstances
<1>4. ASSUME NEW i \in Began(n)' \ Began(n)
      PROVE  Cardinality(Began(n)) + 1 <= Cardinality(Began(n)')
  <2>1. Cardinality(Began(n) \cup {i}) = Cardinality(Began(n)) + 1
    BY <1>3, <1>4, FS_AddElement
  <2>2. Began(n) \cup {i} \subseteq Began(n)'
    BY <1>4
  <2>3. Cardinality(Began(n) \cup {i}) <= Cardinality(Began(n)')
    BY <1>2, <1>3, <2>2
  <2> QED
    BY <2>1, <2>3
<1> QED
  BY <1>3, <1>4

LEMMA PGoesOn ==
    ASSUME P!PipeCatAssumption, Always, P!TypeOK', UNCHANGED made,
           NEW i \in P!Instances,
           pc'[Parent(i)] = "start" => pc[Parent(i)] = "start",
           pc'[Parent(i)] = "make2" => pc[Parent(i)] \in {"start", "make2"},
           \A j \in P!Instances \ {i} : pc'[Parent(j)] = pc[Parent(j)] /\ Roles(j)',
           Roles(i)'
    PROVE  Always'
<1>1. ASSUME NEW n \in {1, 2} PROVE Began(n) \subseteq Began(n)'
  BY <1>1 DEF Began, P!Instances
<1>2. ASSUME NEW n \in {1, 2} PROVE made'[n] <= Cardinality(Began(n)')
  <2>1. made'[n] = made[n] /\ made[n] \in Nat /\ made[n] <= Cardinality(Began(n))
    BY PNow DEF Always
  <2>2. /\ Cardinality(Began(n)) <= Cardinality(Began(n)')
        /\ Cardinality(Began(n)) \in Nat /\ Cardinality(Began(n)') \in Nat
    BY <1>1, PBegan
  <2> QED
    BY <2>1, <2>2
<1>3. \A j \in P!Instances : Roles(j)'
  OBVIOUS
<1> QED
  BY <1>2, <1>3, Zenon DEF Always, P!Instances

(* One process moves.                                                      *)
LEMMA PMoves ==
    ASSUME P!PipeCatAssumption, Always, P!TypeOK', UNCHANGED <<program, made>>,
           NEW p \in P!Procs, NEW from, NEW to \in Points, P!Step(p, from, to),
           to \notin {"start", "make2"} \/ (to = "make2" /\ pc[p] = "start"),
           \A q \in P!Procs \ {p} : ends'[q] = ends[q],
           Roles(p[1])'
    PROVE  Always'
<1> DEFINE i == p[1]
<1>1. /\ i \in P!Instances /\ p \in {Parent(i), Child(i)}
      /\ \A j \in P!Instances : Parent(j) \in P!Procs /\ Child(j) \in P!Procs
      /\ \A j \in P!Instances \ {i} : Parent(j) # p /\ Child(j) # p
      /\ Parent(i) # Child(i)
  BY PShape
<1>2. pc'[p] = to /\ \A q \in P!Procs \ {p} : pc'[q] = pc[q]
  BY PStep DEF Always
<1>3. /\ pc'[Parent(i)] = "start" => pc[Parent(i)] = "start"
      /\ pc'[Parent(i)] = "make2" => pc[Parent(i)] \in {"start", "make2"}
  BY <1>1, <1>2
<1>4. ASSUME NEW j \in P!Instances \ {i}
      PROVE  pc'[Parent(j)] = pc[Parent(j)] /\ Roles(j)'
  <2>1. /\ pc'[Parent(j)] = pc[Parent(j)] /\ pc'[Child(j)] = pc[Child(j)]
        /\ ends'[Parent(j)] = ends[Parent(j)] /\ Roles(j)
    BY <1>1, <1>2 DEF Always
  <2> QED
    BY <2>1 DEF Roles, P!Ended
<1> QED
  BY <1>1, <1>3, <1>4, PGoesOn

LEMMA AMakePipes ==
    ASSUME P!PipeCatAssumption, Always, NEW i \in P!Instances, P!MakePipes(i)
    PROVE  Always'
<1>1. /\ program = "pipe" /\ P!Step(Parent(i), "start", "fork")
      /\ ends' = [ends EXCEPT ![Parent(i)] = {"r", "w"} \X ({1, 2} \X {i})]
      /\ UNCHANGED <<program, linked, made, killed, data, todo, answered, shown, blank>>
      /\ overlap' = (overlap \/ \E q \in P!Procs : q[1] # i /\ ~P!Ended(q) /\ pc[q] # "start")
  BY DEF P!MakePipes, P!Start, Parent
<1>2. Parent(i) \in P!Procs /\ P!TypeOK /\ "fork" \in Points
  BY PShape DEF Always, Points
<1>3. /\ pc' \in [P!Procs -> Points] /\ pc[Parent(i)] = "start" /\ pc'[Parent(i)] = "fork"
      /\ \A q \in P!Procs \ {Parent(i)} : pc'[q] = pc[q]
  BY <1>1, <1>2, PStep
<1>4. {"r", "w"} \X ({1, 2} \X {i}) \subseteq P!Ends
  BY DEF P!Ends, P!Pipes
<1>5. /\ ends' \in [P!Procs -> SUBSET P!Ends]
      /\ \A q \in P!Procs \ {Parent(i)} : ends'[q] = ends[q]
  BY <1>1, <1>2, <1>4, PNow
<1>6. \A q \in P!Procs : P!Ended(q)' => ends'[q] = {}
  BY <1>2, <1>3, <1>5, PNow DEF P!Ended
<1>7. overlap' \in BOOLEAN
  BY <1>1, <1>2, PNow, Zenon
<1>8. P!TypeOK'
  BY <1>1, <1>2, <1>3, <1>5, <1>6, <1>7, PTyped
<1>9. Roles(i)'
  <2>1. pc'[Child(i)] = "none"
    BY <1>2, <1>3, PShape DEF Always, Roles
  <2> QED
    BY <1>1, <1>3, <2>1 DEF Roles
<1>10. Parent(i)[1] = i
  BY PShape
<1> QED
  BY <1>1, <1>2, <1>5, <1>8, <1>9, <1>10, PMoves

LEMMA AMakeFifo ==
    ASSUME P!PipeCatAssumption, Always, NEW i \in P!Instances, NEW n \in {1, 2},
           P!MakeFifo(n), program = "fifo",
           NEW from, NEW to \in Points, P!Step(Parent(i), from, to),
           <<n, from, to>> \in {<<1, "start", "make2">>, <<2, "make2", "fork">>},
           UNCHANGED overlap \/ overlap' \in BOOLEAN
    PROVE  Always'
<1>1. /\ made' = [made EXCEPT ![n] = IF linked[n] = 0 THEN made[n] + 1 ELSE made[n]]
      /\ linked' = [linked EXCEPT ![n] = IF linked[n] = 0 THEN made'[n] ELSE linked[n]]
      /\ UNCHANGED <<program, killed, ends, data, todo, answered, shown, blank>>
  BY DEF P!MakeFifo
<1>2. Parent(i) \in P!Procs /\ P!TypeOK
  BY PShape DEF Always
<1>3. /\ pc' \in [P!Procs -> Points] /\ pc[Parent(i)] = from /\ pc'[Parent(i)] = to
      /\ \A q \in P!Procs \ {Parent(i)} : pc'[q] = pc[q]
  BY <1>1, <1>2, PStep
<1>4. /\ \A j \in P!Instances \ {i} : pc'[Parent(j)] = pc[Parent(j)]
      /\ \A j \in P!Instances : pc'[Child(j)] = pc[Child(j)]
  BY <1>3, PShape
<1>5. \A j \in P!Instances : Roles(j)'
  BY <1>1, <1>3, <1>4 DEF Always, Roles, P!Ended
<1>6. \A k \in {1, 2} : Began(k) \subseteq Began(k)' /\ i \in Began(n)' \ Began(n)
  BY <1>3, <1>4 DEF Began, P!Instances
<1>7. \A k \in {1, 2} : /\ made[k] \in Nat /\ made[k] <= Cardinality(Began(k))
                        /\ linked[k] \in {0} \cup P!Instances
  BY <1>2, PNow DEF Always
<1>8. ASSUME NEW k \in {1, 2} PROVE made'[k] \in Nat /\ made'[k] <= Cardinality(Began(k)')
  <2>1. /\ Cardinality(Began(k)) <= Cardinality(Began(k)')
        /\ Cardinality(Began(k)) \in Nat /\ Cardinality(Began(k)') \in Nat
        /\ k = n => Cardinality(Began(k)) + 1 <= Cardinality(Began(k)')
    BY <1>6, PBegan
  <2>2. made'[k] = IF k = n /\ linked[n] = 0 THEN made[k] + 1 ELSE made[k]
    BY <1>1, <1>2, PNow
  <2> QED
    BY <1>7, <2>1, <2>2
<1>9. ASSUME NEW k \in {1, 2} PROVE made'[k] \in {0} \cup P!Instances
  <2>1. Cardinality(Began(k)') \in Nat /\ Cardinality(Began(k)') <= N /\ N \in Nat
    BY <1>6, PBegan, PInstances
  <2> QED
    BY <1>8, <2>1 DEF P!Instances
<1>10. /\ made' \in [{1, 2} -> {0} \cup P!Instances]
       /\ linked' \in [{1, 2} -> {0} \cup P!Instances]
  <2>1. made' \in [{1, 2} -> {0} \cup P!Instances]
    BY <1>1, <1>2, <1>9, PNow
  <2>2. (IF linked[n] = 0 THEN made'[n] ELSE linked[n]) \in {0} \cup P!Instances
    BY <1>7, <1>9
  <2> QED
    BY <1>1, <1>2, <2>1, <2>2, PNow
<1>11. \A q \in P!Procs : P!Ended(q)' => ends'[q] = {}
  BY <1>1, <1>2, <1>3, PNow DEF P!Ended
<1>12. ends' \in [P!Procs -> SUBSET P!Ends]
  BY <1>1, <1>2, PNow
<1>13. P!TypeOK'
  BY <1>1, <1>2, <1>3, <1>10, <1>11, <1>12, PTyped
<1> QED
  BY <1>5, <1>8, <1>13, Zenon DEF Always, P!Instances

LEMMA AFork ==
    ASSUME P!PipeCatAssumption, Always, NEW i \in P!Instances, P!Fork(i)
    PROVE  Always'
<1>1. /\ pc[Parent(i)] = "fork"
      /\ pc' = [pc EXCEPT ![Parent(i)] = P!AfterFork, ![Child(i)] = P!AfterFork]
      /\ ends' = [ends EXCEPT ![Child(i)] = ends[Parent(i)]]
      /\ UNCHANGED <<program, linked, made, overlap, killed, data, todo, answered, shown, blank>>
  BY DEF P!Fork, Parent, Child, P!ctl
<1>2. /\ Parent(i) \in P!Procs /\ Child(i) \in P!Procs /\ Parent(i) # Child(i)
      /\ P!TypeOK
  BY PShape DEF Always
<1>3. P!AfterFork = (IF program = "pipe" THEN "close" ELSE "open1") /\ P!AfterFork \in Points
  BY DEF P!AfterFork, Points
<1>4. /\ pc' \in [P!Procs -> Points] /\ pc'[Parent(i)] = P!AfterFork /\ pc'[Child(i)] = P!AfterFork
      /\ \A q \in P!Procs \ {Parent(i), Child(i)} : pc'[q] = pc[q]
  BY <1>1, <1>2, <1>3, PNow
<1>5. ends' \in [P!Procs -> SUBSET P!Ends]
  BY <1>1, <1>2, PNow
<1>6. \A q \in P!Procs \ {Child(i)} : ends'[q] = ends[q]
  BY <1>1, <1>2, PNow
<1>7. \A q \in P!Procs : P!Ended(q)' => ends'[q] = {}
  BY <1>2, <1>3, <1>4, <1>6, PNow DEF P!Ended
<1>8. P!TypeOK'
  BY <1>1, <1>2, <1>4, <1>5, <1>7, PTyped
<1>9. Roles(i)'
  BY <1>1, <1>3, <1>4 DEF Roles
<1>10. ASSUME NEW j \in P!Instances \ {i}
       PROVE  pc'[Parent(j)] = pc[Parent(j)] /\ Roles(j)'
  <2>1. /\ pc'[Parent(j)] = pc[Parent(j)] /\ pc'[Child(j)] = pc[Child(j)]
        /\ ends'[Parent(j)] = ends[Parent(j)] /\ Roles(j)
    BY <1>4, <1>6, PShape DEF Always
  <2> QED
    BY <1>1, <2>1 DEF Roles, P!Ended
<1>11. pc'[Parent(i)] \notin {"start", "make2"}
  BY <1>3, <1>4
<1> QED
  BY <1>1, <1>8, <1>9, <1>10, <1>11, PGoesOn

LEMMA AForkFails ==
    ASSUME P!PipeCatAssumption, Always, NEW i \in P!Instances, P!ForkFails(i)
    PROVE  Always'
<1>1. /\ P!Step(Parent(i), "fork", P!AfterFork)
      /\ UNCHANGED <<program, linked, made, overlap, killed, ends, data, todo, answered, shown, blank>>
  BY DEF P!ForkFails, Parent, P!ctl
<1>2. Parent(i) \in P!Procs /\ P!TypeOK /\ Parent(i)[1] = i
  BY PShape DEF Always
<1>3. P!AfterFork = (IF program = "pipe" THEN "close" ELSE "open1") /\ P!AfterFork \in Points
  BY DEF P!AfterFork, Points
<1>4. /\ pc' \in [P!Procs -> Points] /\ pc[Parent(i)] = "fork" /\ pc'[Parent(i)] = P!AfterFork
      /\ \A q \in P!Procs \ {Parent(i)} : pc'[q] = pc[q]
  BY <1>1, <1>2, <1>3, PStep
<1>5. \A q \in P!Procs : P!Ended(q)' => ends'[q] = {}
  BY <1>1, <1>2, <1>3, <1>4, PNow DEF P!Ended
<1>6. P!TypeOK'
  BY <1>1, <1>2, <1>4, <1>5, PTyped, PNow
<1>7. Roles(i)'
  <2>1. pc'[Child(i)] = pc[Child(i)] /\ Roles(i)
    BY <1>4, PShape DEF Always
  <2> QED
    BY <1>1, <1>3, <1>4, <2>1 DEF Roles
<1>8. P!AfterFork \notin {"start", "make2"}
  BY <1>3
<1> QED
  BY <1>1, <1>2, <1>3, <1>6, <1>7, <1>8, PMoves

LEMMA ACloseOthers ==
    ASSUME P!PipeCatAssumption, Always, NEW p \in P!Procs, P!CloseOthers(p)
    PROVE  Always'
<1>1. /\ P!Step(p, "close", P!Work(p)) /\ ends' = [ends EXCEPT ![p] = P!Kept(p)]
      /\ UNCHANGED <<program, linked, made, overlap, killed, data, todo, answered, shown, blank>>
  BY DEF P!CloseOthers, P!ctl
<1>2. P!TypeOK /\ P!Work(p) = (IF p[2] = "client" THEN "ask" ELSE "read") /\ P!Work(p) \in Points
  BY DEF Always, P!Work, Points
<1>3. /\ pc' \in [P!Procs -> Points] /\ pc[p] = "close" /\ pc'[p] = P!Work(p)
      /\ \A q \in P!Procs \ {p} : pc'[q] = pc[q]
  BY <1>1, <1>2, PStep
<1>4. /\ ends' \in [P!Procs -> SUBSET P!Ends]
      /\ \A q \in P!Procs \ {p} : ends'[q] = ends[q]
  <2>1. P!Kept(p) \in SUBSET P!Ends /\ ends \in [P!Procs -> SUBSET P!Ends]
    BY <1>2, PNow DEF P!Kept
  <2> QED
    BY <1>1, <2>1
<1>5. \A q \in P!Procs : P!Ended(q)' => ends'[q] = {}
  BY <1>2, <1>3, <1>4, PNow DEF P!Ended
<1>6. P!TypeOK'
  BY <1>1, <1>2, <1>3, <1>4, <1>5, PTyped
<1>7. Roles(p[1])'
  <2>1. /\ p[1] \in P!Instances /\ Roles(p[1]) /\ p \in {Parent(p[1]), Child(p[1])}
        /\ Parent(p[1]) \in P!Procs /\ Child(p[1]) \in P!Procs /\ Parent(p[1]) # Child(p[1])
        /\ Parent(p[1])[2] = "client" /\ Child(p[1])[2] = "server"
    BY PShape DEF Always
  <2> QED
    BY <1>1, <1>2, <1>3, <1>4, <2>1 DEF Roles, P!Ended
<1>8. P!Work(p) \notin {"start", "make2"}
  BY <1>2
<1> QED
  BY <1>1, <1>2, <1>4, <1>6, <1>7, <1>8, PMoves

(* The partners that an open wakes may be anybody's.                       *)
LEMMA AOpen ==
    ASSUME P!PipeCatAssumption, Always, NEW p \in P!Procs, NEW n \in {1, 2}, P!Open(p, n)
    PROVE  Always'
<1> DEFINE to(q) == IF n = 1 THEN "open2" ELSE P!Work(q)
<1>1. /\ pc[p] \in {"open1", "open2"}
      /\ UNCHANGED <<program, linked, made, overlap, killed, data, todo, answered, shown, blank>>
  BY DEF P!Open, P!ctl
<1>2. P!TypeOK /\ \A q \in P!Procs : to(q) \in {"open2", "ask", "read"} /\ P!Waiting(n) \in {"wait1", "wait2"}
  BY DEF Always, P!Work, P!Waiting
<1>3. /\ pc' \in [P!Procs -> Points] /\ ends' \in [P!Procs -> SUBSET P!Ends]
      /\ \A q \in P!Procs \ {p} : ends'[q] = ends[q]
      /\ \A q \in P!Procs : \/ pc'[q] = pc[q] /\ q # p
                            \/ /\ pc[q] \in {"open1", "open2", "wait1", "wait2"}
                               /\ pc'[q] \in {"wait1", "wait2", to(q)}
  <2>1. CASE /\ linked[n] = 0 /\ UNCHANGED ends
             /\ pc' = [pc EXCEPT ![p] = to(p)]
    BY <1>1, <1>2, <2>1, PNow DEF Points
  <2>2. CASE /\ linked[n] # 0
             /\ ends' = [ends EXCEPT ![p] = ends[p] \cup {<<P!Mode(p, n), <<n, linked[n]>>>>}]
             /\ \E S : pc' = [q \in P!Procs |->
                                IF q = p THEN IF S = {} THEN P!Waiting(n) ELSE to(p)
                                ELSE IF q \in S /\ pc[q] = P!Waiting(n) THEN to(q) ELSE pc[q]]
    <3>1. <<P!Mode(p, n), <<n, linked[n]>>>> \in P!Ends
      BY <1>2, <2>2, PNow DEF P!Ends, P!Pipes, P!Mode
    <3>2. ends \in [P!Procs -> SUBSET P!Ends] /\ pc \in [P!Procs -> Points]
      BY <1>2, PNow
    <3>3. /\ ends' \in [P!Procs -> SUBSET P!Ends]
          /\ \A q \in P!Procs \ {p} : ends'[q] = ends[q]
      BY <2>2, <3>1, <3>2
    <3>4. PICK S : pc' = [q \in P!Procs |->
                            IF q = p THEN IF S = {} THEN P!Waiting(n) ELSE to(p)
                            ELSE IF q \in S /\ pc[q] = P!Waiting(n) THEN to(q) ELSE pc[q]]
      BY <2>2
    <3>5. \A q \in P!Procs : pc'[q] = IF q = p THEN IF S = {} THEN P!Waiting(n) ELSE to(p)
                                      ELSE IF q \in S /\ pc[q] = P!Waiting(n) THEN to(q) ELSE pc[q]
      BY <3>4
    <3>6. \A q \in P!Procs : pc[q] \in Points /\ to(q) \in Points /\ P!Waiting(n) \in Points
      BY <1>2, <3>2 DEF Points
    <3>7. pc' \in [P!Procs -> Points]
      BY <3>4, <3>6
    <3> HIDE DEF to
    <3>8. \A q \in P!Procs : \/ pc'[q] = pc[q] /\ q # p
                             \/ /\ pc[q] \in {"open1", "open2", "wait1", "wait2"}
                                /\ pc'[q] \in {"wait1", "wait2", to(q)}
      BY <1>1, <1>2, <3>5
    <3> QED
      BY <3>3, <3>7, <3>8
  <2> QED
    BY <2>1, <2>2 DEF P!Open, P!Opened, P!Work
<1>4. \A q \in P!Procs : P!Ended(q)' => ends'[q] = {}
  <2>1. \A q \in P!Procs : P!Ended(q)' => P!Ended(q) /\ q # p
    BY <1>2, <1>3 DEF P!Ended
  <2> QED
    BY <1>2, <1>3, <2>1, PNow
<1>5. P!TypeOK'
  BY <1>1, <1>2, <1>3, <1>4, PTyped
<1>6. ASSUME NEW j \in P!Instances
      PROVE  /\ Roles(j)'
             /\ pc'[Parent(j)] = "start" => pc[Parent(j)] = "start"
             /\ pc'[Parent(j)] = "make2" => pc[Parent(j)] \in {"start", "make2"}
  <2>1. /\ Parent(j) \in P!Procs /\ Child(j) \in P!Procs /\ Parent(j) # Child(j)
        /\ Parent(j)[2] = "client" /\ Child(j)[2] = "server"
    BY PShape
  <2>2. /\ to(Parent(j)) \in {"open2", "ask"} /\ to(Child(j)) \in {"open2", "read"}
    BY <2>1 DEF P!Work
  <2>3. Roles(j)
    BY DEF Always
  <2> HIDE DEF to
  <2>4. pc[Parent(j)] \in {"unlink1", "unlink2"} => Parent(j) # p
    BY <1>1
  <2> QED
    BY <1>1, <1>3, <2>1, <2>2, <2>3, <2>4 DEF Roles, P!Ended
<1>7. \A n1 \in {1, 2} : Began(n1) \subseteq Began(n1)'
  BY <1>6 DEF Began, P!Instances
<1>8. ASSUME NEW k \in {1, 2} PROVE made'[k] <= Cardinality(Began(k)')
  <2>1. made'[k] = made[k] /\ made[k] \in Nat /\ made[k] <= Cardinality(Began(k))
    BY <1>1, <1>2, PNow DEF Always
  <2>2. /\ Cardinality(Began(k)) <= Cardinality(Began(k)')
        /\ Cardinality(Began(k)) \in Nat /\ Cardinality(Began(k)') \in Nat
    BY <1>7, PBegan
  <2> QED
    BY <2>1, <2>2
<1> QED
  BY <1>5, <1>6, <1>8, Zenon DEF Always, P!Instances

(* The rest moves one process, which keeps its ends or loses all of them.  *)
LEMMA PPlain ==
    ASSUME P!PipeCatAssumption, Always, NEW p \in P!Procs, NEW from, NEW to, P!Step(p, from, to),
           \/ p[2] = "client" /\ <<from, to>> \in {<<"ask", "reap">>, <<"ask", "show">>,
                                                  <<"show", "show">>, <<"show", "reap">>}
           \/ /\ p[2] = "client" /\ P!Ended(Child(p[1])) /\ from = "reap"
              /\ to = IF program = "pipe" THEN "done" ELSE "unlink1"
           \/ p[2] = "client" /\ <<from, to>> \in {<<"unlink1", "unlink2">>, <<"unlink2", "done">>}
           \/ p[2] = "server" /\ <<from, to>> \in {<<"read", "write">>, <<"write", "write">>,
                                                  <<"read", "done">>, <<"write", "done">>}
           \/ ~P!Ended(p) /\ from # "start" /\ to = "dead",
           UNCHANGED <<program, made, overlap>>, ends' \in [P!Procs -> SUBSET P!Ends],
           \A q \in P!Procs \ {p} : ends'[q] = ends[q],
           ends'[p] = {} \/ (UNCHANGED ends /\ <<from, to>> \in {<<"ask", "reap">>, <<"ask", "show">>,
               <<"show", "show">>, <<"show", "reap">>, <<"unlink1", "unlink2">>,
               <<"unlink2", "done">>, <<"read", "write">>, <<"write", "write">>}),
           UNCHANGED data \/ data' \in [P!Pipes -> 0 .. Capacity],
           UNCHANGED linked \/ linked' \in [{1, 2} -> {0} \cup P!Instances],
           UNCHANGED todo \/ todo' \in [P!Instances -> 0 .. MaxWrites],
           UNCHANGED answered \/ answered' \in [P!Instances -> Nat],
           UNCHANGED shown \/ shown' \in [P!Instances -> Nat],
           UNCHANGED blank \/ blank' \subseteq P!Instances,
           UNCHANGED killed \/ killed' \subseteq P!Procs
    PROVE  Always'
<1> DEFINE i == p[1]
<1>1. P!TypeOK /\ to \in Points
  BY DEF Always, Points
<1>2. /\ pc' \in [P!Procs -> Points] /\ pc[p] = from /\ pc'[p] = to
      /\ \A q \in P!Procs \ {p} : pc'[q] = pc[q]
  BY <1>1, PStep
<1>3. /\ i \in P!Instances /\ p \in {Parent(i), Child(i)} /\ Roles(i)
      /\ Parent(i) \in P!Procs /\ Child(i) \in P!Procs /\ Parent(i) # Child(i)
      /\ Parent(i)[2] = "client" /\ Child(i)[2] = "server"
  BY PShape DEF Always
<1>4. \A q \in P!Procs : P!Ended(q)' => ends'[q] = {}
  <2>1. ASSUME NEW q \in P!Procs \ {p}, P!Ended(q)' PROVE ends'[q] = {}
    BY <1>1, <1>2, <2>1, PNow DEF P!Ended
  <2>2. ASSUME P!Ended(p)' PROVE ends'[p] = {}
    BY <1>2, <1>3, <2>2 DEF P!Ended, Roles
  <2> QED
    BY <2>1, <2>2
<1>5. P!TypeOK'
  BY <1>1, <1>2, <1>4, PTyped
<1>6. Roles(i)'
  <2>1. pc[Parent(i)] \in Points /\ pc[Child(i)] \in Points
    BY <1>1, <1>3, PNow
  <2>2. CASE p = Parent(i)
    BY <1>2, <1>3, <2>2 DEF Roles, P!Ended
  <2>3. CASE p = Child(i)
    BY <1>2, <1>3, <2>3 DEF Roles, P!Ended
  <2> QED
    BY <1>3, <2>2, <2>3
<1>7. to \notin {"start", "make2"}
  OBVIOUS
<1> QED
  BY <1>1, <1>5, <1>6, <1>7, PMoves

LEMMA AClient ==
    ASSUME P!PipeCatAssumption, Always, NEW i \in P!Instances, P!Client(i)
    PROVE  Always'
<1>1. /\ Parent(i) \in P!Procs /\ P!TypeOK
      /\ Parent(i)[1] = i /\ Parent(i)[2] = "client" /\ Child(i) = <<i, "server">>
      /\ Parent(i) = <<i, "client">>
      /\ ends \in [P!Procs -> SUBSET P!Ends]
  BY PShape, PNow DEF Always, Parent, Child
<1>2. CASE P!NoInput(i)
  <2>1. UNCHANGED <<program, linked, made, overlap, killed, ends, data, todo, answered, shown>>
    BY <1>2 DEF P!NoInput, P!ctl
  <2>2. blank' \subseteq P!Instances
    BY <1>1, <1>2, PNow DEF P!NoInput
  <2>3. PICK to \in {"reap", "show"} : P!Step(Parent(i), "ask", to)
    BY <1>1, <1>2 DEF P!NoInput
  <2> QED
    BY <1>1, <2>1, <2>2, <2>3, PPlain
<1>3. CASE P!Ask(i)
  <2>1. /\ UNCHANGED <<program, linked, made, overlap, killed, ends, todo, answered, shown, blank>>
        /\ P!Step(Parent(i), "ask", "show") /\ P!Put(Parent(i))
    BY <1>1, <1>3 DEF P!Ask, P!ctl
  <2>2. data' \in [P!Pipes -> 0 .. Capacity]
    BY <1>1, <2>1, PPut
  <2> QED
    BY <1>1, <2>1, <2>2, PPlain
<1>4. CASE P!Show(i)
  <2>1. /\ UNCHANGED <<program, linked, made, overlap, killed, ends, todo, answered, blank>>
        /\ P!Step(Parent(i), "show", "show") /\ shown' = [shown EXCEPT ![i] = shown[i] + 1]
    BY <1>1, <1>4 DEF P!Show, P!ctl, P!AfterShow
  <2>2. PICK f \in P!From(Parent(i)) : data[f] > 0 /\ data' = [data EXCEPT ![f] = data[f] - 1]
    BY <1>1, <1>4 DEF P!Show
  <2>3. data' \in [P!Pipes -> 0 .. Capacity]
    <3>1. /\ f \in P!Pipes /\ data \in [P!Pipes -> 0 .. Capacity] /\ data \in [P!Pipes -> Nat]
          /\ Capacity \in Nat
      BY <1>1, PNow, PInstances DEF P!From
    <3>2. data[f] \in Nat /\ data[f] \in 0 .. Capacity
      BY <3>1
    <3>3. data[f] - 1 \in 0 .. Capacity
      BY <2>2, <3>1, <3>2
    <3> QED
      BY <2>2, <3>1, <3>3
  <2>4. shown' \in [P!Instances -> Nat]
    BY <1>1, <2>1, PNow
  <2> QED
    BY <1>1, <2>1, <2>3, <2>4, PPlain
<1>5. CASE P!ShowEnds(i)
  <2>1. /\ UNCHANGED <<program, linked, made, overlap, killed, ends, data, todo, answered, shown, blank>>
        /\ P!Step(Parent(i), "show", "reap")
    BY <1>1, <1>5 DEF P!ShowEnds, P!ctl
  <2> QED
    BY <1>1, <2>1, PPlain
<1>6. CASE P!Reap(i)
  <2>1. /\ UNCHANGED <<program, linked, made, overlap, killed, todo, answered, shown, blank>>
        /\ P!Step(Parent(i), "reap", IF program = "pipe" THEN "done" ELSE "unlink1")
        /\ P!Ended(Child(i)) /\ P!Leave(Parent(i))
    BY <1>1, <1>6 DEF P!Reap, P!ctl
  <2>2. /\ ends' \in [P!Procs -> SUBSET P!Ends] /\ data' \in [P!Pipes -> 0 .. Capacity]
        /\ ends'[Parent(i)] = {} /\ \A q \in P!Procs \ {Parent(i)} : ends'[q] = ends[q]
    BY <1>1, <2>1, PLeave
  <2> QED
    BY <1>1, <2>1, <2>2, PPlain
<1>7. ASSUME NEW n \in {1, 2}, P!Unlink(i, n) PROVE Always'
  <2>1. /\ UNCHANGED <<program, made, overlap, killed, ends, data, todo, answered, shown, blank>>
        /\ linked' = [linked EXCEPT ![n] = 0]
    BY <1>7 DEF P!Unlink
  <2>2. linked' \in [{1, 2} -> {0} \cup P!Instances]
    BY <1>1, <2>1, PNow
  <2>3. CASE P!Step(Parent(i), "unlink1", "unlink2")
    BY <1>1, <2>1, <2>2, <2>3, PPlain
  <2>4. CASE P!Step(Parent(i), "unlink2", "done")
    BY <1>1, <2>1, <2>2, <2>4, PPlain
  <2> QED
    BY <1>1, <1>7, <2>3, <2>4 DEF P!Unlink
<1> QED
  BY <1>2, <1>3, <1>4, <1>5, <1>6, <1>7 DEF P!Client

LEMMA PSame == ASSUME NEW S PROVE P!Cardinality(S) = Cardinality(S)
BY Zenon DEF P!Cardinality, Cardinality

LEMMA PFinite ==
    ASSUME P!PipeCatAssumption, NEW p
    PROVE  P!To(p) \subseteq P!Pipes /\ IsFiniteSet(P!To(p)) /\ Cardinality(P!To(p)) \in Nat
<1>1. IsFiniteSet({1, 2})
  <2>1. IsFiniteSet(1 .. 2)
    BY FS_Interval, 1 \in Int, 2 \in Int
  <2>2. 1 .. 2 = {1, 2}
    OBVIOUS
  <2> QED
    BY <2>1, <2>2
<1>2. IsFiniteSet(P!Pipes)
  BY <1>1, PInstances, FS_Product DEF P!Pipes
<1>3. P!To(p) \subseteq P!Pipes
  BY DEF P!To
<1> QED
  BY <1>2, <1>3, FS_Subset, FS_CardinalityType

LEMMA AServer ==
    ASSUME P!PipeCatAssumption, Always, NEW i \in P!Instances, P!Server(i)
    PROVE  Always'
<1>1. /\ Child(i) \in P!Procs /\ P!TypeOK
      /\ Child(i)[1] = i /\ Child(i)[2] = "server" /\ Child(i) = <<i, "server">>
      /\ ends \in [P!Procs -> SUBSET P!Ends]
  BY PShape, PNow DEF Always, Parent, Child
<1>2. CASE P!Read(i)
  <2>1. /\ UNCHANGED <<program, linked, made, overlap, killed, ends, answered, shown, blank>>
        /\ P!Step(Child(i), "read", "write")
    BY <1>1, <1>2 DEF P!Read, P!ctl
  <2>2. PICK f \in P!From(Child(i)) : data' = [data EXCEPT ![f] = 0]
    BY <1>1, <1>2 DEF P!Read
  <2>3. data' \in [P!Pipes -> 0 .. Capacity]
    <3>1. data \in [P!Pipes -> 0 .. Capacity]
      BY <1>1, PNow
    <3>2. Capacity \in Nat /\ 0 \in 0 .. Capacity
      BY PInstances
    <3> QED
      BY <2>2, <3>1, <3>2
  <2>4. todo' \in [P!Instances -> 0 .. MaxWrites]
    BY <1>1, <1>2, PNow DEF P!Read
  <2> QED
    BY <1>1, <2>1, <2>3, <2>4, PPlain
<1>3. CASE P!Write(i)
  <2>1. /\ UNCHANGED <<program, linked, made, overlap, killed, ends, shown, blank>>
        /\ P!Step(Child(i), "write", "write") /\ P!Put(Child(i)) /\ todo[i] > 0
        /\ todo' = [todo EXCEPT ![i] = todo[i] - 1]
        /\ answered' = [answered EXCEPT ![i] = answered[i] + Cardinality(P!To(Child(i)))]
    BY <1>1, <1>3, PSame DEF P!Write, P!ctl
  <2>2. data' \in [P!Pipes -> 0 .. Capacity]
    BY <1>1, <2>1, PPut
  <2>3. todo' \in [P!Instances -> 0 .. MaxWrites]
    <3>1. /\ todo \in [P!Instances -> 0 .. MaxWrites] /\ todo \in [P!Instances -> Nat] /\ MaxWrites \in Nat
      BY <1>1, PNow, PInstances
    <3>2. todo[i] \in Nat /\ todo[i] \in 0 .. MaxWrites
      BY <3>1
    <3>3. todo[i] - 1 \in 0 .. MaxWrites
      BY <2>1, <3>1, <3>2
    <3> QED
      BY <2>1, <3>1, <3>3
  <2>4. answered' \in [P!Instances -> Nat]
    <3>1. answered \in [P!Instances -> Nat] /\ Cardinality(P!To(Child(i))) \in Nat
      BY <1>1, PNow, PFinite
    <3> QED
      BY <2>1, <3>1
  <2> QED
    BY <1>1, <2>1, <2>2, <2>3, <2>4, PPlain
<1>4. CASE P!ServerEnds(i)
  <2>1. /\ UNCHANGED <<program, linked, made, overlap, killed, todo, answered, shown, blank>>
        /\ P!Leave(Child(i))
    BY <1>1, <1>4 DEF P!ServerEnds, P!ctl
  <2>2. /\ ends' \in [P!Procs -> SUBSET P!Ends] /\ data' \in [P!Pipes -> 0 .. Capacity]
        /\ ends'[Child(i)] = {} /\ \A q \in P!Procs \ {Child(i)} : ends'[q] = ends[q]
    BY <1>1, <2>1, PLeave
  <2>3. PICK from \in {"read", "write"} : P!Step(Child(i), from, "done")
    BY <1>1, <1>4 DEF P!ServerEnds
  <2> QED
    BY <1>1, <2>1, <2>2, <2>3, PPlain
<1> QED
  BY <1>2, <1>3, <1>4 DEF P!Server

LEMMA ADies ==
    ASSUME P!PipeCatAssumption, Always, NEW p \in P!Procs, P!Sigpipe(p) \/ P!Killed(p)
    PROVE  Always'
<1>1. /\ UNCHANGED <<program, linked, made, overlap, todo, answered, shown, blank>>
      /\ P!Leave(p) /\ P!TypeOK
  BY DEF Always, P!Sigpipe, P!Killed, P!ctl
<1>2. /\ ends' \in [P!Procs -> SUBSET P!Ends] /\ data' \in [P!Pipes -> 0 .. Capacity]
      /\ ends'[p] = {} /\ \A q \in P!Procs \ {p} : ends'[q] = ends[q]
  BY <1>1, PLeave
<1>3. killed' \subseteq P!Procs
  BY <1>1, PNow DEF P!Sigpipe, P!Killed, P!ctl
<1>4. P!Step(p, pc[p], "dead") /\ ~P!Ended(p) /\ pc[p] # "start"
  BY DEF P!Sigpipe, P!Killed, P!Step, P!Ended
<1> QED
  BY <1>1, <1>2, <1>3, <1>4, PPlain

(* A clean run.  On the FIFOs an instance that is not idle is alone.       *)
Sole(i) == program = "fifo" => \A j \in P!Instances \ {i} : Idle(j)

LEMMA TOwn ==
    ASSUME P!PipeCatAssumption, Always, Tidy, NEW i \in P!Instances
    PROVE  /\ ~Idle(i) => Sole(i)
           /\ Own(i, 1) # Own(i, 2)
           /\ \A n \in {1, 2} : program = "pipe" => Own(i, n) = <<n, i>> /\ Own(i, n) \in P!Pipes
           /\ \A n \in {1, 2} : program = "fifo" /\ linked[n] # 0 => Own(i, n) \in P!Pipes
           /\ pc[Parent(i)] \in {"fork", "close", "open1", "wait1", "open2", "wait2", "ask", "show",
                                 "reap"} => ~Idle(i) /\ \A n \in {1, 2} : Own(i, n) \in P!Pipes
           /\ ~P!Ended(Child(i)) => ~Idle(i) /\ \A n \in {1, 2} : Own(i, n) \in P!Pipes
<1>1. ~Idle(i) => Sole(i)
  BY DEF Tidy, Alone, Sole
<1>2. Own(i, 1) # Own(i, 2)
  BY DEF Own
<1>3. ASSUME NEW n \in {1, 2}
      PROVE  /\ program = "pipe" => Own(i, n) = <<n, i>> /\ Own(i, n) \in P!Pipes
             /\ program = "fifo" /\ linked[n] # 0 => Own(i, n) \in P!Pipes
  <2>1. linked[n] \in {0} \cup P!Instances
    BY PNow DEF Always
  <2> QED
    BY <2>1 DEF Own, P!Pipes
<1>4. Roles(i) /\ Together(i) /\ Names(i) /\ program \in {"pipe", "fifo"}
  BY PNow DEF Always, Tidy
<1>5. pc[Parent(i)] \in {"fork", "close", "open1", "wait1", "open2", "wait2", "ask", "show", "reap"}
      => ~Idle(i) /\ \A n \in {1, 2} : Own(i, n) \in P!Pipes
  <2>1. pc[Parent(i)] \in {"fork", "close", "open1", "wait1", "open2", "wait2", "ask", "show", "reap"}
        => ~Idle(i) /\ (program = "fifo" => \A n \in {1, 2} : linked[n] # 0)
    BY <1>4 DEF Names, Idle
  <2> QED
    BY <1>3, <1>4, <2>1
<1>6. ~P!Ended(Child(i)) => pc[Parent(i)] \in {"fork", "close", "open1", "wait1", "open2", "wait2",
                                               "ask", "show", "reap"}
  BY <1>4 DEF Roles, Together, P!Ended
<1> QED
  BY <1>1, <1>2, <1>3, <1>5, <1>6

(* Who has which ends.                                                     *)
LEMMA THas ==
    ASSUME P!PipeCatAssumption, Always, Tidy, NEW i \in P!Instances
    PROVE  /\ pc[Parent(i)] \in {"fork", "close"} /\ program = "pipe"
              => ends[Parent(i)] = {"r", "w"} \X {Own(i, 1), Own(i, 2)}
           /\ pc[Parent(i)] \in {"wait1", "open2"} => ends[Parent(i)] = {<<"w", Own(i, 1)>>}
           /\ pc[Parent(i)] \in {"wait2", "ask", "show", "reap"}
              => ends[Parent(i)] = {<<"w", Own(i, 1)>>, <<"r", Own(i, 2)>>}
           /\ pc[Parent(i)] \in {"start", "make2", "open1", "unlink1", "unlink2", "done", "dead"}
              \/ (pc[Parent(i)] = "fork" /\ program = "fifo") => ends[Parent(i)] = {}
           /\ pc[Child(i)] = "close" => ends[Child(i)] = {"r", "w"} \X {Own(i, 1), Own(i, 2)}
           /\ pc[Child(i)] \in {"wait1", "open2"} => ends[Child(i)] = {<<"r", Own(i, 1)>>}
           /\ pc[Child(i)] \in {"wait2", "read", "write"}
              => ends[Child(i)] = {<<"r", Own(i, 1)>>, <<"w", Own(i, 2)>>}
           /\ pc[Child(i)] \in {"none", "open1", "done", "dead"} => ends[Child(i)] = {}
<1>1. /\ Parent(i) \in P!Procs /\ Child(i) \in P!Procs /\ Parent(i)[1] = i /\ Child(i)[1] = i
      /\ Parent(i)[2] = "client" /\ Child(i)[2] = "server"
  BY PShape
<1>2. /\ End(Parent(i), 1) = <<"w", Own(i, 1)>> /\ End(Parent(i), 2) = <<"r", Own(i, 2)>>
      /\ End(Child(i), 1) = <<"r", Own(i, 1)>> /\ End(Child(i), 2) = <<"w", Own(i, 2)>>
  BY <1>1 DEF End, P!Mode
<1>3. Exact(Parent(i)) /\ Exact(Child(i)) /\ Roles(i)
  BY <1>1 DEF Tidy, Always
<1> QED
  BY <1>1, <1>2, <1>3 DEF Exact, Roles

LEMMA TAlien ==
    ASSUME P!PipeCatAssumption, Always, Tidy, NEW i \in P!Instances, Sole(i),
           NEW q \in P!Procs, q[1] # i, NEW n \in {1, 2}, NEW m \in {"r", "w"}
    PROVE  <<m, Own(i, n)>> \notin ends[q]
<1> DEFINE j == q[1]
<1>1. j \in P!Instances /\ (q = Parent(j) \/ q = Child(j)) /\ Exact(q) /\ program \in {"pipe", "fifo"}
  BY PShape, PNow DEF Tidy, Always
<1>2. CASE program = "fifo"
  BY <1>1, <1>2, THas DEF Sole, Idle, P!Ended
<1>3. CASE program = "pipe"
  <2>1. Own(i, n) = <<n, i>> /\ Own(j, 1) = <<1, j>> /\ Own(j, 2) = <<2, j>>
    BY <1>3 DEF Own
  <2>2. i # j
    OBVIOUS
  <2> HIDE DEF j
  <2>3. ASSUME <<m, Own(i, n)>> \in ends[q] PROVE Own(i, n) \in {Own(j, 1), Own(j, 2)}
    <3>1. ends[q] \in {{"r", "w"} \X {Own(j, 1), Own(j, 2)}, {End(q, 1)}, {End(q, 1), End(q, 2)}, {}}
      BY <1>1 DEF Exact, j
    <3>2. End(q, 1)[2] = Own(j, 1) /\ End(q, 2)[2] = Own(j, 2)
      BY DEF End, j
    <3> QED
      BY <2>3, <3>1, <3>2
  <2> QED
    BY <2>1, <2>2, <2>3
<1> QED
  BY <1>1, <1>2, <1>3

LEMMA TUsers ==
    ASSUME P!PipeCatAssumption, Always, Tidy, NEW i \in P!Instances, Sole(i), NEW n \in {1, 2}
    PROVE  /\ P!Readers(Own(i, n)) = {q \in {Parent(i), Child(i)} : <<"r", Own(i, n)>> \in ends[q]}
           /\ P!Writers(Own(i, n)) = {q \in {Parent(i), Child(i)} : <<"w", Own(i, n)>> \in ends[q]}
<1>1. /\ Parent(i) \in P!Procs /\ Child(i) \in P!Procs
      /\ \A q \in P!Procs : q \in {Parent(i), Child(i)} \/ q[1] # i
  BY PShape
<1>2. \A q \in P!Procs : q \notin {Parent(i), Child(i)} =>
          <<"r", Own(i, n)>> \notin ends[q] /\ <<"w", Own(i, n)>> \notin ends[q]
  BY <1>1, TAlien
<1> QED
  BY <1>1, <1>2, Zenon DEF P!Readers, P!Writers

(* What a process has open stays what it should have open.                 *)
LEMMA TExact ==
    ASSUME NEW q, Exact(q), UNCHANGED program, pc'[q] = pc[q], ends'[q] = ends[q],
           Own(q[1], 1)' = Own(q[1], 1), Own(q[1], 2)' = Own(q[1], 2)
    PROVE  Exact(q)'
<1>1. End(q, 1)' = End(q, 1) /\ End(q, 2)' = End(q, 2)
  BY DEF End, P!Mode
<1> QED
  BY <1>1 DEF Exact

(* A step of one instance.                                                 *)
LEMMA TFrame ==
    ASSUME P!PipeCatAssumption, Always, Tidy, NEW i \in P!Instances, Sole(i), UNCHANGED program,
           \A q \in P!Procs : q[1] # i => pc'[q] = pc[q] /\ ends'[q] = ends[q],
           \A j \in P!Instances \ {i} : answered'[j] = answered[j] /\ shown'[j] = shown[j],
           program = "pipe" => \A j \in P!Instances \ {i}, n \in {1, 2} : data'[<<n, j>>] = data[<<n, j>>],
           Exact(Parent(i))', Exact(Child(i))', Names(i)', Together(i)', Whole(i)', Unheld'
    PROVE  Tidy'
<1>1. /\ \A j \in P!Instances : Parent(j) \in P!Procs /\ Child(j) \in P!Procs
      /\ \A j \in P!Instances \ {i} : Parent(j)[1] # i /\ Child(j)[1] # i
      /\ \A q \in P!Procs : q \in {Parent(i), Child(i)} \/ (q[1] \in P!Instances \ {i})
      /\ program \in {"pipe", "fifo"}
  BY PShape, PNow DEF Always
<1>2. \A j \in P!Instances \ {i} : pc'[Parent(j)] = pc[Parent(j)] /\ pc'[Child(j)] = pc[Child(j)]
  BY <1>1
<1>3. \A j \in P!Instances \ {i} : Idle(j)' <=> Idle(j)
  BY <1>2 DEF Idle, P!Ended
<1>4. Alone'
  BY <1>3 DEF Sole, Alone, P!Instances
<1>5. ASSUME NEW j \in P!Instances \ {i}
      PROVE  Names(j)' /\ Together(j)' /\ Whole(j)'
  <2>1. Names(j) /\ Together(j) /\ Whole(j)
    BY DEF Tidy
  <2>2. CASE program = "pipe"
    <3>1. data'[Own(j, 1)'] = data[Own(j, 1)] /\ data'[Own(j, 2)'] = data[Own(j, 2)]
      BY <2>2 DEF Own
    <3> QED
      BY <1>2, <2>1, <2>2, <3>1 DEF Names, Together, Whole, P!Ended
  <2>3. CASE program = "fifo"
    <3>1. Idle(j) /\ Idle(j)'
      BY <1>3, <2>3 DEF Sole
    <3> QED
      BY <1>2, <2>1, <3>1 DEF Names, Together, Whole, Idle, P!Ended
  <2> QED
    BY <1>1, <2>2, <2>3
<1>6. ASSUME NEW q \in P!Procs, q[1] # i PROVE Exact(q)'
  <2>1. Exact(q) /\ pc'[q] = pc[q] /\ ends'[q] = ends[q] /\ q[1] \in P!Instances
    <3>1. Exact(q)
      BY DEF Tidy
    <3>2. q[1] \in P!Instances
      BY PShape
    <3>3. pc'[q] = pc[q] /\ ends'[q] = ends[q]
      BY <1>6, Zenon
    <3> QED
      BY <3>1, <3>2, <3>3, Zenon
  <2>2. CASE program = "pipe"
    <3>1. Own(q[1], 1)' = Own(q[1], 1) /\ Own(q[1], 2)' = Own(q[1], 2)
      BY <2>2 DEF Own
    <3> QED
      BY <2>1, <3>1, TExact
  <2>3. CASE program = "fifo"
    <3>1. pc[q] \in {"start", "none", "done", "dead"}
      BY <1>1, <1>6, <2>1, <2>3, PShape DEF Sole, Idle, P!Ended
    <3> QED
      BY <2>1, <3>1 DEF Exact
  <2> QED
    BY <1>1, <2>2, <2>3
<1>7. \A q \in P!Procs : Exact(q)'
  BY <1>1, <1>6
<1> QED
  BY <1>4, <1>5, <1>7, Zenon DEF Tidy, P!Procs, P!Instances

LEMMA TUnheld ==
    ASSUME Unheld, \A q \in P!Procs : ends[q] \subseteq ends'[q],
           \A f \in P!Pipes : data'[f] \in {data[f], 0} \/ ~NobodyHas(f)'
    PROVE  Unheld'
<1>1. ASSUME NEW f \in P!Pipes, NobodyHas(f)' PROVE data'[f] = 0
  <2>1. NobodyHas(f)
    BY <1>1 DEF NobodyHas, P!Procs, P!Instances
  <2> QED
    BY <1>1, <2>1 DEF Unheld
<1> QED
  BY <1>1, Zenon DEF Unheld, P!Pipes, P!Instances

(* The steps up to the fork.                                               *)
LEMMA TStarts ==
    ASSUME P!PipeCatAssumption, Always, Tidy, Clean', NEW i \in P!Instances,
           overlap' = (overlap \/ \E q \in P!Procs : q[1] # i /\ ~P!Ended(q) /\ pc[q] # "start"),
           UNCHANGED program
    PROVE  Sole(i)
<1>1. program = "fifo" => ~\E q \in P!Procs : q[1] # i /\ ~P!Ended(q) /\ pc[q] # "start"
  BY DEF Clean, P!Sharing
<1>2. ASSUME NEW j \in P!Instances \ {i}, program = "fifo" PROVE Idle(j)
  <2>1. /\ Parent(j) \in P!Procs /\ Child(j) \in P!Procs /\ Parent(j)[1] # i /\ Child(j)[1] # i
    BY PShape
  <2>2. P!Ended(Parent(j)) \/ pc[Parent(j)] = "start"
    BY <1>1, <1>2, <2>1
  <2>3. P!Ended(Child(j)) \/ pc[Child(j)] = "start"
    BY <1>1, <1>2, <2>1
  <2>4. Roles(j)
    BY DEF Always
  <2> QED
    BY <2>2, <2>3, <2>4 DEF Idle, P!Ended, Roles
<1> QED
  BY <1>2 DEF Sole

LEMMA TNobody ==
    ASSUME P!PipeCatAssumption, Always, Tidy, NEW i \in P!Instances, Sole(i),
           ends[Parent(i)] = {}, ends[Child(i)] = {}, NEW n \in {1, 2}
    PROVE  /\ Own(i, n) \in P!Pipes => data[Own(i, n)] = 0
           /\ program = "fifo" => \A f \in P!Pipes : data[f] = 0
<1>1. \A q \in P!Procs : q[1] # i \/ ends[q] = {}
  BY PShape
<1>2. Own(i, n) \in P!Pipes => data[Own(i, n)] = 0
  <2>1. NobodyHas(Own(i, n))
    BY <1>1, TAlien DEF NobodyHas
  <2> QED
    BY <2>1 DEF Tidy, Unheld
<1>3. ASSUME program = "fifo", NEW f \in P!Pipes PROVE data[f] = 0
  <2>1. ASSUME NEW q \in P!Procs, q[1] # i PROVE ends[q] = {}
    BY <1>3, <2>1, PShape, THas DEF Sole, Idle, P!Ended
  <2>2. NobodyHas(f)
    BY <1>1, <2>1 DEF NobodyHas
  <2> QED
    BY <1>3, <2>2 DEF Tidy, Unheld
<1> QED
  BY <1>2, <1>3

LEMMA TMakePipes ==
    ASSUME P!PipeCatAssumption, Always, Tidy, Clean', NEW i \in P!Instances, P!MakePipes(i)
    PROVE  Tidy'
<1>1. /\ program = "pipe" /\ P!Step(Parent(i), "start", "fork")
      /\ ends' = [ends EXCEPT ![Parent(i)] = {"r", "w"} \X ({1, 2} \X {i})]
      /\ UNCHANGED <<program, linked, made, killed, data, todo, answered, shown, blank>>
      /\ overlap' = (overlap \/ \E q \in P!Procs : q[1] # i /\ ~P!Ended(q) /\ pc[q] # "start")
  BY DEF P!MakePipes, P!Start, Parent
<1>2. /\ Parent(i) \in P!Procs /\ Child(i) \in P!Procs /\ Parent(i)[1] = i /\ Child(i)[1] = i
      /\ Parent(i) # Child(i) /\ P!TypeOK /\ "fork" \in Points
  BY PShape DEF Always, Points
<1>3. /\ pc[Parent(i)] = "start" /\ pc'[Parent(i)] = "fork"
      /\ \A q \in P!Procs \ {Parent(i)} : pc'[q] = pc[q]
  BY <1>1, <1>2, PStep
<1>4. /\ ends'[Parent(i)] = {"r", "w"} \X {Own(i, 1)', Own(i, 2)'}
      /\ \A q \in P!Procs \ {Parent(i)} : ends'[q] = ends[q]
  <2>1. {1, 2} \X {i} = {Own(i, 1)', Own(i, 2)'}
    BY <1>1 DEF Own
  <2> QED
    BY <1>1, <1>2, <2>1, PNow
<1>5. /\ Sole(i) /\ pc[Child(i)] = "none" /\ ends[Parent(i)] = {} /\ ends[Child(i)] = {}
      /\ answered[i] = 0 /\ shown[i] = 0
  <2>1. Roles(i) /\ Whole(i)
    BY DEF Always, Tidy
  <2>2. pc[Child(i)] = "none" /\ answered[i] = 0 /\ shown[i] = 0
    BY <1>3, <2>1 DEF Roles, Whole
  <2> QED
    BY <1>1, <1>3, <2>2, THas DEF Sole
<1>6. data[Own(i, 1)] = 0 /\ data[Own(i, 2)] = 0 /\ Own(i, 1)' = Own(i, 1) /\ Own(i, 2)' = Own(i, 2)
  <2>1. Own(i, 1) \in P!Pipes /\ Own(i, 2) \in P!Pipes
    BY <1>1, TOwn
  <2> QED
    BY <1>1, <1>5, <2>1, TNobody DEF Own
<1>7. pc'[Child(i)] = "none" /\ ends'[Child(i)] = {}
  BY <1>2, <1>3, <1>4, <1>5
<1>8. Exact(Parent(i))' /\ Exact(Child(i))'
  BY <1>1, <1>2, <1>3, <1>4, <1>7 DEF Exact
<1>9. Names(i)' /\ Together(i)' /\ Whole(i)'
  BY <1>1, <1>3, <1>5, <1>6, <1>7 DEF Names, Together, Whole
<1>10. Unheld'
  <2>1. \A q \in P!Procs : ends[q] \subseteq ends'[q]
    BY <1>4, <1>5
  <2> QED
    BY <1>1, <2>1, TUnheld DEF Tidy
<1>11. \A q \in P!Procs : q[1] # i => pc'[q] = pc[q] /\ ends'[q] = ends[q]
  BY <1>2, <1>3, <1>4
<1> QED
  BY <1>1, <1>5, <1>8, <1>9, <1>10, <1>11, TFrame

LEMMA TMakeFifo ==
    ASSUME P!PipeCatAssumption, Always, Tidy, NEW i \in P!Instances, NEW n \in {1, 2}, Sole(i),
           P!MakeFifo(n), program = "fifo", Always',
           NEW from, NEW to \in Points, P!Step(Parent(i), from, to),
           <<n, from, to>> \in {<<1, "start", "make2">>, <<2, "make2", "fork">>}
    PROVE  Tidy'
<1>1. /\ made' = [made EXCEPT ![n] = IF linked[n] = 0 THEN made[n] + 1 ELSE made[n]]
      /\ linked' = [linked EXCEPT ![n] = IF linked[n] = 0 THEN made'[n] ELSE linked[n]]
      /\ UNCHANGED <<program, killed, ends, data, todo, answered, shown, blank>>
  BY DEF P!MakeFifo
<1>2. /\ Parent(i) \in P!Procs /\ Child(i) \in P!Procs /\ Parent(i)[1] = i /\ Child(i)[1] = i
      /\ Parent(i) # Child(i) /\ P!TypeOK /\ P!TypeOK'
  BY PShape DEF Always
<1>3. /\ pc[Parent(i)] = from /\ pc'[Parent(i)] = to
      /\ \A q \in P!Procs \ {Parent(i)} : pc'[q] = pc[q]
  BY <1>1, <1>2, PStep
<1>4. /\ pc[Child(i)] = "none" /\ ends[Parent(i)] = {} /\ ends[Child(i)] = {}
      /\ pc'[Child(i)] = "none" /\ answered[i] = 0 /\ shown[i] = 0
  <2>1. Roles(i) /\ Whole(i)
    BY DEF Always, Tidy
  <2>2. pc[Child(i)] = "none" /\ answered[i] = 0 /\ shown[i] = 0
    BY <1>3, <2>1 DEF Roles, Whole
  <2> QED
    BY <1>2, <1>3, <2>2, THas
<1>5. linked'[n] # 0 /\ (n = 2 => linked'[1] # 0)
  <2>1. linked \in [{1, 2} -> {0} \cup P!Instances] /\ made \in [{1, 2} -> Nat]
    BY <1>2, PNow
  <2>2. made[n] \in Nat /\ made[n] + 1 # 0
    BY <2>1
  <2>3. linked'[n] # 0
    BY <1>1, <2>1, <2>2
  <2>4. n = 2 => linked[1] # 0
    BY <1>3 DEF Tidy, Names, Idle
  <2> QED
    BY <1>1, <2>1, <2>3, <2>4
<1>6. \A f \in P!Pipes : data'[f] = 0
  BY <1>1, <1>4, TNobody
<1>7. n = 2 => Own(i, 1)' \in P!Pipes /\ Own(i, 2)' \in P!Pipes
  <2>1. linked'[1] \in {0} \cup P!Instances /\ linked'[2] \in {0} \cup P!Instances
    BY <1>2, Zenon DEF P!TypeOK, P!Instances
  <2> QED
    BY <1>1, <1>5, <2>1 DEF Own, P!Pipes
<1>8. Exact(Parent(i))' /\ Exact(Child(i))'
  BY <1>1, <1>2, <1>3, <1>4 DEF Exact
<1>9. Names(i)' /\ Together(i)' /\ Whole(i)'
  BY <1>1, <1>3, <1>4, <1>5, <1>6, <1>7 DEF Names, Together, Whole
<1>10. Unheld'
  BY <1>1, TUnheld DEF Tidy
<1>11. \A q \in P!Procs : q[1] # i => pc'[q] = pc[q] /\ ends'[q] = ends[q]
  BY <1>1, <1>2, <1>3
<1> QED
  BY <1>1, <1>8, <1>9, <1>10, <1>11, TFrame

LEMMA TFork ==
    ASSUME P!PipeCatAssumption, Always, Tidy, NEW i \in P!Instances, P!Fork(i) \/ P!ForkFails(i)
    PROVE  Tidy'
<1> DEFINE after == IF program = "pipe" THEN "close" ELSE "open1"
<1>1. /\ UNCHANGED <<program, linked, made, overlap, killed, data, todo, answered, shown, blank>>
      /\ Parent(i) \in P!Procs /\ Child(i) \in P!Procs /\ Parent(i)[1] = i /\ Child(i)[1] = i
      /\ Parent(i) # Child(i) /\ P!TypeOK /\ after \in Points
  BY PShape DEF P!Fork, P!ForkFails, P!ctl, Always, Points
<1>2. /\ pc[Parent(i)] = "fork" /\ pc'[Parent(i)] = after
      /\ ends'[Parent(i)] = ends[Parent(i)]
      /\ \/ pc'[Child(i)] = pc[Child(i)] /\ ends'[Child(i)] = ends[Child(i)]
         \/ pc'[Child(i)] = after /\ ends'[Child(i)] = ends[Parent(i)]
      /\ \A q \in P!Procs \ {Parent(i), Child(i)} : pc'[q] = pc[q] /\ ends'[q] = ends[q]
  <2>1. pc \in [P!Procs -> Points] /\ ends \in [P!Procs -> SUBSET P!Ends]
    BY <1>1, PNow
  <2>2. CASE P!Fork(i)
    <3>1. /\ pc[Parent(i)] = "fork"
          /\ pc' = [pc EXCEPT ![Parent(i)] = after, ![Child(i)] = after]
          /\ ends' = [ends EXCEPT ![Child(i)] = ends[Parent(i)]]
      BY <2>2 DEF P!Fork, Parent, Child, P!AfterFork
    <3> QED
      BY <1>1, <2>1, <3>1
  <2>3. CASE P!ForkFails(i)
    <3>1. pc[Parent(i)] = "fork" /\ pc' = [pc EXCEPT ![Parent(i)] = after] /\ ends' = ends
      BY <2>3 DEF P!ForkFails, P!Step, Parent, P!AfterFork
    <3> QED
      BY <1>1, <2>1, <3>1
  <2> QED
    BY <2>2, <2>3
<1>3. /\ Sole(i) /\ pc[Child(i)] = "none" /\ ends[Child(i)] = {} /\ program \in {"pipe", "fifo"}
      /\ Whole(i) /\ Names(i) /\ ~Idle(i) /\ Own(i, 1)' = Own(i, 1) /\ Own(i, 2)' = Own(i, 2)
      /\ program = "pipe" => ends[Parent(i)] = {"r", "w"} \X {Own(i, 1), Own(i, 2)}
      /\ program = "fifo" => ends[Parent(i)] = {}
  <2>1. Roles(i) /\ Whole(i) /\ Names(i)
    BY DEF Always, Tidy
  <2>2. pc[Child(i)] = "none" /\ ~Idle(i)
    BY <1>2, <2>1 DEF Roles, Idle
  <2> QED
    BY <1>1, <1>2, <2>1, <2>2, THas, TOwn, PNow DEF Own
<1>4. Exact(Parent(i))' /\ Exact(Child(i))'
  <2>1. CASE program = "pipe"
    BY <1>1, <1>2, <1>3, <2>1 DEF Exact
  <2>2. CASE program = "fifo"
    BY <1>1, <1>2, <1>3, <2>2 DEF Exact
  <2> QED
    BY <1>3, <2>1, <2>2
<1>5. Names(i)' /\ Together(i)' /\ Whole(i)'
  BY <1>1, <1>2, <1>3 DEF Names, Together, Whole
<1>6. \A q \in P!Procs : ends[q] \subseteq ends'[q]
  BY <1>2, <1>3
<1>7. Unheld'
  BY <1>1, <1>6, TUnheld DEF Tidy
<1>8. \A q \in P!Procs : q[1] # i => pc'[q] = pc[q] /\ ends'[q] = ends[q]
  BY <1>1, <1>2
<1> HIDE DEF after
<1> QED
  BY <1>1, <1>3, <1>4, <1>5, <1>7, <1>8, TFrame

LEMMA TCloseOthers ==
    ASSUME P!PipeCatAssumption, Always, Tidy, NEW i \in P!Instances, NEW p \in {Parent(i), Child(i)},
           P!CloseOthers(p)
    PROVE  Tidy'
<1>1. /\ P!Step(p, "close", P!Work(p)) /\ ends' = [ends EXCEPT ![p] = P!Kept(p)]
      /\ UNCHANGED <<program, linked, made, overlap, killed, data, todo, answered, shown, blank>>
  BY DEF P!CloseOthers, P!ctl
<1>2. /\ Parent(i) \in P!Procs /\ Child(i) \in P!Procs /\ Parent(i)[1] = i /\ Child(i)[1] = i
      /\ Parent(i)[2] = "client" /\ Child(i)[2] = "server"
      /\ Parent(i) # Child(i) /\ P!TypeOK /\ p \in P!Procs
  BY PShape DEF Always
<1>3. P!Work(p) = (IF p = Parent(i) THEN "ask" ELSE "read") /\ P!Work(p) \in Points
  BY <1>2 DEF P!Work, Points
<1>4. /\ pc[p] = "close" /\ pc'[p] = P!Work(p) /\ ends'[p] = P!Kept(p)
      /\ \A q \in P!Procs \ {p} : pc'[q] = pc[q] /\ ends'[q] = ends[q]
  BY <1>1, <1>2, <1>3, PStep, PNow
<1>5. /\ ~Idle(i) /\ Sole(i) /\ ends[p] = {"r", "w"} \X {Own(i, 1), Own(i, 2)}
      /\ Own(i, 1)' = Own(i, 1) /\ Own(i, 2)' = Own(i, 2) /\ program = "pipe"
      /\ Own(i, 1)[1] = 1 /\ Own(i, 2)[1] = 2
  <2>1. Roles(i)
    BY DEF Always
  <2>2. program = "pipe" /\ ~Idle(i)
    BY <1>4, <2>1 DEF Roles, Idle, P!Ended
  <2> QED
    BY <1>1, <1>4, <2>2, THas DEF Own, Sole
<1>6. P!Kept(p) = {<<P!Mode(p, 1), Own(i, 1)>>, <<P!Mode(p, 2), Own(i, 2)>>}
  <2>1. P!Mode(p, 1) \in {"r", "w"} /\ P!Mode(p, 2) \in {"r", "w"}
    BY DEF P!Mode
  <2>2. \A m \in {"r", "w"}, f \in {Own(i, 1), Own(i, 2)} :
           <<m, f>> \in P!Kept(p) <=> m = P!Mode(p, f[1])
    BY <1>5 DEF P!Kept
  <2>3. \A e \in P!Kept(p) : \E m \in {"r", "w"}, f \in {Own(i, 1), Own(i, 2)} : e = <<m, f>>
    BY <1>5 DEF P!Kept
  <2> QED
    BY <1>5, <2>1, <2>2, <2>3
<1>7. Exact(Parent(i))' /\ Exact(Child(i))'
  <2>1. /\ End(p, 1)' = <<P!Mode(p, 1), Own(i, 1)>> /\ End(p, 2)' = <<P!Mode(p, 2), Own(i, 2)>>
    BY <1>2, <1>5 DEF End, P!Mode
  <2>2. Exact(p)'
    BY <1>3, <1>4, <1>6, <2>1 DEF Exact
  <2>3. ASSUME NEW q \in {Parent(i), Child(i)}, q # p PROVE Exact(q)'
    <3>1. Exact(q)
      BY <1>2 DEF Tidy
    <3>2. q \in P!Procs /\ q[1] = i
      BY <1>2
    <3> QED
      BY <1>1, <1>4, <1>5, <2>3, <3>1, <3>2, TExact
  <2> QED
    BY <2>2, <2>3
<1>8. Names(i)' /\ Together(i)' /\ Whole(i)'
  <2>1. Names(i) /\ Together(i) /\ Whole(i) /\ Roles(i)
    BY DEF Always, Tidy
  <2>2. CASE p = Parent(i)
    BY <1>1, <1>2, <1>3, <1>4, <1>5, <2>1, <2>2 DEF Names, Together, Whole, Roles, P!Ended
  <2>3. CASE p = Child(i)
    BY <1>1, <1>2, <1>3, <1>4, <1>5, <2>1, <2>3 DEF Names, Together, Whole, Roles, P!Ended
  <2> QED
    BY <2>2, <2>3
<1>9. Unheld'
  <2>1. ASSUME NEW f \in P!Pipes, NobodyHas(f)' PROVE data'[f] = 0
    <3>1. \A q \in P!Procs : <<"r", f>> \notin ends'[q] /\ <<"w", f>> \notin ends'[q]
      BY <2>1, Zenon DEF NobodyHas, P!Procs, P!Instances
    <3>2. f # Own(i, 1) /\ f # Own(i, 2)
      BY <1>2, <1>4, <1>6, <3>1 DEF P!Mode
    <3>3. NobodyHas(f)
      BY <1>4, <1>5, <3>1, <3>2 DEF NobodyHas
    <3> QED
      BY <1>1, <3>3 DEF Tidy, Unheld
  <2> QED
    BY <2>1, Zenon DEF Unheld, P!Pipes, P!Instances
<1>10. \A q \in P!Procs : q[1] # i => pc'[q] = pc[q] /\ ends'[q] = ends[q]
  BY <1>2, <1>4
<1> QED
  BY <1>1, <1>5, <1>7, <1>8, <1>9, <1>10, TFrame

(* Only the other process of the instance can be the partner of an open.   *)
LEMMA TOpens ==
    ASSUME P!PipeCatAssumption, Always, Tidy, NEW i \in P!Instances, NEW n \in {1, 2},
           NEW p \in {Parent(i), Child(i)}, NEW o \in {Parent(i), Child(i)}, o # p, P!Open(p, n)
    PROVE  /\ program = "fifo" /\ Sole(i) /\ pc[p] = IF n = 1 THEN "open1" ELSE "open2"
           /\ pc[o] \in IF n = 1 THEN {"none", "open1", "wait1"} ELSE {"open2", "wait2"}
           /\ pc'[p] = IF pc[o] = P!Waiting(n) THEN P!Opened(p, n) ELSE P!Waiting(n)
           /\ pc'[o] = IF pc[o] = P!Waiting(n) THEN P!Opened(o, n) ELSE pc[o]
           /\ ends'[p] = ends[p] \cup {End(p, n)}
           /\ \A q \in P!Procs \ {p} : ends'[q] = ends[q]
           /\ \A q \in P!Procs \ {p, o} : pc'[q] = pc[q]
           /\ UNCHANGED <<program, linked, made, overlap, killed, data, todo, answered, shown, blank>>
<1> DEFINE m == P!Mode(p, n)
           f == <<n, linked[n]>>
           partners == {q \in P!Procs : <<P!Other(m), f>> \in ends[q]}
<1>1. /\ pc[p] = IF n = 1 THEN "open1" ELSE "open2"
      /\ UNCHANGED <<program, linked, made, overlap, killed, data, todo, answered, shown, blank>>
  BY DEF P!Open, P!ctl
<1>2. /\ Parent(i) \in P!Procs /\ Child(i) \in P!Procs /\ Parent(i)[1] = i /\ Child(i)[1] = i
      /\ Parent(i)[2] = "client" /\ Child(i)[2] = "server" /\ Parent(i) # Child(i)
      /\ \A q \in P!Procs : q \in {Parent(i), Child(i)} \/ q[1] # i
      /\ P!TypeOK
  BY PShape DEF Always
<1>3. Roles(i) /\ Together(i) /\ Names(i)
  BY DEF Always, Tidy
<1>4. program = "fifo" /\ ~Idle(i)
  <2>1. pc[Parent(i)] \in {"open1", "open2"} \/ pc[Child(i)] \in {"open1", "open2"}
    BY <1>1
  <2>2. program \in {"pipe", "fifo"}
    BY <1>2, PNow
  <2> QED
    BY <1>3, <2>1, <2>2 DEF Roles, Idle, P!Ended
<1>5. pc[o] \in IF n = 1 THEN {"none", "open1", "wait1"} ELSE {"open2", "wait2"}
  <2>1. CASE p = Parent(i)
    BY <1>1, <1>2, <1>3, <2>1 DEF Together
  <2>2. CASE p = Child(i)
    BY <1>1, <1>2, <1>3, <1>4, <2>2 DEF Together, Roles, P!Ended
  <2> QED
    BY <2>1, <2>2
<1>6. linked[n] # 0 /\ Sole(i) /\ f = Own(i, n)
  <2>1. pc[Parent(i)] \notin {"make2", "unlink2"}
    BY <1>1, <1>2, <1>5
  <2> QED
    BY <1>3, <1>4, <2>1, TOwn DEF Names, Own
<1>7. /\ ends[p] = IF n = 1 THEN {} ELSE {End(p, 1)}
      /\ pc[o] \in {"none", "open1"} => ends[o] = {}
      /\ pc[o] \in {"wait1", "open2"} => ends[o] = {End(o, 1)}
      /\ pc[o] = "wait2" => ends[o] = {End(o, 1), End(o, 2)}
  <2>1. Exact(p) /\ Exact(o)
    BY <1>2 DEF Tidy
  <2> QED
    BY <1>1, <1>4, <2>1 DEF Exact
<1>8. /\ P!Other(m) = P!Mode(o, n) /\ m # P!Other(m) /\ m \in {"r", "w"} /\ P!Other(m) \in {"r", "w"}
      /\ End(p, n) = <<m, f>> /\ End(o, n) = <<P!Other(m), f>>
      /\ n = 2 => End(p, 1) # <<P!Other(m), f>> /\ End(o, 1) # <<P!Other(m), f>>
  BY <1>2, <1>6 DEF P!Other, P!Mode, End, Own
<1>9. partners = IF pc[o] = P!Waiting(n) THEN {o} ELSE {}
  <2>1. \A q \in P!Procs : q \notin {p, o} => q \notin partners
    <3>1. ASSUME NEW q \in P!Procs, q \notin {p, o} PROVE <<P!Other(m), f>> \notin ends[q]
      <4>1. q[1] # i
        BY <1>2, <3>1
      <4> HIDE DEF m
      <4> QED
        BY <1>6, <1>8, <4>1, TAlien
    <3> QED
      BY <3>1
  <2>2. p \notin partners
    BY <1>7, <1>8
  <2>3. o \in partners <=> pc[o] = P!Waiting(n)
    <3>1. CASE n = 1
      BY <1>2, <1>5, <1>7, <1>8, <3>1 DEF P!Waiting
    <3>2. CASE n = 2
      BY <1>2, <1>5, <1>7, <1>8, <3>2 DEF P!Waiting
    <3> QED
      BY <3>1, <3>2
  <2> QED
    BY <1>2, <2>1, <2>2, <2>3
<1>10. /\ ends' = [ends EXCEPT ![p] = ends[p] \cup {<<m, f>>}]
       /\ pc' = [q \in P!Procs |->
                   IF q = p THEN IF partners = {} THEN P!Waiting(n) ELSE P!Opened(p, n)
                   ELSE IF q \in partners /\ pc[q] = P!Waiting(n) THEN P!Opened(q, n) ELSE pc[q]]
  BY <1>6, Zenon DEF P!Open
<1>11. /\ ends'[p] = ends[p] \cup {End(p, n)}
       /\ \A q \in P!Procs \ {p} : ends'[q] = ends[q]
  <2>1. ends \in [P!Procs -> SUBSET P!Ends]
    BY <1>2, PNow
  <2> QED
    BY <1>2, <1>8, <1>10, <2>1
<1> HIDE DEF partners, m, f
<1>12. /\ pc'[p] = IF pc[o] = P!Waiting(n) THEN P!Opened(p, n) ELSE P!Waiting(n)
       /\ pc'[o] = IF pc[o] = P!Waiting(n) THEN P!Opened(o, n) ELSE pc[o]
       /\ \A q \in P!Procs \ {p, o} : pc'[q] = pc[q]
  BY <1>2, <1>9, <1>10
<1> QED
  BY <1>1, <1>4, <1>5, <1>6, <1>11, <1>12

LEMMA TOpen ==
    ASSUME P!PipeCatAssumption, Always, Tidy, NEW i \in P!Instances, NEW n \in {1, 2},
           NEW p \in {Parent(i), Child(i)}, P!Open(p, n)
    PROVE  Tidy'
<1>1. PICK o \in {Parent(i), Child(i)} : o # p
  BY PShape
<1>2. /\ Parent(i) \in P!Procs /\ Child(i) \in P!Procs /\ Parent(i)[1] = i /\ Child(i)[1] = i
      /\ Parent(i)[2] = "client" /\ Child(i)[2] = "server" /\ Parent(i) # Child(i)
  BY PShape
<1>3. /\ program = "fifo" /\ Sole(i) /\ pc[p] = IF n = 1 THEN "open1" ELSE "open2"
      /\ pc[o] \in IF n = 1 THEN {"none", "open1", "wait1"} ELSE {"open2", "wait2"}
      /\ pc'[p] = IF pc[o] = P!Waiting(n) THEN P!Opened(p, n) ELSE P!Waiting(n)
      /\ pc'[o] = IF pc[o] = P!Waiting(n) THEN P!Opened(o, n) ELSE pc[o]
      /\ ends'[p] = ends[p] \cup {End(p, n)}
      /\ \A q \in P!Procs \ {p} : ends'[q] = ends[q]
      /\ \A q \in P!Procs \ {p, o} : pc'[q] = pc[q]
      /\ UNCHANGED <<program, linked, made, overlap, killed, data, todo, answered, shown, blank>>
  BY <1>1, TOpens
<1>4. /\ Own(i, 1)' = Own(i, 1) /\ Own(i, 2)' = Own(i, 2)
      /\ \A q \in {p, o}, k \in {1, 2} : End(q, k)' = End(q, k)
  BY <1>2, <1>3 DEF Own, End, P!Mode
<1>5. /\ P!Waiting(1) = "wait1" /\ P!Waiting(2) = "wait2"
      /\ P!Opened(p, 1) = "open2" /\ P!Opened(p, 2) = P!Work(p)
      /\ P!Opened(o, 1) = "open2" /\ P!Opened(o, 2) = P!Work(o)
      /\ P!Work(Parent(i)) = "ask" /\ P!Work(Child(i)) = "read"
  BY <1>2 DEF P!Waiting, P!Opened, P!Work
<1>6. Exact(p) /\ Exact(o) /\ p[1] = i /\ o[1] = i /\ P!Work(p) \in {"ask", "read"} /\ P!Work(o) \in {"ask", "read"}
  BY <1>2, <1>5 DEF Tidy
<1>7. ends'[o] = ends[o]
  BY <1>1, <1>2, <1>3
<1>8. Exact(p)' /\ Exact(o)'
  <2>1. CASE n = 1
    <3>1. /\ pc'[p] = IF pc[o] = "wait1" THEN "open2" ELSE "wait1"
          /\ pc'[o] = IF pc[o] = "wait1" THEN "open2" ELSE pc[o]
          /\ pc[p] = "open1" /\ pc[o] \in {"none", "open1", "wait1"}
          /\ ends'[p] = ends[p] \cup {End(p, 1)}
      BY <1>3, <1>5, <2>1
    <3> QED
      BY <1>3, <1>4, <1>6, <1>7, <3>1 DEF Exact
  <2>2. CASE n = 2
    <3>1. /\ pc'[p] = IF pc[o] = "wait2" THEN P!Work(p) ELSE "wait2"
          /\ pc'[o] = IF pc[o] = "wait2" THEN P!Work(o) ELSE pc[o]
          /\ pc[p] = "open2" /\ pc[o] \in {"open2", "wait2"}
          /\ ends'[p] = ends[p] \cup {End(p, 2)}
      BY <1>3, <1>5, <2>2
    <3> QED
      BY <1>3, <1>4, <1>6, <1>7, <3>1 DEF Exact
  <2> QED
    BY <2>1, <2>2
<1>9. Exact(Parent(i))' /\ Exact(Child(i))'
  BY <1>1, <1>8
<1>10. Names(i) /\ Together(i) /\ Whole(i) /\ Roles(i)
  BY DEF Tidy, Always
<1>11. Names(i)' /\ Together(i)' /\ Whole(i)'
  <2>1. CASE p = Parent(i) /\ o = Child(i)
    <3>1. CASE n = 1
      BY <1>3, <1>4, <1>5, <1>10, <2>1, <3>1 DEF Names, Together, Whole, Idle, P!Ended
    <3>2. CASE n = 2
      BY <1>3, <1>4, <1>5, <1>10, <2>1, <3>2 DEF Names, Together, Whole, Idle, P!Ended
    <3> QED
      BY <3>1, <3>2
  <2>2. CASE p = Child(i) /\ o = Parent(i)
    <3>1. CASE n = 1
      BY <1>3, <1>4, <1>5, <1>10, <2>2, <3>1 DEF Names, Together, Whole, Idle, P!Ended
    <3>2. CASE n = 2
      BY <1>3, <1>4, <1>5, <1>10, <2>2, <3>2 DEF Names, Together, Whole, Idle, P!Ended
    <3> QED
      BY <3>1, <3>2
  <2> QED
    BY <1>1, <2>1, <2>2
<1>12. \A q \in P!Procs : ends[q] \subseteq ends'[q]
  BY <1>3
<1>13. Unheld'
  BY <1>3, <1>12, TUnheld DEF Tidy
<1>14. \A q \in P!Procs : q[1] # i => pc'[q] = pc[q] /\ ends'[q] = ends[q]
  BY <1>2, <1>3, <1>6
<1> QED
  BY <1>3, <1>9, <1>11, <1>13, <1>14, TFrame

(* What the two write to and read from, and who is at work when.           *)
LEMMA TWork ==
    ASSUME P!PipeCatAssumption, Always, Tidy, NEW i \in P!Instances
    PROVE  /\ pc[Parent(i)] \in {"ask", "show", "reap"} =>
                 P!To(Parent(i)) = {Own(i, 1)} /\ P!From(Parent(i)) = {Own(i, 2)}
           /\ pc[Child(i)] \in {"read", "write"} =>
                 P!To(Child(i)) = {Own(i, 2)} /\ P!From(Child(i)) = {Own(i, 1)}
           /\ pc[Child(i)] = "read" => pc[Parent(i)] \in {"close", "ask", "show", "reap"}
           /\ pc[Child(i)] = "write" => pc[Parent(i)] = "show"
<1>1. ASSUME pc[Parent(i)] \in {"ask", "show", "reap"}
      PROVE  P!To(Parent(i)) = {Own(i, 1)} /\ P!From(Parent(i)) = {Own(i, 2)}
  <2>1. /\ ends[Parent(i)] = {<<"w", Own(i, 1)>>, <<"r", Own(i, 2)>>}
        /\ Own(i, 1) \in P!Pipes /\ Own(i, 2) \in P!Pipes
    BY <1>1, THas, TOwn
  <2> QED
    BY <2>1 DEF P!To, P!From
<1>2. ASSUME pc[Child(i)] \in {"read", "write"}
      PROVE  P!To(Child(i)) = {Own(i, 2)} /\ P!From(Child(i)) = {Own(i, 1)}
  <2>1. /\ ends[Child(i)] = {<<"r", Own(i, 1)>>, <<"w", Own(i, 2)>>}
        /\ Own(i, 1) \in P!Pipes /\ Own(i, 2) \in P!Pipes
    BY <1>2, THas, TOwn DEF P!Ended
  <2> QED
    BY <2>1 DEF P!To, P!From
<1>3. /\ pc[Child(i)] = "read" => pc[Parent(i)] \in {"close", "ask", "show", "reap"}
      /\ pc[Child(i)] = "write" => pc[Parent(i)] = "show"
  <2>1. Together(i) /\ Roles(i) /\ program \in {"pipe", "fifo"}
    BY PNow DEF Always, Tidy
  <2> QED
    BY <2>1 DEF Together, Roles, P!Ended
<1> QED
  BY <1>1, <1>2, <1>3

(* A step of one process that keeps its ends.                              *)
LEMMA TPlain ==
    ASSUME P!PipeCatAssumption, Always, Tidy, NEW i \in P!Instances, Sole(i),
           NEW p \in {Parent(i), Child(i)}, NEW from, NEW to \in Points, P!Step(p, from, to),
           {from, to} \subseteq {"ask", "show", "reap", "read", "write"},
           UNCHANGED <<program, linked, ends>>,
           \A j \in P!Instances \ {i} : answered'[j] = answered[j] /\ shown'[j] = shown[j],
           \A f \in P!Pipes : data'[f] # data[f] =>
               f \in {Own(i, 1), Own(i, 2)} /\ (data'[f] = 0 \/ ~NobodyHas(f)),
           Together(i)', Whole(i)'
    PROVE  Tidy'
<1>1. /\ p \in P!Procs /\ p[1] = i /\ P!TypeOK /\ Parent(i) \in P!Procs /\ Child(i) \in P!Procs
      /\ Parent(i)[1] = i /\ Child(i)[1] = i /\ Parent(i) # Child(i)
  BY PShape DEF Always
<1>2. pc[p] = from /\ pc'[p] = to /\ \A q \in P!Procs \ {p} : pc'[q] = pc[q]
  BY <1>1, PStep
<1>3. Own(i, 1)' = Own(i, 1) /\ Own(i, 2)' = Own(i, 2)
  BY DEF Own
<1>4. Exact(p)'
  <2>1. Exact(p)
    BY <1>1 DEF Tidy
  <2>2. End(p, 1)' = End(p, 1) /\ End(p, 2)' = End(p, 2)
    BY <1>1, <1>3 DEF End, P!Mode
  <2> QED
    BY <1>2, <2>1, <2>2 DEF Exact
<1>5. ASSUME NEW q \in {Parent(i), Child(i)}, q # p PROVE Exact(q)'
  <2>1. Exact(q) /\ q[1] = i
    BY <1>1 DEF Tidy
  <2> QED
    BY <1>1, <1>2, <1>3, <1>5, <2>1, TExact
<1>6. Exact(Parent(i))' /\ Exact(Child(i))'
  BY <1>4, <1>5
<1>7. Names(i)'
  <2>1. ~Idle(i) /\ Names(i) /\ Roles(i)
    BY <1>2, TOwn DEF Tidy, Always, Idle, P!Ended
  <2>2. pc[Parent(i)] \notin {"make2", "unlink2"}
    <3>1. p = Parent(i) \/ (p = Child(i) /\ from \in {"read", "write"} /\ ~P!Ended(Child(i)))
          \/ (p = Child(i) /\ from \in {"ask", "show", "reap"})
      BY <1>2 DEF P!Ended
    <3> QED
      BY <1>2, <2>1, <3>1 DEF Roles, P!Ended
  <2> QED
    BY <2>1, <2>2 DEF Names
<1>8. Unheld'
  <2>1. ASSUME NEW f \in P!Pipes, NobodyHas(f)' PROVE data'[f] = 0
    <3>1. NobodyHas(f)
      BY <2>1, Zenon DEF NobodyHas, P!Procs, P!Instances
    <3> QED
      BY <3>1 DEF Tidy, Unheld
  <2> QED
    BY <2>1, Zenon DEF Unheld, P!Pipes, P!Instances
<1>9. program = "pipe" => \A j \in P!Instances \ {i}, n \in {1, 2} : data'[<<n, j>>] = data[<<n, j>>]
  BY DEF Own, P!Pipes
<1>10. \A q \in P!Procs : q[1] # i => pc'[q] = pc[q] /\ ends'[q] = ends[q]
  BY <1>1, <1>2
<1> QED
  BY <1>6, <1>7, <1>8, <1>9, <1>10, TFrame

LEMMA TClient ==
    ASSUME P!PipeCatAssumption, Always, Tidy, NEW i \in P!Instances,
           P!NoInput(i) \/ P!Ask(i) \/ P!Show(i) \/ P!ShowEnds(i)
    PROVE  Tidy'
<1>1. /\ pc[Parent(i)] \in {"ask", "show"} /\ UNCHANGED <<program, linked, ends, answered>>
      /\ \E to \in {"show", "reap"} : P!Step(Parent(i), pc[Parent(i)], to)
  BY DEF P!NoInput, P!Ask, P!Show, P!ShowEnds, P!Step, P!ctl, P!AfterShow, Parent
<1>2. /\ Parent(i) \in P!Procs /\ Child(i) \in P!Procs /\ Parent(i) # Child(i) /\ P!TypeOK
      /\ "show" \in Points /\ "reap" \in Points /\ Parent(i) = <<i, "client">>
  BY PShape DEF Always, Points, Parent
<1>3. /\ Sole(i) /\ Own(i, 1) \in P!Pipes /\ Own(i, 2) \in P!Pipes /\ Own(i, 1) # Own(i, 2)
      /\ Own(i, 1)' = Own(i, 1) /\ Own(i, 2)' = Own(i, 2)
  BY <1>1, TOwn DEF Own
<1>4. /\ P!To(Parent(i)) = {Own(i, 1)} /\ P!From(Parent(i)) = {Own(i, 2)}
      /\ <<"w", Own(i, 1)>> \in ends[Parent(i)] /\ <<"r", Own(i, 2)>> \in ends[Parent(i)]
      /\ ~NobodyHas(Own(i, 1)) /\ ~NobodyHas(Own(i, 2))
  BY <1>1, <1>2, TWork, THas DEF NobodyHas
<1>5. Together(i) /\ Whole(i)
  BY DEF Tidy
<1>6. /\ data \in [P!Pipes -> Nat] /\ shown \in [P!Instances -> Nat] /\ answered \in [P!Instances -> Nat]
  BY <1>2, PNow
<1>7. \A to \in {"show", "reap"} : P!Step(Parent(i), pc[Parent(i)], to) =>
          pc'[Parent(i)] = to /\ pc'[Child(i)] = pc[Child(i)]
  BY <1>2, PStep
<1>8. CASE P!NoInput(i)
  <2>1. PICK to \in {"show", "reap"} : P!Step(Parent(i), "ask", to)
    BY <1>2, <1>8 DEF P!NoInput
  <2>2. pc[Parent(i)] = "ask" /\ UNCHANGED <<data, shown>>
    BY <1>8 DEF P!NoInput, P!Step, Parent
  <2>3. Together(i)' /\ Whole(i)'
    BY <1>1, <1>3, <1>5, <1>7, <2>1, <2>2 DEF Together, Whole, P!Ended
  <2> QED
    BY <1>1, <1>2, <1>3, <2>1, <2>2, <2>3, TPlain
<1>9. CASE P!Ask(i)
  <2>1. P!Step(Parent(i), "ask", "show") /\ P!Put(Parent(i)) /\ pc[Parent(i)] = "ask" /\ UNCHANGED shown
    BY <1>2, <1>9 DEF P!Ask, P!Step
  <2>2. \A f \in P!Pipes : data'[f] = IF <<"w", f>> \in ends[Parent(i)] THEN data[f] + 1 ELSE data[f]
    BY <1>2, <2>1, PPut
  <2>3. \A f \in P!Pipes : f # Own(i, 1) => <<"w", f>> \notin ends[Parent(i)]
    BY <1>4 DEF P!To
  <2>4. \A f \in P!Pipes : f # Own(i, 1) => data'[f] = data[f]
    BY <2>2, <2>3
  <2>5. Together(i)' /\ Whole(i)'
    BY <1>1, <1>3, <1>5, <1>7, <2>1, <2>4 DEF Together, Whole, P!Ended
  <2> QED
    BY <1>1, <1>2, <1>3, <1>4, <2>1, <2>4, <2>5, TPlain
<1>10. CASE P!Show(i)
  <2>1. /\ P!Step(Parent(i), "show", "show") /\ pc[Parent(i)] = "show"
        /\ shown' = [shown EXCEPT ![i] = shown[i] + 1]
        /\ data[Own(i, 2)] > 0 /\ data' = [data EXCEPT ![Own(i, 2)] = data[Own(i, 2)] - 1]
    BY <1>2, <1>4, <1>10 DEF P!Show, P!Step, P!AfterShow
  <2>2. /\ shown'[i] = shown[i] + 1 /\ data'[Own(i, 2)] = data[Own(i, 2)] - 1
        /\ \A f \in P!Pipes : f # Own(i, 2) => data'[f] = data[f]
        /\ \A j \in P!Instances \ {i} : shown'[j] = shown[j]
    BY <1>3, <1>6, <2>1
  <2>3. answered'[i] = shown'[i] + data'[Own(i, 2)]
    <3>1. answered[i] = shown[i] + data[Own(i, 2)]
      BY <1>5, <2>1 DEF Whole
    <3>2. shown[i] \in Nat /\ data[Own(i, 2)] \in Nat
      BY <1>3, <1>6
    <3> QED
      BY <1>1, <2>2, <3>1, <3>2
  <2>4. Together(i)' /\ Whole(i)'
    BY <1>1, <1>3, <1>5, <1>7, <2>1, <2>3 DEF Together, Whole, P!Ended
  <2> QED
    BY <1>1, <1>2, <1>3, <1>4, <2>1, <2>2, <2>4, TPlain
<1>11. CASE P!ShowEnds(i)
  <2>1. /\ P!Step(Parent(i), "show", "reap") /\ pc[Parent(i)] = "show" /\ UNCHANGED <<data, shown>>
        /\ data[Own(i, 2)] = 0 /\ P!Writers(Own(i, 2)) = {}
    BY <1>2, <1>4, <1>11 DEF P!ShowEnds, P!AtEof, P!Step
  <2>2. P!Ended(Child(i))
    <3>1. <<"w", Own(i, 2)>> \notin ends[Child(i)]
      BY <1>2, <2>1 DEF P!Writers
    <3>2. pc[Child(i)] \notin {"close", "read", "write"}
      BY <3>1, THas
    <3> QED
      BY <1>5, <2>1, <3>2 DEF Together, P!Ended
  <2>3. answered[i] = shown[i]
    BY <1>5, <1>6, <2>1 DEF Whole
  <2>4. Together(i)' /\ Whole(i)'
    BY <1>1, <1>3, <1>5, <1>7, <2>1, <2>2, <2>3 DEF Together, Whole, P!Ended
  <2> QED
    BY <1>1, <1>2, <1>3, <2>1, <2>4, TPlain
<1> QED
  BY <1>8, <1>9, <1>10, <1>11

LEMMA TReads ==
    ASSUME P!PipeCatAssumption, Always, Tidy, NEW i \in P!Instances, P!Read(i) \/ P!Write(i)
    PROVE  Tidy'
<1>1. /\ pc[Child(i)] \in {"read", "write"} /\ UNCHANGED <<program, linked, ends, shown>>
      /\ P!Step(Child(i), pc[Child(i)], "write") /\ Child(i) = <<i, "server">>
  BY DEF P!Read, P!Write, P!Step, P!ctl, Child
<1>2. /\ Parent(i) \in P!Procs /\ Child(i) \in P!Procs /\ Parent(i) # Child(i) /\ P!TypeOK
      /\ "write" \in Points
  BY PShape DEF Always, Points
<1>3. /\ Sole(i) /\ Own(i, 1) \in P!Pipes /\ Own(i, 2) \in P!Pipes /\ Own(i, 1) # Own(i, 2)
      /\ Own(i, 1)' = Own(i, 1) /\ Own(i, 2)' = Own(i, 2)
  BY <1>1, TOwn DEF Own, P!Ended
<1>4. /\ P!To(Child(i)) = {Own(i, 2)} /\ P!From(Child(i)) = {Own(i, 1)}
      /\ <<"r", Own(i, 1)>> \in ends[Child(i)] /\ <<"w", Own(i, 2)>> \in ends[Child(i)]
      /\ ~NobodyHas(Own(i, 1)) /\ ~NobodyHas(Own(i, 2))
  BY <1>1, <1>2, TWork, THas DEF NobodyHas
<1>5. Together(i) /\ Whole(i)
  BY DEF Tidy
<1>6. /\ data \in [P!Pipes -> Nat] /\ shown \in [P!Instances -> Nat] /\ answered \in [P!Instances -> Nat]
  BY <1>2, PNow
<1>7. pc'[Child(i)] = "write" /\ pc'[Parent(i)] = pc[Parent(i)]
  BY <1>1, <1>2, PStep
<1>8. CASE P!Read(i)
  <2>1. /\ P!Step(Child(i), "read", "write") /\ pc[Child(i)] = "read" /\ UNCHANGED answered
        /\ data[Own(i, 1)] > 0 /\ data' = [data EXCEPT ![Own(i, 1)] = 0]
    BY <1>1, <1>4, <1>8 DEF P!Read, P!Step
  <2>2. \A f \in P!Pipes : data'[f] = IF f = Own(i, 1) THEN 0 ELSE data[f]
    BY <1>6, <2>1
  <2>3. pc[Parent(i)] = "show"
    <3>1. data[Own(i, 1)] # 0
      BY <1>3, <1>6, <2>1
    <3>2. pc[Parent(i)] \in {"close", "ask", "show", "reap"}
      BY <2>1, TWork
    <3> QED
      BY <1>5, <2>1, <3>1, <3>2 DEF Together, Whole, P!Ended
  <2>4. Together(i)' /\ Whole(i)'
    BY <1>1, <1>3, <1>5, <1>7, <2>1, <2>2, <2>3 DEF Together, Whole, P!Ended
  <2> QED
    BY <1>1, <1>2, <1>3, <1>4, <2>1, <2>2, <2>4, TPlain
<1>9. CASE P!Write(i)
  <2>1. /\ P!Step(Child(i), "write", "write") /\ pc[Child(i)] = "write" /\ P!Put(Child(i))
        /\ answered' = [answered EXCEPT ![i] = answered[i] + Cardinality(P!To(Child(i)))]
    BY <1>1, <1>9, PSame DEF P!Write, P!Step
  <2>2. \A f \in P!Pipes : data'[f] = IF <<"w", f>> \in ends[Child(i)] THEN data[f] + 1 ELSE data[f]
    BY <1>2, <2>1, PPut
  <2>3. \A f \in P!Pipes : f # Own(i, 2) => <<"w", f>> \notin ends[Child(i)]
    BY <1>4 DEF P!To
  <2>4. /\ data'[Own(i, 2)] = data[Own(i, 2)] + 1
        /\ \A f \in P!Pipes : f # Own(i, 2) => data'[f] = data[f]
    BY <1>3, <1>4, <2>2, <2>3
  <2>5. Cardinality(P!To(Child(i))) = 1
    BY <1>4, FS_Singleton
  <2>6. /\ answered'[i] = answered[i] + 1
        /\ \A j \in P!Instances \ {i} : answered'[j] = answered[j]
    BY <1>6, <2>1, <2>5
  <2>7. pc[Parent(i)] = "show"
    BY <2>1, TWork
  <2>8. answered'[i] = shown'[i] + data'[Own(i, 2)]
    <3>1. answered[i] = shown[i] + data[Own(i, 2)]
      BY <1>5, <2>7 DEF Whole
    <3>2. shown[i] \in Nat /\ data[Own(i, 2)] \in Nat
      BY <1>3, <1>6
    <3> QED
      BY <1>1, <2>4, <2>6, <3>1, <3>2
  <2>9. Together(i)' /\ Whole(i)'
    BY <1>1, <1>3, <1>5, <1>7, <2>1, <2>7, <2>8 DEF Together, Whole, P!Ended
  <2> QED
    BY <1>1, <1>2, <1>3, <1>4, <2>1, <2>4, <2>6, <2>9, TPlain
<1> QED
  BY <1>8, <1>9

(* A process that goes takes nothing with it that another one can use.     *)
LEMMA TLeave ==
    ASSUME P!PipeCatAssumption, Always, Tidy, NEW i \in P!Instances, Sole(i),
           NEW p \in {Parent(i), Child(i)}, UNCHANGED <<program, linked, answered, shown>>, P!Leave(p),
           NEW to \in {"done", "dead", "unlink1"}, P!Step(p, pc[p], to),
           Names(i)', Together(i)', Whole(i)'
    PROVE  Tidy'
<1>1. /\ p \in P!Procs /\ p[1] = i /\ P!TypeOK /\ Parent(i) \in P!Procs /\ Child(i) \in P!Procs
      /\ Parent(i)[1] = i /\ Child(i)[1] = i /\ to \in Points
  BY PShape DEF Always, Points
<1>2. /\ ends'[p] = {} /\ \A q \in P!Procs \ {p} : ends'[q] = ends[q]
      /\ \A f \in P!Pipes :
            data'[f] = IF \A q \in P!Procs \ {p} : <<"r", f>> \notin ends[q] /\ <<"w", f>> \notin ends[q]
                       THEN 0 ELSE data[f]
  BY <1>1, PLeave
<1>3. pc'[p] = to /\ \A q \in P!Procs \ {p} : pc'[q] = pc[q]
  BY <1>1, PStep
<1>4. Own(i, 1)' = Own(i, 1) /\ Own(i, 2)' = Own(i, 2)
  BY DEF Own
<1>5. ASSUME NEW q \in {Parent(i), Child(i)} PROVE Exact(q)'
  <2>1. Exact(q) /\ q[1] = i /\ q \in P!Procs
    BY <1>1 DEF Tidy
  <2>2. CASE q = p
    BY <1>2, <1>3, <2>2 DEF Exact
  <2>3. CASE q # p
    BY <1>1, <1>2, <1>3, <1>4, <2>1, <2>3, TExact
  <2> QED
    BY <2>2, <2>3
<1>6. Unheld'
  <2>1. ASSUME NEW f \in P!Pipes, NobodyHas(f)' PROVE data'[f] = 0
    <3>1. \A q \in P!Procs : <<"r", f>> \notin ends'[q] /\ <<"w", f>> \notin ends'[q]
      BY <2>1, Zenon DEF NobodyHas, P!Procs, P!Instances
    <3> QED
      BY <1>2, <3>1
  <2> QED
    BY <2>1, Zenon DEF Unheld, P!Pipes, P!Instances
<1>7. ASSUME program = "pipe", NEW j \in P!Instances \ {i}, NEW n \in {1, 2}
      PROVE  data'[<<n, j>>] = data[<<n, j>>]
  <2>1. <<n, j>> \in P!Pipes /\ <<n, j>> = Own(j, n) /\ Sole(j) /\ p[1] # j
    BY <1>1, <1>7 DEF P!Pipes, Own, Sole
  <2>2. <<"r", <<n, j>>>> \notin ends[p] /\ <<"w", <<n, j>>>> \notin ends[p]
    BY <1>1, <2>1, TAlien
  <2>3. (\A q \in P!Procs \ {p} : <<"r", <<n, j>>>> \notin ends[q] /\ <<"w", <<n, j>>>> \notin ends[q])
        => data[<<n, j>>] = 0
    BY <2>1, <2>2 DEF Tidy, Unheld, NobodyHas
  <2> QED
    BY <1>2, <2>1, <2>3
<1>8. \A q \in P!Procs : q[1] # i => pc'[q] = pc[q] /\ ends'[q] = ends[q]
  BY <1>1, <1>2, <1>3
<1> QED
  BY <1>5, <1>6, <1>7, <1>8, TFrame

LEMMA TReap ==
    ASSUME P!PipeCatAssumption, Always, Tidy, NEW i \in P!Instances, P!Reap(i)
    PROVE  Tidy'
<1> DEFINE to == IF program = "pipe" THEN "done" ELSE "unlink1"
<1>1. /\ UNCHANGED <<program, linked, answered, shown>> /\ P!Leave(Parent(i)) /\ P!Ended(Child(i))
      /\ P!Step(Parent(i), pc[Parent(i)], to) /\ pc[Parent(i)] = "reap"
      /\ to \in {"done", "dead", "unlink1"}
  BY DEF P!Reap, P!ctl, P!Step, Parent, Child
<1>2. /\ Parent(i) \in P!Procs /\ Child(i) \in P!Procs /\ Parent(i) # Child(i) /\ P!TypeOK
      /\ to \in Points
  BY PShape DEF Always, Points
<1>3. pc'[Parent(i)] = to /\ pc'[Child(i)] = pc[Child(i)]
  BY <1>1, <1>2, PStep
<1>4. Sole(i) /\ ~Idle(i) /\ Names(i) /\ Whole(i)
  BY <1>1, TOwn DEF Tidy
<1>5. Names(i)' /\ Together(i)' /\ Whole(i)'
  BY <1>1, <1>3, <1>4 DEF Names, Together, Whole, Idle, P!Ended
<1> HIDE DEF to
<1> QED
  BY <1>1, <1>4, <1>5, TLeave

LEMMA TServerEnds ==
    ASSUME P!PipeCatAssumption, Always, Tidy, NEW i \in P!Instances, P!ServerEnds(i)
    PROVE  Tidy'
<1>1. /\ UNCHANGED <<program, linked, answered, shown>> /\ P!Leave(Child(i))
      /\ P!Step(Child(i), pc[Child(i)], "done") /\ pc[Child(i)] \in {"read", "write"}
      /\ pc[Child(i)] = "read" => P!AtEof(Child(i))
  BY DEF P!ServerEnds, P!ctl, P!Step, Child
<1>2. /\ Parent(i) \in P!Procs /\ Child(i) \in P!Procs /\ Parent(i) # Child(i) /\ P!TypeOK
      /\ "done" \in Points
  BY PShape DEF Always, Points
<1>3. pc'[Child(i)] = "done" /\ pc'[Parent(i)] = pc[Parent(i)]
  BY <1>1, <1>2, PStep
<1>4. /\ Sole(i) /\ Names(i) /\ Together(i) /\ Whole(i)
      /\ Own(i, 1) \in P!Pipes /\ Own(i, 2) \in P!Pipes /\ Own(i, 2)' = Own(i, 2)
  BY <1>1, TOwn DEF Tidy, Own, P!Ended
<1>5. pc[Child(i)] = "write"
  <2>1. ASSUME pc[Child(i)] = "read" PROVE FALSE
    <3>1. P!Writers(Own(i, 1)) = {}
      BY <1>1, <2>1, TWork DEF P!AtEof
    <3>2. <<"w", Own(i, 1)>> \in ends[Parent(i)]
      <4>1. pc[Parent(i)] \in {"close", "ask", "show", "reap"}
        BY <2>1, TWork
      <4>2. pc[Parent(i)] = "close" => program = "pipe"
        BY PNow DEF Always, Roles
      <4> QED
        BY <4>1, <4>2, THas
    <3> QED
      BY <1>2, <3>1, <3>2 DEF P!Writers
  <2> QED
    BY <1>1, <2>1
<1>6. pc[Parent(i)] = "show" /\ <<"r", Own(i, 2)>> \in ends[Parent(i)]
  BY <1>5, TWork, THas
<1>7. data'[Own(i, 2)] = data[Own(i, 2)]
  <2>1. \A f \in P!Pipes :
            data'[f] = IF \A q \in P!Procs \ {Child(i)} : <<"r", f>> \notin ends[q] /\ <<"w", f>> \notin ends[q]
                       THEN 0 ELSE data[f]
    BY <1>1, <1>2, PLeave
  <2> QED
    BY <1>2, <1>4, <1>6, <2>1
<1>8. Names(i)' /\ Together(i)' /\ Whole(i)'
  BY <1>1, <1>3, <1>4, <1>6, <1>7 DEF Names, Together, Whole, Idle, P!Ended
<1> QED
  BY <1>1, <1>4, <1>8, TLeave

LEMMA TSigpipe ==
    ASSUME P!PipeCatAssumption, Always, Tidy, NEW i \in P!Instances,
           NEW p \in {Parent(i), Child(i)}, P!Sigpipe(p)
    PROVE  Tidy'
<1>1. /\ UNCHANGED <<program, linked, answered, shown>> /\ P!Leave(p) /\ P!BrokenPipe(p)
      /\ P!Step(p, pc[p], "dead") /\ pc[p] \in {"ask", "write"}
  BY DEF P!Sigpipe, P!ctl, P!Step
<1>2. /\ Parent(i) \in P!Procs /\ Child(i) \in P!Procs /\ Parent(i) # Child(i) /\ P!TypeOK
      /\ "dead" \in Points
  BY PShape DEF Always, Points
<1>3. pc'[p] = "dead" /\ \A q \in P!Procs \ {p} : pc'[q] = pc[q]
  BY <1>1, <1>2, PStep
<1>4. Names(i) /\ Together(i) /\ Whole(i) /\ Roles(i)
  BY DEF Tidy, Always
<1>5. p = Parent(i) /\ pc[p] = "ask"
  <2>1. ASSUME p = Child(i) PROVE FALSE
    <3>1. pc[Child(i)] = "write"
      BY <1>1, <1>4, <2>1 DEF Roles
    <3>2. P!Readers(Own(i, 2)) = {} /\ <<"r", Own(i, 2)>> \in ends[Parent(i)]
      BY <1>1, <2>1, <3>1, TWork, THas DEF P!BrokenPipe
    <3> QED
      BY <1>2, <3>2 DEF P!Readers
  <2> QED
    BY <1>1, <1>4, <2>1 DEF Roles
<1>6. P!Ended(Child(i))
  <2>1. P!Readers(Own(i, 1)) = {}
    BY <1>1, <1>5, TWork DEF P!BrokenPipe
  <2>2. <<"r", Own(i, 1)>> \notin ends[Child(i)]
    BY <1>2, <2>1 DEF P!Readers
  <2>3. pc[Child(i)] \notin {"close", "read"}
    BY <2>2, THas
  <2> QED
    BY <1>4, <1>5, <2>3 DEF Together, P!Ended
<1>7. pc'[Parent(i)] = "dead" /\ pc'[Child(i)] = pc[Child(i)] /\ Sole(i)
  BY <1>2, <1>3, <1>5, TOwn
<1>8. Names(i)' /\ Together(i)' /\ Whole(i)'
  BY <1>6, <1>7 DEF Names, Together, Whole, Idle, P!Ended
<1> QED
  BY <1>1, <1>7, <1>8, TLeave

LEMMA TUnlink ==
    ASSUME P!PipeCatAssumption, Always, Tidy, NEW i \in P!Instances, NEW n \in {1, 2}, P!Unlink(i, n)
    PROVE  Tidy'
<1>1. /\ UNCHANGED <<program, ends, data, answered, shown>> /\ linked' = [linked EXCEPT ![n] = 0]
      /\ n = 1 => P!Step(Parent(i), "unlink1", "unlink2")
      /\ n = 2 => P!Step(Parent(i), "unlink2", "done")
  BY DEF P!Unlink, Parent
<1>2. /\ Parent(i) \in P!Procs /\ Child(i) \in P!Procs /\ Parent(i) # Child(i) /\ P!TypeOK
      /\ Parent(i)[1] = i /\ Child(i)[1] = i /\ "unlink2" \in Points /\ "done" \in Points
  BY PShape DEF Always, Points
<1>3. /\ n = 1 => pc[Parent(i)] = "unlink1" /\ pc'[Parent(i)] = "unlink2"
      /\ n = 2 => pc[Parent(i)] = "unlink2" /\ pc'[Parent(i)] = "done"
      /\ \A q \in P!Procs \ {Parent(i)} : pc'[q] = pc[q]
  BY <1>1, <1>2, PStep
<1>4. Names(i) /\ Whole(i) /\ Roles(i) /\ program \in {"pipe", "fifo"}
  BY <1>2, PNow DEF Tidy, Always
<1>5. program = "fifo" /\ ~Idle(i) /\ P!Ended(Child(i))
  BY <1>3, <1>4 DEF Roles, Idle
<1>6. Sole(i) /\ ends[Parent(i)] = {} /\ ends[Child(i)] = {} /\ pc'[Child(i)] = pc[Child(i)]
  BY <1>2, <1>3, <1>5, TOwn, THas DEF P!Ended
<1>7. Exact(Parent(i))' /\ Exact(Child(i))'
  BY <1>1, <1>2, <1>3, <1>5, <1>6 DEF Exact, P!Ended
<1>8. linked'[2] = linked[2] \/ n = 2
  BY <1>1, <1>2, PNow
<1>9. Names(i)' /\ Together(i)' /\ Whole(i)'
  <2>1. Names(i)'
    BY <1>1, <1>3, <1>4, <1>5, <1>6, <1>8 DEF Names, Idle, P!Ended
  <2>2. Together(i)' /\ Whole(i)'
    BY <1>1, <1>3, <1>4 DEF Together, Whole
  <2> QED
    BY <2>1, <2>2
<1>10. Unheld'
  BY <1>1, TUnheld DEF Tidy
<1>11. \A q \in P!Procs : q[1] # i => pc'[q] = pc[q] /\ ends'[q] = ends[q]
  BY <1>1, <1>2, <1>3
<1> QED
  BY <1>1, <1>5, <1>6, <1>7, <1>9, <1>10, <1>11, TFrame

LEMMA PActs ==
    ASSUME P!PipeCatAssumption, PipeInv, P!Next
    PROVE  Always' /\ (Clean' => Tidy')
<1>1. Always /\ (Clean => Tidy)
  BY DEF PipeInv
<1>2. ASSUME NEW i \in P!Instances, P!StartUp(i) PROVE Always' /\ (Clean' => Tidy')
  <2>1. CASE P!MakePipes(i)
    <3>1. Clean' => Clean
      BY <2>1 DEF P!MakePipes, P!Start, Clean, P!Sharing
    <3> QED
      BY <1>1, <2>1, <3>1, AMakePipes, TMakePipes
  <2>2. CASE P!MakeFifo1(i)
    <3>1. /\ program = "fifo" /\ P!Step(Parent(i), "start", "make2") /\ P!MakeFifo(1)
          /\ overlap' = (overlap \/ \E q \in P!Procs : q[1] # i /\ ~P!Ended(q) /\ pc[q] # "start")
          /\ UNCHANGED <<program, killed>> /\ "make2" \in Points
      BY <2>2 DEF P!MakeFifo1, P!Start, P!MakeFifo, Parent, Points
    <3>2. UNCHANGED overlap \/ overlap' \in BOOLEAN
      <4>1. overlap \in BOOLEAN
        BY <1>1, PNow DEF Always
      <4> QED
        BY <3>1, <4>1, Zenon
    <3>3. Always'
      BY <1>1, <3>1, <3>2, AMakeFifo
    <3>4. ASSUME Clean' PROVE Tidy'
      <4>1. Clean
        BY <3>1, <3>4 DEF Clean, P!Sharing
      <4>2. Sole(i)
        BY <1>1, <3>1, <3>4, <4>1, TStarts
      <4> QED
        BY <1>1, <3>1, <3>3, <4>1, <4>2, TMakeFifo
    <3> QED
      BY <3>3, <3>4
  <2>3. CASE P!MakeFifo2(i)
    <3>1. /\ P!Step(Parent(i), "make2", "fork") /\ P!MakeFifo(2)
          /\ UNCHANGED <<program, killed, overlap>> /\ "fork" \in Points /\ pc[Parent(i)] = "make2"
      BY <2>3 DEF P!MakeFifo2, P!MakeFifo, P!Step, Parent, Points
    <3>2. program = "fifo"
      <4>1. Roles(i) /\ program \in {"pipe", "fifo"}
        BY <1>1, PNow DEF Always
      <4> QED
        BY <3>1, <4>1 DEF Roles
    <3>3. Always'
      BY <1>1, <3>1, <3>2, AMakeFifo
    <3>4. ASSUME Clean' PROVE Tidy'
      <4>1. Clean
        BY <3>1, <3>4 DEF Clean, P!Sharing
      <4>2. Sole(i)
        BY <1>1, <3>1, <4>1, TOwn DEF Idle
      <4> QED
        BY <1>1, <3>1, <3>2, <3>3, <4>1, <4>2, TMakeFifo
    <3> QED
      BY <3>3, <3>4
  <2>4. CASE P!Fork(i) \/ P!ForkFails(i)
    <3>1. Clean' => Clean
      BY <2>4 DEF P!Fork, P!ForkFails, P!ctl, Clean, P!Sharing
    <3> QED
      BY <1>1, <2>4, <3>1, AFork, AForkFails, TFork
  <2>5. ASSUME NEW p \in {Parent(i), Child(i)}, P!CloseOthers(p) PROVE Always' /\ (Clean' => Tidy')
    <3>1. Clean' => Clean
      BY <2>5 DEF P!CloseOthers, P!ctl, Clean, P!Sharing
    <3> QED
      BY <1>1, <2>5, <3>1, PShape, ACloseOthers, TCloseOthers
  <2>6. ASSUME NEW p \in {Parent(i), Child(i)}, NEW n \in {1, 2}, P!Open(p, n)
        PROVE  Always' /\ (Clean' => Tidy')
    <3>1. Clean' => Clean
      BY <2>6 DEF P!Open, P!ctl, Clean, P!Sharing
    <3> QED
      BY <1>1, <2>6, <3>1, PShape, AOpen, TOpen
  <2> QED
    BY <1>2, <2>1, <2>2, <2>3, <2>4, <2>5, <2>6 DEF P!StartUp, Parent, Child
<1>3. ASSUME NEW i \in P!Instances, P!Client(i) PROVE Always' /\ (Clean' => Tidy')
  <2>1. Clean' => Clean
    BY <1>3 DEF P!Client, P!NoInput, P!Ask, P!Show, P!ShowEnds, P!Reap, P!Unlink, P!ctl, Clean, P!Sharing
  <2>2. Always'
    BY <1>1, <1>3, AClient
  <2>3. Clean => Tidy'
    BY <1>1, <1>3, TClient, TReap, TUnlink DEF P!Client
  <2> QED
    BY <2>1, <2>2, <2>3
<1>4. ASSUME NEW i \in P!Instances, P!Server(i) PROVE Always' /\ (Clean' => Tidy')
  <2>1. Clean' => Clean
    BY <1>4 DEF P!Server, P!Read, P!Write, P!ServerEnds, P!ctl, Clean, P!Sharing
  <2>2. Always'
    BY <1>1, <1>4, AServer
  <2>3. Clean => Tidy'
    BY <1>1, <1>4, TReads, TServerEnds DEF P!Server
  <2> QED
    BY <2>1, <2>2, <2>3
<1>5. ASSUME NEW p \in P!Procs, P!Sigpipe(p) PROVE Always' /\ (Clean' => Tidy')
  <2>1. Clean' => Clean
    BY <1>5 DEF P!Sigpipe, P!ctl, Clean, P!Sharing
  <2>2. p[1] \in P!Instances /\ p \in {Parent(p[1]), Child(p[1])}
    BY PShape
  <2> QED
    BY <1>1, <1>5, <2>1, <2>2, ADies, TSigpipe
<1>6. ASSUME NEW p \in P!Procs, P!Killed(p) PROVE Always' /\ (Clean' => Tidy')
  <2>1. ~Clean'
    BY <1>6 DEF P!Killed, Clean
  <2> QED
    BY <1>1, <1>6, <2>1, ADies
<1> QED
  BY <1>2, <1>3, <1>4, <1>5, <1>6 DEF P!Next, P!Run

LEMMA PNothing ==
    ASSUME P!PipeCatAssumption, PipeInv, UNCHANGED P!vars
    PROVE  Always' /\ (Clean' => Tidy')
<1>1. /\ UNCHANGED <<program, linked, made, overlap, killed>>
      /\ UNCHANGED <<pc, ends, data, todo, answered, shown, blank>>
  BY DEF P!vars, P!ctl
<1>2. Always /\ (Clean => Tidy)
  BY DEF PipeInv
<1>3. P!TypeOK'
  BY <1>1, <1>2 DEF Always, P!TypeOK, P!Ended, P!Ends, P!Pipes, P!Procs, P!Instances
<1>4. \A i \in P!Instances : (Roles(i) => Roles(i)') /\ (Idle(i)' <=> Idle(i))
  BY <1>1 DEF Roles, Idle, P!Ended
<1>5. Always'
  <2>1. \A n \in {1, 2} : Began(n)' = Began(n)
    BY <1>1 DEF Began, P!Instances
  <2>2. \A n \in {1, 2} : made'[n] <= Cardinality(Began(n)')
    BY <1>1, <1>2, <2>1 DEF Always
  <2> QED
    BY <1>2, <1>3, <1>4, <2>2, Zenon DEF Always, P!Instances
<1>6. ASSUME Tidy PROVE Tidy'
  <2>1. \A i, n : Own(i, n)' = Own(i, n)
    BY <1>1 DEF Own
  <2>2. \A i \in P!Instances : Names(i)' /\ Together(i)' /\ Whole(i)'
    BY <1>1, <1>6, <2>1 DEF Tidy, Names, Together, Whole, Idle, P!Ended
  <2>3. ASSUME NEW p \in P!Procs PROVE Exact(p)'
    <3>1. Exact(p)
      BY <1>6 DEF Tidy
    <3> QED
      BY <1>1, <2>1, <3>1, TExact
  <2>4. Unheld'
    BY <1>1, <1>6, TUnheld DEF Tidy
  <2>5. Alone'
    BY <1>1, <1>4, <1>6 DEF Tidy, Alone, P!Instances
  <2> QED
    BY <2>2, <2>3, <2>4, <2>5, Zenon DEF Tidy, P!Procs, P!Instances
<1>7. Clean' <=> Clean
  BY <1>1 DEF Clean, P!Sharing
<1> QED
  BY <1>2, <1>5, <1>6, <1>7

LEMMA PNext == ASSUME P!PipeCatAssumption PROVE PipeInv /\ [P!Next]_P!vars => PipeInv'
<1>1. ASSUME PipeInv, P!Next PROVE PipeInv'
  BY <1>1, PActs DEF PipeInv
<1>2. ASSUME PipeInv, UNCHANGED P!vars PROVE PipeInv'
  BY <1>2, PNothing DEF PipeInv
<1> QED
  BY <1>1, <1>2

(* A client that ends has left no child behind, and unless a process was   *)
(* killed or instances met on the FIFOs it has shown every write of its    *)
(* own server's answer.                                                    *)
THEOREM NothingLeftUnshown == ASSUME P!PipeCatAssumption PROVE P!Spec => []P!AnswerWhole
<1>1. ASSUME PipeInv PROVE P!AnswerWhole
  <2>1. ASSUME NEW i \in P!Instances, pc[Parent(i)] = "done"
        PROVE  /\ P!Ended(Child(i))
               /\ killed = {} /\ ~P!Sharing => shown[i] = answered[i]
    <3>1. Roles(i) /\ (Clean => Whole(i))
      BY <1>1 DEF PipeInv, Always, Tidy
    <3> QED
      BY <2>1, <3>1 DEF Roles, Whole, Clean
  <2> QED
    BY <1>1, <2>1 DEF PipeInv, Always, P!AnswerWhole, Parent, Child
<1> QED
  BY <1>1, PInit, PNext, PTL DEF P!Spec

(* What instance i can do next.                                            *)
PRuns(i) ==
    \/ pc[Parent(i)] \in {"start", "make2", "fork", "ask", "unlink1", "unlink2"}
    \/ pc[Parent(i)] = "reap" /\ P!Ended(Child(i))
    \/ pc[Child(i)] = "write" /\ \/ todo[i] = 0 \/ P!BrokenPipe(Child(i))
                                 \/ \A f \in P!To(Child(i)) : P!HasRoom(f)
    \/ \E p \in {Parent(i), Child(i)} :
          \/ pc[p] \in {"close", "open1", "open2"}
          \/ pc[p] \in {"show", "read"} /\ (P!AtEof(p) \/ \E f \in P!From(p) : data[f] > 0)

NoneWaits == Clean => \A i \in P!Instances :
    \/ PRuns(i) \/ (P!Ended(Parent(i)) /\ P!Ended(Child(i)))
    \/ i \in blank /\ pc[Child(i)] = "read"
    \/ pc[Parent(i)] = "wait1" /\ pc[Child(i)] = "none"

(* A pathname that was sent is there to be read, and a client that waits   *)
(* for its server has seen it end.                                         *)
Sent(i) == i \notin blank =>
    /\ pc[Parent(i)] = "show" /\ pc[Child(i)] \in {"close", "read"} => data[Own(i, 1)] # 0
    /\ pc[Parent(i)] = "reap" => P!Ended(Child(i))
Asked == Clean => \A i \in P!Instances : Sent(i)

(* A step of one instance leaves the pathname of another one alone.        *)
LEMMA SFrame ==
    ASSUME P!PipeCatAssumption, Always, Tidy, NEW i \in P!Instances, Sole(i),
           \A j \in P!Instances : Sent(j), UNCHANGED program, blank \subseteq blank',
           \A q \in P!Procs : q[1] # i => pc'[q] = pc[q],
           \A f \in P!Pipes : data'[f] # data[f] =>
               f \in {Own(i, 1), Own(i, 2)} \/ \A q \in P!Procs : q[1] # i => <<"w", f>> \notin ends[q],
           Sent(i)'
    PROVE  \A j \in P!Instances : Sent(j)'
<1>1. ASSUME NEW j \in P!Instances, j # i PROVE Sent(j)'
  <2>1. /\ pc'[Parent(j)] = pc[Parent(j)] /\ pc'[Child(j)] = pc[Child(j)]
        /\ Parent(j) \in P!Procs /\ Parent(j)[1] # i
    BY <1>1, PShape
  <2>2. CASE program = "fifo"
    <3>1. Idle(j)
      BY <1>1, <2>2 DEF Sole
    <3> QED
      BY <2>1, <3>1 DEF Sent, Idle
  <2>3. CASE program = "pipe"
    <3>1. /\ Own(j, 1) = <<1, j>> /\ Own(j, 1)' = <<1, j>> /\ Own(j, 1) \in P!Pipes
          /\ Own(j, 1) \notin {Own(i, 1), Own(i, 2)}
      BY <1>1, <2>3 DEF Own, P!Pipes
    <3>2. pc[Parent(j)] = "show" => data'[<<1, j>>] = data[<<1, j>>]
      BY <2>1, <3>1, THas
    <3> QED
      BY <2>1, <3>1, <3>2 DEF Sent, P!Ended
  <2> QED
    BY <2>2, <2>3, PNow DEF Always
<1> QED
  BY <1>1, Zenon DEF P!Instances

(* A step of one process.                                                  *)
LEMMA SMoves ==
    ASSUME P!PipeCatAssumption, Always, Tidy, NEW i \in P!Instances, Sole(i),
           NEW p \in {Parent(i), Child(i)}, NEW from, NEW to \in Points, P!Step(p, from, to),
           \A j \in P!Instances : Sent(j), UNCHANGED <<program, blank>>,
           \/ UNCHANGED data
           \/ P!Leave(p)
           \/ \A f \in P!Pipes : data'[f] # data[f] => f \in {Own(i, 1), Own(i, 2)},
           Sent(i)'
    PROVE  \A j \in P!Instances : Sent(j)'
<1>1. /\ p \in P!Procs /\ p[1] = i /\ P!TypeOK
      /\ \A q \in P!Procs : q[1] # i => pc'[q] = pc[q]
  BY PShape, PStep DEF Always
<1>2. ASSUME NEW f \in P!Pipes, data'[f] # data[f]
      PROVE  f \in {Own(i, 1), Own(i, 2)} \/ \A q \in P!Procs : q[1] # i => <<"w", f>> \notin ends[q]
  <2>1. CASE P!Leave(p)
    <3>1. \A q \in P!Procs \ {p} : <<"w", f>> \notin ends[q]
      <4>1. data'[f] = IF \A q \in P!Procs \ {p} : <<"r", f>> \notin ends[q] /\ <<"w", f>> \notin ends[q]
                       THEN 0 ELSE data[f]
        BY <1>1, <2>1, PLeave
      <4> QED
        BY <1>2, <4>1
    <3> QED
      BY <1>1, <3>1
  <2> QED
    BY <1>2, <2>1
<1> QED
  BY <1>1, <1>2, SFrame

LEMMA SStartUp ==
    ASSUME P!PipeCatAssumption, Always, Tidy, Clean', NEW i \in P!Instances,
           \A j \in P!Instances : Sent(j), P!StartUp(i)
    PROVE  \A j \in P!Instances : Sent(j)'
<1>1. /\ Parent(i) \in P!Procs /\ Child(i) \in P!Procs /\ Parent(i)[1] = i /\ Child(i)[1] = i
      /\ Parent(i) # Child(i) /\ P!TypeOK /\ UNCHANGED <<program, data, blank>>
      /\ Parent(i) = <<i, "client">> /\ Child(i) = <<i, "server">>
  BY PShape DEF Always, Parent, Child, P!StartUp, P!MakePipes, P!MakeFifo1, P!MakeFifo2, P!Start,
     P!MakeFifo, P!Fork, P!ForkFails, P!CloseOthers, P!Open, P!ctl
<1>2. ASSUME NEW to \in {"fork", "make2"}, P!Start(i, to) PROVE \A j \in P!Instances : Sent(j)'
  <2>1. P!Step(Parent(i), "start", to) /\ Sole(i) /\ to \in Points
    BY <1>1, <1>2, TStarts DEF P!Start, Points
  <2>2. Sent(i)'
    BY <1>1, <2>1, PStep DEF Sent
  <2> QED
    BY <1>1, <2>1, <2>2, SMoves
<1>3. ASSUME P!MakeFifo2(i) \/ P!ForkFails(i) PROVE \A j \in P!Instances : Sent(j)'
  <2>1. PICK from \in {"make2", "fork"}, to \in {"fork", "close", "open1"} :
            P!Step(Parent(i), from, to) /\ pc[Parent(i)] = from /\ to \in Points
    BY <1>1, <1>3 DEF P!MakeFifo2, P!ForkFails, P!AfterFork, P!Step, Points
  <2>2. Sent(i)' /\ Sole(i)
    BY <1>1, <2>1, PStep, TOwn DEF Sent, Idle
  <2> QED
    BY <1>1, <2>1, <2>2, SMoves
<1>4. ASSUME P!Fork(i) PROVE \A j \in P!Instances : Sent(j)'
  <2>1. /\ pc'[Parent(i)] \in {"close", "open1"} /\ pc[Parent(i)] = "fork"
        /\ \A q \in P!Procs : q[1] # i => pc'[q] = pc[q]
    BY <1>1, <1>4, PNow DEF P!Fork, P!AfterFork
  <2>2. Sent(i)' /\ Sole(i)
    BY <2>1, TOwn DEF Sent, Idle
  <2> QED
    BY <1>1, <2>1, <2>2, SFrame
<1>5. ASSUME NEW p \in {Parent(i), Child(i)}, P!CloseOthers(p) PROVE \A j \in P!Instances : Sent(j)'
  <2>1. /\ P!Step(p, "close", P!Work(p)) /\ P!Work(p) = (IF p = Parent(i) THEN "ask" ELSE "read")
        /\ P!Work(p) \in Points /\ linked' = linked
    BY <1>1, <1>5 DEF P!CloseOthers, P!Work, Points, P!ctl
  <2>2. pc[p] = "close" /\ pc'[p] = P!Work(p) /\ \A q \in P!Procs \ {p} : pc'[q] = pc[q]
    BY <1>1, <2>1, PStep
  <2>3. Sole(i)
    BY <2>2, TOwn DEF Idle, P!Ended
  <2>4. Sent(i)'
    BY <1>1, <2>1, <2>2 DEF Sent, Own, P!Ended
  <2> QED
    BY <1>1, <2>1, <2>3, <2>4, SMoves
<1>6. ASSUME NEW n \in {1, 2}, NEW p \in {Parent(i), Child(i)}, P!Open(p, n)
      PROVE  \A j \in P!Instances : Sent(j)'
  <2>1. PICK o \in {Parent(i), Child(i)} : o # p
    BY <1>1
  <2>2. /\ Sole(i) /\ {pc[p], pc[o]} \subseteq {"none", "open1", "wait1", "open2", "wait2"}
        /\ pc'[p] \in {pc[p], P!Opened(p, n), P!Waiting(n)} /\ pc'[o] \in {pc[o], P!Opened(o, n)}
        /\ \A q \in P!Procs \ {p, o} : pc'[q] = pc[q]
    BY <1>6, <2>1, TOpens
  <2>3. pc'[Parent(i)] \notin {"show", "reap"}
    BY <1>1, <2>1, <2>2 DEF P!Opened, P!Waiting, P!Work
  <2>4. Sent(i)'
    BY <2>3 DEF Sent
  <2> QED
    BY <1>1, <2>1, <2>2, <2>4, SFrame
<1> QED
  BY <1>1, <1>2, <1>3, <1>4, <1>5, <1>6
     DEF P!StartUp, P!MakePipes, P!MakeFifo1, Parent, Child

LEMMA SClient ==
    ASSUME P!PipeCatAssumption, Always, Tidy, Tidy', NEW i \in P!Instances,
           \A j \in P!Instances : Sent(j), P!Client(i)
    PROVE  \A j \in P!Instances : Sent(j)'
<1>1. /\ Parent(i) \in P!Procs /\ Child(i) \in P!Procs /\ Parent(i) # Child(i) /\ P!TypeOK
      /\ Parent(i) = <<i, "client">> /\ UNCHANGED program /\ Sent(i)
      /\ {"show", "reap", "unlink1", "unlink2", "done"} \subseteq Points
  BY PShape DEF Always, Points, Parent, P!Client, P!NoInput, P!Ask, P!Show, P!ShowEnds, P!Reap,
     P!Unlink, P!ctl
<1>2. /\ pc[Parent(i)] \in {"ask", "show", "reap", "unlink1", "unlink2"} /\ Sole(i)
      /\ \A to \in Points : P!Step(Parent(i), pc[Parent(i)], to) =>
             pc'[Parent(i)] = to /\ \A q \in P!Procs \ {Parent(i)} : pc'[q] = pc[q]
  <2>1. pc[Parent(i)] \in {"ask", "show", "reap", "unlink1", "unlink2"}
    BY <1>1 DEF P!Client, P!NoInput, P!Ask, P!Show, P!ShowEnds, P!Reap, P!Unlink, P!Step
  <2>2. Sole(i)
    BY <2>1, TOwn DEF Idle
  <2> QED
    BY <1>1, <2>1, <2>2, PStep
<1>3. CASE P!NoInput(i)
  <2>1. PICK to \in {"reap", "show"} : P!Step(Parent(i), pc[Parent(i)], to)
    BY <1>1, <1>3 DEF P!NoInput, P!Step
  <2>2. /\ blank' = blank \cup {i} /\ UNCHANGED data
        /\ \A q \in P!Procs : q[1] # i => pc'[q] = pc[q]
    BY <1>1, <1>2, <1>3, <2>1, PShape DEF P!NoInput
  <2>3. Sent(i)'
    BY <2>2 DEF Sent
  <2> QED
    BY <1>1, <1>2, <2>2, <2>3, SFrame
<1>4. CASE P!Ask(i) \/ P!Show(i)
  <2>1. P!Step(Parent(i), pc[Parent(i)], "show") /\ UNCHANGED <<blank, linked>>
    BY <1>1, <1>4 DEF P!Ask, P!Show, P!Step, P!AfterShow, P!ctl
  <2>2. /\ P!To(Parent(i)) = {Own(i, 1)} /\ P!From(Parent(i)) = {Own(i, 2)}
        /\ Own(i, 1) \in P!Pipes /\ Own(i, 2) \in P!Pipes /\ Own(i, 1) # Own(i, 2)
        /\ \A f \in P!Pipes : data[f] \in Nat
    <3>1. pc[Parent(i)] \in {"ask", "show"}
      BY <1>1, <1>4 DEF P!Ask, P!Show, P!Step
    <3> QED
      BY <1>1, <3>1, TWork, TOwn, PNow
  <2>3. /\ P!Ask(i) => data'[Own(i, 1)] = data[Own(i, 1)] + 1
        /\ P!Show(i) => pc[Parent(i)] = "show" /\ data'[Own(i, 1)] = data[Own(i, 1)]
        /\ \A f \in P!Pipes : data'[f] # data[f] => f \in {Own(i, 1), Own(i, 2)}
    <3>1. ASSUME P!Ask(i)
          PROVE  data' = [f \in P!Pipes |-> IF f \in {Own(i, 1)} THEN data[f] + 1 ELSE data[f]]
      BY <1>1, <2>2, <3>1 DEF P!Ask, P!Put
    <3>2. ASSUME P!Show(i)
          PROVE  pc[Parent(i)] = "show" /\ data' = [data EXCEPT ![Own(i, 2)] = data[Own(i, 2)] - 1]
      BY <1>1, <2>2, <3>2 DEF P!Show, P!Step
    <3>3. data \in [P!Pipes -> Nat]
      BY <1>1, PNow
    <3> QED
      BY <1>4, <2>2, <3>1, <3>2, <3>3
  <2>4. Sent(i)'
    <3>1. Own(i, 1)' = Own(i, 1) /\ pc'[Parent(i)] = "show" /\ pc'[Child(i)] = pc[Child(i)]
      BY <1>1, <1>2, <2>1 DEF Own
    <3>2. data[Own(i, 1)] \in Nat
      BY <2>2
    <3> QED
      BY <1>1, <1>4, <2>1, <2>3, <3>1, <3>2 DEF Sent
  <2> QED
    BY <1>1, <1>2, <2>1, <2>3, <2>4, SMoves
<1>5. CASE P!ShowEnds(i)
  <2>1. /\ P!Step(Parent(i), pc[Parent(i)], "reap") /\ pc[Parent(i)] = "show"
        /\ UNCHANGED <<blank, linked, data>>
    BY <1>1, <1>5 DEF P!ShowEnds, P!Step, P!ctl
  <2>2. /\ pc'[Parent(i)] = "reap" /\ pc'[Child(i)] = pc[Child(i)]
        /\ Own(i, 1)' = Own(i, 1) /\ Together(i)'
    BY <1>1, <1>2, <2>1 DEF Own, Tidy
  <2>3. Sent(i)'
    BY <1>1, <2>1, <2>2 DEF Sent, Together, P!Ended
  <2> QED
    BY <1>1, <1>2, <2>1, <2>3, SMoves
<1>6. CASE P!Reap(i) \/ P!Unlink(i, 1) \/ P!Unlink(i, 2)
  <2>1. PICK to \in {"unlink1", "unlink2", "done"} : P!Step(Parent(i), pc[Parent(i)], to)
    BY <1>1, <1>6 DEF P!Reap, P!Unlink, P!Step
  <2>2. (UNCHANGED data \/ P!Leave(Parent(i))) /\ UNCHANGED blank
    BY <1>1, <1>6 DEF P!Reap, P!Unlink
  <2>3. Sent(i)'
    BY <1>1, <1>2, <2>1 DEF Sent
  <2> QED
    BY <1>1, <1>2, <2>1, <2>2, <2>3, SMoves
<1> QED
  BY <1>3, <1>4, <1>5, <1>6 DEF P!Client

LEMMA SServer ==
    ASSUME P!PipeCatAssumption, Always, Tidy, Tidy', NEW i \in P!Instances,
           \A j \in P!Instances : Sent(j), P!Server(i)
    PROVE  \A j \in P!Instances : Sent(j)'
<1>1. /\ Parent(i) \in P!Procs /\ Child(i) \in P!Procs /\ Parent(i) # Child(i) /\ P!TypeOK
      /\ Child(i) = <<i, "server">> /\ UNCHANGED <<program, blank>> /\ {"write", "done"} \subseteq Points
      /\ pc[Child(i)] \in {"read", "write"}
  BY PShape DEF Always, Points, Child, P!Server, P!Read, P!Write, P!ServerEnds, P!Step, P!ctl
<1>2. /\ P!To(Child(i)) = {Own(i, 2)} /\ P!From(Child(i)) = {Own(i, 1)} /\ Sole(i) /\ Together(i)'
      /\ data \in [P!Pipes -> Nat]
  BY <1>1, TWork, TOwn, PNow DEF P!Ended, Tidy
<1>3. PICK to \in {"write", "done"} : P!Step(Child(i), pc[Child(i)], to)
  BY <1>1 DEF P!Server, P!Read, P!Write, P!ServerEnds, P!Step
<1>4. pc'[Child(i)] = to
  BY <1>1, <1>3, PStep
<1>5. \/ P!Leave(Child(i))
      \/ \A f \in P!Pipes : data'[f] # data[f] => f \in {Own(i, 1), Own(i, 2)}
  <2>1. CASE P!Read(i)
    <3>1. data' = [data EXCEPT ![Own(i, 1)] = 0]
      BY <1>1, <1>2, <2>1 DEF P!Read
    <3> QED
      BY <1>2, <3>1
  <2>2. CASE P!Write(i)
    <3>1. data' = [f \in P!Pipes |-> IF f \in {Own(i, 2)} THEN data[f] + 1 ELSE data[f]]
      BY <1>1, <1>2, <2>2 DEF P!Write, P!Put
    <3> QED
      BY <3>1
  <2>3. CASE P!ServerEnds(i)
    BY <1>1, <2>3 DEF P!ServerEnds
  <2> QED
    BY <2>1, <2>2, <2>3 DEF P!Server
<1>6. Sent(i)'
  BY <1>2, <1>4 DEF Sent, Together, P!Ended
<1> QED
  BY <1>1, <1>2, <1>3, <1>5, <1>6, SMoves

LEMMA SDies ==
    ASSUME P!PipeCatAssumption, Always, Tidy, NEW p \in P!Procs,
           \A j \in P!Instances : Sent(j), P!Sigpipe(p)
    PROVE  \A j \in P!Instances : Sent(j)'
<1> DEFINE i == p[1]
<1>1. /\ i \in P!Instances /\ p \in {Parent(i), Child(i)} /\ P!TypeOK /\ "dead" \in Points
      /\ UNCHANGED <<program, blank>> /\ P!Leave(p) /\ pc[p] \in {"ask", "write"}
      /\ P!Step(p, pc[p], "dead")
  BY PShape DEF Always, Points, P!Sigpipe, P!Step, P!ctl
<1> HIDE DEF i
<1>2. pc'[p] = "dead"
  BY <1>1, PStep
<1>3. Sole(i)
  BY <1>1, TOwn DEF Idle, P!Ended
<1>4. Sent(i)'
  <2>1. Sent(i) /\ Roles(i) /\ program \in {"pipe", "fifo"}
    BY <1>1, PNow DEF Always
  <2>2. CASE p = Parent(i)
    BY <1>2, <2>2 DEF Sent
  <2>3. CASE p = Child(i)
    BY <1>2, <2>3 DEF Sent, P!Ended
  <2> QED
    BY <1>1, <2>2, <2>3
<1> QED
  BY <1>1, <1>3, <1>4, SMoves

LEMMA SAsked == ASSUME P!PipeCatAssumption, PipeInv, PipeInv', Asked, [P!Next]_P!vars PROVE Asked'
<1>1. ASSUME Clean', P!Next PROVE \A j \in P!Instances : Sent(j)'
  <2>1. Clean
    <3>1. ASSUME NEW i \in P!Instances, P!StartUp(i) PROVE Clean
      <4>1. CASE P!MakePipes(i) \/ P!MakeFifo1(i)
        BY <1>1, <4>1 DEF P!MakePipes, P!MakeFifo1, P!MakeFifo, P!Start, Clean, P!Sharing
      <4>2. CASE P!MakeFifo2(i) \/ P!Fork(i) \/ P!ForkFails(i)
        BY <1>1, <4>2 DEF P!MakeFifo2, P!MakeFifo, P!Fork, P!ForkFails, P!ctl, Clean, P!Sharing
      <4>3. ASSUME NEW p, P!CloseOthers(p) \/ P!Open(p, 1) \/ P!Open(p, 2) PROVE Clean
        BY <1>1, <4>3 DEF P!CloseOthers, P!Open, P!ctl, Clean, P!Sharing
      <4> QED
        BY <3>1, <4>1, <4>2, <4>3 DEF P!StartUp
    <3>2. ASSUME NEW i \in P!Instances, P!Client(i) PROVE Clean
      BY <1>1, <3>2 DEF P!Client, P!NoInput, P!Ask, P!Show, P!ShowEnds, P!Reap, P!Unlink, P!ctl,
         Clean, P!Sharing
    <3>3. ASSUME NEW i \in P!Instances, P!Server(i) PROVE Clean
      BY <1>1, <3>3 DEF P!Server, P!Read, P!Write, P!ServerEnds, P!ctl, Clean, P!Sharing
    <3>4. ASSUME NEW p \in P!Procs, P!Sigpipe(p) PROVE Clean
      BY <1>1, <3>4 DEF P!Sigpipe, P!ctl, Clean, P!Sharing
    <3>5. ASSUME NEW p \in P!Procs, P!Killed(p) PROVE Clean
      BY <1>1, <3>5 DEF P!Killed, Clean
    <3> QED
      BY <1>1, <3>1, <3>2, <3>3, <3>4, <3>5 DEF P!Next, P!Run
  <2>2. Always /\ Tidy /\ Tidy' /\ \A j \in P!Instances : Sent(j)
    BY <1>1, <2>1 DEF PipeInv, Asked
  <2>3. \A p \in P!Procs : ~P!Killed(p)
    BY <1>1 DEF Clean, P!Killed
  <2> QED
    BY <1>1, <2>2, <2>3, SStartUp, SClient, SServer, SDies DEF P!Next, P!Run
<1>2. ASSUME UNCHANGED P!vars PROVE Asked'
  BY <1>2 DEF P!vars, P!ctl, Asked, Sent, Clean, P!Sharing, Own, P!Ended, P!Instances
<1> QED
  BY <1>1, <1>2, Zenon DEF Asked, P!Instances

(* In a clean run an instance that has not ended waits for ever only for a *)
(* pathname that was never sent, or in open for a server fork did not make.*)
THEOREM OnlyTheUnaskedWait == ASSUME P!PipeCatAssumption PROVE P!Spec => []NoneWaits
<1>1. ASSUME PipeInv, Asked, Clean, NEW i \in P!Instances, ~PRuns(i)
      PROVE  \/ P!Ended(Parent(i)) /\ P!Ended(Child(i))
             \/ i \in blank /\ pc[Child(i)] = "read"
             \/ pc[Parent(i)] = "wait1" /\ pc[Child(i)] = "none"
  <2>1. Always /\ Tidy /\ Sent(i) /\ Roles(i) /\ Together(i)
    BY <1>1 DEF PipeInv, Asked, Always, Tidy
  <2>2. /\ data \in [P!Pipes -> Nat] /\ todo \in [P!Instances -> Nat] /\ Capacity > 0 /\ Capacity \in Nat
        /\ program \in {"pipe", "fifo"} /\ Parent(i) \in P!Procs /\ Child(i) \in P!Procs
        /\ Parent(i) # Child(i)
    BY <2>1, PNow, PInstances, PShape DEF Always
  <2>3. /\ pc[Parent(i)] \in {"wait1", "wait2", "show", "reap", "done", "dead"}
        /\ pc[Child(i)] \in {"none", "wait1", "wait2", "read", "write", "done", "dead"}
    BY <1>1, <2>1, <2>2 DEF Roles, PRuns
  <2>4. CASE pc[Parent(i)] = "show"
    <3>1. /\ P!From(Parent(i)) = {Own(i, 2)} /\ Own(i, 1) \in P!Pipes /\ Own(i, 2) \in P!Pipes
          /\ Sole(i) /\ ends[Parent(i)] = {<<"w", Own(i, 1)>>, <<"r", Own(i, 2)>>}
      BY <2>1, <2>4, TWork, TOwn, THas
    <3>2. data[Own(i, 2)] = 0 /\ ~P!AtEof(Parent(i))
      BY <1>1, <2>2, <2>4, <3>1 DEF PRuns
    <3>3. P!Writers(Own(i, 2)) # {}
      BY <3>1, <3>2 DEF P!AtEof
    <3>4. <<"w", Own(i, 2)>> \in ends[Child(i)]
      <4>1. Own(i, 1) # Own(i, 2) /\ <<"w", Own(i, 2)>> \notin ends[Parent(i)]
        BY <3>1 DEF Own
      <4>2. P!Writers(Own(i, 2)) = {q \in {Parent(i), Child(i)} : <<"w", Own(i, 2)>> \in ends[q]}
        BY <2>1, <3>1, TUsers
      <4> QED
        BY <3>3, <4>1, <4>2, Zenon
    <3>5. pc[Child(i)] \in {"read", "write"}
      <4>1. ends[Child(i)] # {} /\ pc[Child(i)] \notin {"wait1", "wait2"}
        BY <2>1, <2>4, <3>4 DEF Together
      <4> QED
        BY <2>1, <2>3, <4>1, THas
    <3>6. P!To(Child(i)) = {Own(i, 2)} /\ P!From(Child(i)) = {Own(i, 1)}
      BY <2>1, <3>5, TWork
    <3>7. pc[Child(i)] = "read"
      BY <1>1, <2>2, <3>2, <3>5, <3>6 DEF PRuns, P!HasRoom
    <3>8. data[Own(i, 1)] = 0
      BY <1>1, <2>2, <3>1, <3>6, <3>7 DEF PRuns
    <3> QED
      BY <2>1, <2>4, <3>7, <3>8 DEF Sent
  <2>5. CASE pc[Parent(i)] = "reap"
    BY <1>1, <2>1, <2>3, <2>5 DEF PRuns, Sent, Together
  <2>6. CASE pc[Parent(i)] \in {"done", "dead"}
    BY <2>1, <2>6 DEF Roles, Together, P!Ended
  <2>7. CASE pc[Parent(i)] \in {"wait1", "wait2"}
    BY <2>1, <2>3, <2>7 DEF Together
  <2> QED
    BY <2>3, <2>4, <2>5, <2>6, <2>7
<1>2. PipeInv /\ Asked => NoneWaits
  BY <1>1, Zenon DEF NoneWaits
<1>3. P!Init => Asked
  BY DEF P!Init, Asked, Sent, Parent, P!Procs
<1> QED
  BY <1>2, <1>3, PInit, PNext, SAsked, PTL DEF P!Spec
=============================================================================
