---------------------------- MODULE ProdConsProof ---------------------------
(***************************************************************************)
(* ProdCons for every number of producers and of items: the consumer is    *)
(* wrong only when it is too early, and main's total is right.             *)
(***************************************************************************)
EXTENDS ProdCons, TLAPS

(* Where each thread may be, and who has the mutex.                        *)
Places == /\ \A p \in Producers : pc[p] \in {"new", "lock", "put", "stored", "tally", "done"}
          /\ pc[Consumer] \in {"new", "test", "print", "done"}
          /\ \A p \in Producers : pc[p] \in {"put", "stored"} <=> mutex = p
          /\ pc[Consumer] \in {"new", "test", "print"} => i < nitems

(* Entry k holds item k below nput, and at nput once it is stored.         *)
Filled == /\ \A k \in 0 .. nput - 1 : buff[k] = k
          /\ \A p \in Producers : pc[p] = "stored" => nput < nitems /\ buff[nput] = nput
          /\ \A p \in Producers : pc[p] = "done" => nput = nitems

(* main has created the threads below mi, or joined them.                  *)
Joined == /\ mpc = "create" => sum = 0 /\ pc[Consumer] = "new"
                               /\ \A p \in Producers : p >= mi => pc[p] = "new"
          /\ mpc = "join" => \A p \in Producers : p < mi => pc[p] = "done"
          /\ mpc = "done" => mi = nthreads /\ \A p \in Producers : pc[p] = "done"

(* Items put by each producer, of which the last may not be in count yet;  *)
(* they add up to nput, and those of joined producers to sum.  The sum     *)
(* over the producers is the last of the partial sums s.                   *)
Made == [p \in Producers |-> count[p] + (IF pc[p] = "tally" THEN 1 ELSE 0)]

Sums(s, f) == /\ s \in [0 .. nthreads -> Nat] /\ s[0] = 0
              /\ \A p \in Producers : s[p + 1] = s[p] + f[p]
              /\ \A j, k \in 0 .. nthreads : j <= k => s[j] <= s[k]

Account == \E s \in [0 .. nthreads -> Nat] :
    /\ Sums(s, Made) /\ s[nthreads] = nput
    /\ mpc \in {"join", "done"} => s[mi] = sum

IInv == TypeOK /\ Places /\ Filled /\ Joined /\ Account

USE ProdConsAssumption

LEMMA ThreadsDistinct ==
    /\ \A p \in Producers : p \in Threads /\ p # Consumer /\ p # Free
    /\ Consumer \in Threads /\ Consumer # Free
  BY DEF Producers, Consumer, Threads, Free

(* One more item of one producer: the partial sums behind it grow by one.  *)
LEMMA SumsRaised ==
    ASSUME NEW f \in [Producers -> Nat], NEW p \in Producers, NEW s, Sums(s, f)
    PROVE  \E t \in [0 .. nthreads -> Nat] :
              /\ Sums(t, [f EXCEPT ![p] = @ + 1])
              /\ t[nthreads] = s[nthreads] + 1
              /\ \A k \in 0 .. p : t[k] = s[k]
<1> DEFINE g == [f EXCEPT ![p] = @ + 1]
           t == [k \in 0 .. nthreads |-> IF k > p THEN s[k] + 1 ELSE s[k]]
<1>1. p \in 0 .. nthreads - 1 /\ s \in [0 .. nthreads -> Nat]
  BY DEF Producers, Sums
<1>2. t \in [0 .. nthreads -> Nat]
  BY <1>1
<1>3. t[0] = 0 /\ t[nthreads] = s[nthreads] + 1 /\ \A k \in 0 .. p : t[k] = s[k]
  BY <1>1 DEF Sums
<1>4. ASSUME NEW q \in Producers PROVE t[q + 1] = t[q] + g[q]
  <2>1. q \in 0 .. nthreads - 1 /\ q \in 0 .. nthreads /\ q + 1 \in 0 .. nthreads
    BY DEF Producers
  <2>2. s[q + 1] = s[q] + f[q] /\ s[q] \in Nat /\ f[q] \in Nat
    BY <1>1, <2>1 DEF Sums
  <2>3. g[q] = IF q = p THEN f[q] + 1 ELSE f[q]
    OBVIOUS
  <2>4. /\ t[q] = IF q > p THEN s[q] + 1 ELSE s[q]
        /\ t[q + 1] = IF q + 1 > p THEN s[q + 1] + 1 ELSE s[q + 1]
    BY <2>1
  <2> HIDE DEF t, g
  <2> QED
    BY <1>1, <2>1, <2>2, <2>3, <2>4
<1>5. \A j, k \in 0 .. nthreads : j <= k => t[j] <= t[k]
  BY <1>1 DEF Sums
<1> QED
  BY <1>2, <1>3, <1>4, <1>5 DEF Sums

(* Each count is at most the last sum.                                     *)
LEMMA SumsBound ==
    ASSUME NEW f \in [Producers -> Nat], NEW s, Sums(s, f), NEW p \in Producers
    PROVE  f[p] <= s[nthreads]
<1>1. p + 1 \in 0 .. nthreads /\ p \in 0 .. nthreads /\ nthreads \in 0 .. nthreads
  BY DEF Producers
<1>2. s[p + 1] <= s[nthreads] /\ s[p + 1] = s[p] + f[p] /\ {s[p], s[p + 1], s[nthreads]} \subseteq Nat
  BY <1>1 DEF Sums
<1> QED
  BY <1>2

LEMMA MadeType == ASSUME count \in [Producers -> Nat]
                  PROVE  Made \in [Producers -> Nat]
  BY DEF Made

LEMMA InitInv == Init => IInv
<1> SUFFICES ASSUME Init PROVE IInv
  OBVIOUS
<1>1. TypeOK
  BY DEF Init, TypeOK, Threads, Consumer, Producers, Free
<1>2. Places /\ Filled /\ Joined
  BY ThreadsDistinct DEF Init, Places, Filled, Joined
<1>3. Account
  <2> DEFINE s == [k \in 0 .. nthreads |-> 0]
  <2>1. Sums(s, Made)
    BY ThreadsDistinct DEF Init, Sums, Made, Producers
  <2>2. s[nthreads] = nput /\ mpc = "create"
    BY DEF Init
  <2> QED
    BY <2>1, <2>2 DEF Account
<1> QED
  BY <1>1, <1>2, <1>3 DEF IInv

(* What the sum depends on: steps that put no item leave it alone.         *)
LEMMA AccountKept ==
    ASSUME Account, UNCHANGED <<Made, nput>>,
           \/ UNCHANGED <<mpc, mi, sum>>
           \/ mpc' \in {"create", "failed"}
    PROVE  Account'
  BY DEF Account

LEMMA ProduceInv == ASSUME IInv, NEW p \in Producers, Produce(p) PROVE IInv'
<1> USE DEF Step, shared, consumeVars, mainVars
<1>p. /\ \A q \in Producers : q \in Threads /\ q # Consumer /\ q # Free
      /\ Consumer \in Threads /\ Consumer # Free
  BY ThreadsDistinct
<1>t. TypeOK /\ Places /\ Filled /\ Joined /\ Account
  BY DEF IInv
<1>m. /\ UNCHANGED <<i, seen, printed, mpc, mi, sum>>
      /\ pc' = [pc EXCEPT ![p] = pc'[p]] /\ pc'[p] \notin {"new"} /\ pc[p] # "done"
      /\ pc[p] \notin {"new"} /\ mpc \notin {"failed", "done"}
  BY <1>t, <1>p DEF Produce, Lock, NoMoreItems, StoreItem, AdvancePut, Tally, TypeOK
<1>j. Joined'
  BY <1>t, <1>p, <1>m DEF Joined, TypeOK
<1>q. \A q \in Threads \ {p} : pc'[q] = pc[q]
  BY <1>m, <1>t DEF TypeOK
<1>f. Made \in [Producers -> Nat]
  BY <1>t, MadeType DEF TypeOK
<1>1. CASE Lock(p)
  <2>1. Places' /\ Filled'
    BY <1>1, <1>p, <1>t, <1>q DEF Lock, TypeOK, Places, Filled, Unlocked
  <2>2. TypeOK'
    BY <1>1, <1>p, <1>t DEF Lock, TypeOK
  <2>3. Made' = Made
    BY <1>1, <1>p, <1>t, <1>q DEF Lock, TypeOK, Made
  <2> QED
    BY <1>1, <1>t, <1>j, <2>1, <2>2, <2>3, AccountKept DEF Lock, IInv
<1>2. CASE NoMoreItems(p)
  <2>1. Places'
    BY <1>2, <1>p, <1>t, <1>q DEF NoMoreItems, Released, TypeOK, Places
  <2>2. Filled'
    BY <1>2, <1>p, <1>t, <1>q DEF NoMoreItems, Full, TypeOK, Filled
  <2>3. TypeOK'
    BY <1>2, <1>p, <1>t DEF NoMoreItems, Released, TypeOK
  <2>4. Made' = Made
    BY <1>2, <1>p, <1>t, <1>q DEF NoMoreItems, TypeOK, Made
  <2> QED
    BY <1>2, <1>t, <1>j, <2>1, <2>2, <2>3, <2>4, AccountKept DEF NoMoreItems, IInv
<1>3. CASE StoreItem(p)
  <2>1. Places'
    BY <1>3, <1>p, <1>t, <1>q DEF StoreItem, TypeOK, Places
  <2>2. Filled'
    BY <1>3, <1>p, <1>t, <1>q DEF StoreItem, Full, TypeOK, Filled, Places
  <2>3. TypeOK'
    BY <1>3, <1>p, <1>t DEF StoreItem, Full, TypeOK
  <2>4. Made' = Made
    BY <1>3, <1>p, <1>t, <1>q DEF StoreItem, TypeOK, Made
  <2> QED
    BY <1>3, <1>t, <1>j, <2>1, <2>2, <2>3, <2>4, AccountKept DEF StoreItem, IInv
<1>4. CASE AdvancePut(p)
  <2>1. Places'
    BY <1>4, <1>p, <1>t, <1>q DEF AdvancePut, TypeOK, Places
  <2>2. Filled'
    BY <1>4, <1>p, <1>t, <1>q DEF AdvancePut, TypeOK, Filled, Places
  <2>3. TypeOK'
    <3>1. nput + 1 \in 0 .. nitems /\ nval' = nput'
      BY <1>4, <1>t DEF AdvancePut, Filled, TypeOK
    <3> QED
      BY <1>4, <1>p, <1>t, <3>1 DEF AdvancePut, TypeOK
  <2>4. Made' = [Made EXCEPT ![p] = @ + 1]
    <3>1. count' = count /\ pc[p] = "stored" /\ pc'[p] = "tally"
      BY <1>4, <1>p, <1>t DEF AdvancePut, TypeOK
    <3>2. \A q \in Producers : count[q] \in Nat
      BY <1>t DEF TypeOK
    <3>3. ASSUME NEW q \in Producers PROVE Made'[q] = [Made EXCEPT ![p] = @ + 1][q]
      BY <1>q, <1>p, <3>1, <3>2 DEF Made
    <3> QED
      BY <3>3 DEF Made
  <2>5. Account'
    <3>1. PICK s : /\ Sums(s, Made) /\ s[nthreads] = nput
                   /\ mpc \in {"join", "done"} => s[mi] = sum
      BY <1>t DEF Account
    <3>2. PICK t \in [0 .. nthreads -> Nat] :
             /\ Sums(t, Made') /\ t[nthreads] = s[nthreads] + 1
             /\ \A k \in 0 .. p : t[k] = s[k]
      <4>1. \E t \in [0 .. nthreads -> Nat] :
               /\ Sums(t, [Made EXCEPT ![p] = @ + 1])
               /\ t[nthreads] = s[nthreads] + 1
               /\ \A k \in 0 .. p : t[k] = s[k]
        BY <1>f, <3>1, SumsRaised
      <4> QED
        BY <2>4, <4>1
    <3>3. mpc = "join" => mi \in 0 .. p
      <4>1. mi \in 0 .. nthreads /\ p \in 0 .. nthreads - 1
        BY <1>t DEF TypeOK, Producers
      <4>2. mpc = "join" => ~(p < mi)
        BY <1>t, <1>m DEF Joined
      <4> QED
        BY <4>1, <4>2
    <3>4. t[nthreads] = nput' /\ (mpc' \in {"join", "done"} => t[mi'] = sum')
      BY <1>4, <1>m, <3>1, <3>2, <3>3 DEF AdvancePut
    <3>5. Sums(t, Made)'
      BY <3>2 DEF Sums
    <3> QED
      BY <3>2, <3>4, <3>5 DEF Account
  <2> QED
    BY <1>j, <2>1, <2>2, <2>3, <2>5 DEF IInv
<1>5. CASE Tally(p)
  <2>1. Places' /\ Filled'
    BY <1>5, <1>p, <1>t, <1>q DEF Tally, TypeOK, Places, Filled
  <2>2. Made' = Made
    BY <1>5, <1>p, <1>t, <1>q DEF Tally, TypeOK, Made
  <2>3. Made[p] <= nput /\ Made[p] = count[p] + 1
    BY <1>5, <1>f, <1>t, SumsBound DEF Account, Made, Tally
  <2>4. TypeOK'
    <3>1. count[p] + 1 \in 0 .. nitems
      BY <1>t, <2>3 DEF TypeOK
    <3> QED
      BY <1>5, <1>p, <1>t, <3>1 DEF Tally, TypeOK
  <2> QED
    BY <1>5, <1>t, <1>j, <2>1, <2>2, <2>4, AccountKept DEF Tally, IInv
<1> QED
  BY <1>1, <1>2, <1>3, <1>4, <1>5 DEF Produce

(* The consumer changes nothing that the producers and main rely on.       *)
LEMMA ConsumeInv == ASSUME IInv, Consume PROVE IInv'
<1> USE DEF Step, shared, mainVars
<1>p. /\ \A q \in Producers : q \in Threads /\ q # Consumer /\ q # Free
      /\ Consumer \in Threads /\ Consumer # Free
  BY ThreadsDistinct
<1>t. TypeOK /\ Places /\ Filled /\ Joined /\ Account
  BY DEF IInv
<1>m. /\ UNCHANGED <<buff, nput, nval, mutex, count, mpc, mi, sum>>
      /\ \A q \in Producers : pc'[q] = pc[q]
      /\ pc' = [pc EXCEPT ![Consumer] = pc'[Consumer]]
      /\ pc[Consumer] \in {"test", "print"} /\ i < nitems
      /\ \/ pc'[Consumer] \in {"test", "print"} /\ i' = i
         \/ pc'[Consumer] = After /\ i' = i + 1
  <2>1. PICK v : pc' = [pc EXCEPT ![Consumer] = v]
    BY DEF Consume, ItemThere, ItemDiffers, PrintItem
  <2>2. pc'[Consumer] = v /\ \A q \in Producers : pc'[q] = pc[q]
    BY <1>t, <1>p, <2>1 DEF TypeOK
  <2>3. pc[Consumer] \in {"test", "print"} /\ UNCHANGED <<buff, nput, nval, mutex, count, mpc, mi, sum>>
    BY DEF Consume, ItemThere, ItemDiffers, PrintItem
  <2>4. \/ v \in {"test", "print"} /\ i' = i
        \/ v = After /\ i' = i + 1
    BY <1>t, <1>p, <2>2 DEF Consume, ItemThere, ItemDiffers, PrintItem, TypeOK
  <2> QED
    BY <1>t, <2>1, <2>2, <2>3, <2>4 DEF Places
<1>1. TypeOK'
  <2>1. pc' \in [Threads -> {"new", "lock", "put", "stored", "tally", "test", "print", "done"}]
    BY <1>m, <1>t DEF TypeOK, After
  <2>2. i' \in 0 .. nitems
    BY <1>m, <1>t DEF TypeOK
  <2>3. i \in 0 .. nitems - 1 /\ buff[i] \in 0 .. nitems - 1
    BY <1>m, <1>t DEF TypeOK
  <2>4. seen' \in 0 .. nitems - 1
    BY <1>t, <2>3 DEF TypeOK, Consume, ItemThere, ItemDiffers, PrintItem
  <2>5. printed' \subseteq (0 .. nitems - 1) \X (0 .. nitems - 1)
    <3>1. seen \in 0 .. nitems - 1 /\ printed \subseteq (0 .. nitems - 1) \X (0 .. nitems - 1)
      BY <1>t DEF TypeOK
    <3>2. printed' = printed \/ \E v \in {seen, buff[i]} : printed' = printed \cup {<<i, v>>}
      BY DEF Consume, ItemThere, ItemDiffers, PrintItem
    <3> QED
      BY <2>3, <3>1, <3>2
  <2> QED
    BY <1>m, <1>t, <2>1, <2>2, <2>4, <2>5 DEF TypeOK
<1>2. Places'
  BY <1>m, <1>t, <1>p DEF Places, TypeOK, After
<1>3. Filled' /\ Joined'
  BY <1>m, <1>t DEF Filled, Joined
<1>4. Made' = Made
  BY <1>m DEF Made
<1> QED
  BY <1>1, <1>2, <1>3, <1>4, <1>m, <1>t, AccountKept DEF IInv

LEMMA MainInv == ASSUME IInv, Main PROVE IInv'
<1> USE DEF Step, shared, consumeVars
<1>p. /\ \A q \in Producers : q \in Threads /\ q # Consumer /\ q # Free
      /\ Consumer \in Threads /\ Consumer # Free
  BY ThreadsDistinct
<1>t. TypeOK /\ Places /\ Filled /\ Joined /\ Account
  BY DEF IInv
<1>f. Made \in [Producers -> Nat]
  BY <1>t, MadeType DEF TypeOK
<1>1. CASE CreateProducer
  <2>1. mi \in Producers /\ pc[mi] = "new" /\ pc'[mi] = "lock"
        /\ \A q \in Threads \ {mi} : pc'[q] = pc[q]
    BY <1>1, <1>t, <1>p DEF CreateProducer, TypeOK, Producers
  <2>2. TypeOK'
    <3>1. mi' \in 0 .. nthreads
      BY <1>1, <1>t DEF CreateProducer, TypeOK
    <3> QED
      BY <1>1, <1>t, <3>1 DEF CreateProducer, TypeOK
  <2>3. Places' /\ Filled'
    BY <1>1, <1>t, <1>p, <2>1 DEF CreateProducer, Places, Filled
  <2>4. Joined'
    BY <1>1, <1>t, <1>p, <2>1 DEF CreateProducer, Joined, TypeOK, Producers
  <2>5. Made' = Made
    BY <1>1, <1>p, <2>1 DEF CreateProducer, Made
  <2> QED
    BY <1>1, <1>t, <2>2, <2>3, <2>4, <2>5, AccountKept DEF CreateProducer, IInv
<1>2. CASE CreateFails \/ JoinNobody
  <2>1. TypeOK' /\ Places' /\ Filled' /\ Joined' /\ Made' = Made
    BY <1>2, <1>t DEF CreateFails, JoinNobody, TypeOK, Places, Filled, Joined, Made
  <2> QED
    BY <1>2, <1>t, <2>1, AccountKept DEF CreateFails, JoinNobody, IInv
<1>3. CASE CreateConsumer
  <2>0. PICK to \in {"test", "new"} : Step(Consumer, "new", to)
    BY <1>3 DEF CreateConsumer
  <2>1. pc'[Consumer] \in {"test", "new"} /\ \A q \in Producers : pc'[q] = pc[q]
    BY <2>0, <1>t, <1>p DEF TypeOK
  <2>2. TypeOK'
    <3>1. pc' \in [Threads -> {"new", "lock", "put", "stored", "tally", "test", "print", "done"}]
      BY <2>0, <1>t, <1>p DEF TypeOK
    <3>2. mi' \in 0 .. nthreads
      BY <1>3, ProdConsAssumption DEF CreateConsumer
    <3> QED
      BY <1>3, <1>t, <3>1, <3>2 DEF CreateConsumer, TypeOK
  <2>3. Places' /\ Filled'
    BY <1>3, <1>t, <1>p, <2>1 DEF CreateConsumer, Places, Filled
  <2>4. Joined'
    BY <1>3, <1>t, <1>p, <2>1 DEF CreateConsumer, Joined, Producers
  <2>5. Made' = Made
    BY <1>3, <2>1 DEF CreateConsumer, Made
  <2>6. Account'
    BY <1>3, <1>t, <2>5 DEF CreateConsumer, Account, Joined, Sums
  <2> QED
    BY <2>2, <2>3, <2>4, <2>6 DEF IInv
<1>4. CASE JoinProducer
  <2>1. mi \in Producers /\ pc[mi] = "done" /\ Made[mi] = count[mi] /\ Made' = Made
    <3>1. mi \in Producers /\ pc[mi] = "done" /\ UNCHANGED <<pc, count>>
      BY <1>4, <1>t DEF JoinProducer, Joinable, TypeOK, Producers
    <3>2. count[mi] \in Nat
      BY <1>t, <3>1 DEF TypeOK
    <3> QED
      BY <3>1, <3>2 DEF Made
  <2>2. PICK s : Sums(s, Made) /\ s[nthreads] = nput /\ s[mi] = sum
    BY <1>4, <1>t DEF Account, JoinProducer
  <2>3. s[mi'] = sum' /\ s[mi'] <= nput /\ s \in [0 .. nthreads -> Nat] /\ mi' \in 0 .. nthreads
    <3>1. mi \in 0 .. nthreads - 1 /\ mi' = mi + 1 /\ sum' = sum + count[mi]
      BY <1>4, <1>t DEF JoinProducer, TypeOK
    <3>2. s \in [0 .. nthreads -> Nat] /\ s[mi + 1] = s[mi] + count[mi]
      BY <2>1, <2>2 DEF Sums
    <3>3. mi + 1 \in 0 .. nthreads /\ nthreads \in 0 .. nthreads
      BY <3>1
    <3>4. s[mi + 1] <= s[nthreads]
      BY <2>2, <3>1, <3>3 DEF Sums
    <3> QED
      BY <2>2, <3>1, <3>2, <3>3, <3>4
  <2>4. sum' \in 0 .. nitems
    BY <1>t, <2>2, <2>3 DEF TypeOK
  <2>5. TypeOK'
    BY <1>4, <1>t, <2>3, <2>4 DEF JoinProducer, TypeOK
  <2>6. Places' /\ Filled'
    BY <1>4, <1>t DEF JoinProducer, Places, Filled
  <2>7. Joined'
    BY <1>4, <1>t, <2>1 DEF JoinProducer, Joined, TypeOK, Producers
  <2>8. Account'
    BY <1>4, <2>1, <2>2, <2>3 DEF JoinProducer, Account, Sums
  <2> QED
    BY <2>5, <2>6, <2>7, <2>8 DEF IInv
<1>5. CASE JoinConsumer
  <2>1. TypeOK' /\ Places' /\ Filled'
    BY <1>5, <1>t DEF JoinConsumer, TypeOK, Places, Filled
  <2>2. Joined'
    BY <1>5, <1>t DEF JoinConsumer, Joined, Producers
  <2>3. Account'
    BY <1>5, <1>t DEF JoinConsumer, Account, Sums, Made
  <2> QED
    BY <2>1, <2>2, <2>3 DEF IInv
<1> QED
  BY <1>1, <1>2, <1>3, <1>4, <1>5 DEF Main

LEMMA StepInv == ASSUME IInv, [Next]_vars PROVE IInv'
<1>1. CASE Next
  BY <1>1, ProduceInv, ConsumeInv, MainInv DEF Next
<1>2. CASE UNCHANGED vars
  <2>1. UNCHANGED <<buff, nput, nval, mutex, pc, count, i, seen, printed, mpc, mi, sum>>
    BY <1>2 DEF vars, shared, consumeVars, mainVars
  <2>2. TypeOK' /\ Places' /\ Filled' /\ Joined' /\ Made' = Made
    BY <2>1 DEF IInv, TypeOK, Places, Filled, Joined, Made
  <2> QED
    BY <2>1, <2>2, AccountKept DEF IInv
<1> QED
  BY <1>1, <1>2

LEMMA Invariant == Spec => []IInv
  BY InitInv, StepInv, PTL DEF Spec

(* OnlyEarlyReadsDiffer: whatever consume() prints, it was too early: the  *)
(* entry it found wrong had not been put when it looked.                   *)
THEOREM DifferOnlyIfEarly == Spec => OnlyEarlyReadsDiffer
<1>1. ASSUME IInv, [Next]_vars PROVE [ItemDiffers => i >= nput]_vars
  BY <1>1 DEF ItemDiffers, IInv, Filled, TypeOK
<1> QED
  BY <1>1, Invariant, PTL DEF Spec, OnlyEarlyReadsDiffer

(* MainReport: the counts main() adds up come to nitems, and every entry   *)
(* then holds its item, for any number of threads; and types are right.    *)
THEOREM ReportIsRight == Spec => []MainReport
<1>1. ASSUME IInv PROVE MainReport
  <2>1. TypeOK
    BY <1>1 DEF IInv
  <2>2. ASSUME mpc = "done" PROVE sum = nitems /\ \A k \in 0 .. nitems - 1 : buff[k] = k
    <3>1. 0 \in Producers /\ pc[0] = "done" /\ mi = nthreads
      BY <1>1, <2>2 DEF IInv, Joined, Producers
    <3>2. nput = nitems
      BY <1>1, <3>1 DEF IInv, Filled
    <3> QED
      BY <1>1, <2>2, <3>1, <3>2 DEF IInv, Account, Filled
  <2> QED
    BY <2>1, <2>2 DEF MainReport
<1> QED
  BY <1>1, Invariant, PTL
=============================================================================
