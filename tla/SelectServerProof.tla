------------------------- MODULE SelectServerProof --------------------------
(***************************************************************************)
(* SelectServer for any number of clients, any size of the table and of    *)
(* the descriptor sets, and any bits that allset starts with: the table,   *)
(* what the server reads from, and what makes it end.                      *)
(***************************************************************************)
EXTENDS SelectServer, FiniteSetTheorems, FunctionTheorems, WellFoundedInduction, TLAPS

USE SelectAssumption DEF listenfd

----------------------------------------------------------------------------
(* The inductive invariant.                                                *)

(* The table: which entries are in use, and which bits are set.            *)
Used == {k \in Indices : clientfd[k] # -1}
Open == {f \in ConnFds : conn[f] # None}

Entries == /\ \A k \in Used : clientfd[k] \in Open /\ k <= maxi /\ clientfd[k] <= maxfd
           /\ \A f \in Open : \E k \in Used : clientfd[k] = f
           /\ \A j, k \in Used : clientfd[j] = clientfd[k] => j = k
Bits == /\ \A f \in ConnFds : f <= maxfd => (f \in allset <=> f \in Open)
        /\ \A f \in allset : f > maxfd => f \in garbage

(* Each client connects once, and has one descriptor.                      *)
Once == /\ \A f \in Open : peer[conn[f]] # "new"
        /\ \A f, g \in Open : conn[f] = conn[g] => f = g
Queued == /\ \A n \in 1 .. Len(backlog) : peer[backlog[n]] # "new"
                                          /\ \A f \in ConnFds : conn[f] # backlog[n]
          /\ \A m, n \in 1 .. Len(backlog) : backlog[m] = backlog[n] => m = n

(* The bits of rset that are still to be handled.  While it writes the     *)
(* server is at the entry it has read from.                                *)
Due(f) == Readable(f) \/ f \in garbage
Walk == /\ spc = "accept" => /\ backlog # << >> /\ i = 0
                             /\ \A f \in ConnFds : f \in rset => Due(f)
        /\ spc \in {"scan", "write"} =>
              \A k \in Used : k >= i /\ (spc = "write" => k > i) /\ clientfd[k] \in rset
                                 => Due(clientfd[k])
        /\ spc = "write" => i \in Used /\ clientfd[i] \in rset

(* While it writes the server has bytes left, and there is room for the    *)
(* first to a client that has closed, which had read all.                  *)
Writing == /\ spc = "write" => buff > 0
           /\ \A c \in Conns : peer[c] = "closed" => toClient[c] = 0

IInv == TypeOK /\ Entries /\ Bits /\ Once /\ Queued /\ Walk /\ Writing /\ EndsOnlyWhenFull

----------------------------------------------------------------------------
(* Smallest elements, and words.                                           *)
LEMMA Smallest ==
    ASSUME NEW S \in SUBSET Nat, S # {}
    PROVE  Min(S) \in S /\ \A k \in S : Min(S) <= k
<1>1. IsWellFoundedOn({ss \in Nat \X Nat : ss[1] < ss[2]}, Nat)
  BY NatLessThanWellFounded, Zenon DEF OpToRel
<1>2. PICK m \in S : \A y \in S : <<y, m>> \notin {ss \in Nat \X Nat : ss[1] < ss[2]}
  BY <1>1, WFMin
<1>3. ASSUME NEW k \in S PROVE m <= k
  <2>1. ~ (k < m)
    BY <1>2
  <2> QED
    BY <2>1
<1> QED
  BY <1>3 DEF Min

LEMMA QuotientsGrow ==
    ASSUME NEW a \in Nat, NEW b \in Nat, NEW w \in Nat \ {0}, a <= b
    PROVE  a \div w <= b \div w
<1> DEFINE p == a \div w
           q == b \div w
<1>1. /\ p \in Int /\ q \in Int
      /\ a = p * w + (a % w) /\ b = q * w + (b % w)
      /\ a % w \in 0 .. w - 1 /\ b % w \in 0 .. w - 1
  OBVIOUS
<1> QED
  BY <1>1

LEMMA WordsGrow == \A f, g \in Nat : f <= g => Word(f) <= Word(g)
<1>1. WordBits \in Nat \ {0}
  OBVIOUS
<1> QED
  BY <1>1, QuotientsGrow DEF Word

LEMMA Fds ==
    /\ FD_SETSIZE \in Nat /\ FD_SETSIZE > listenfd
    /\ Indices \subseteq Nat /\ ConnFds \subseteq Indices /\ listenfd \in Indices \ ConnFds
    /\ \A f \in ConnFds : f \in Nat /\ f > listenfd
    /\ -1 \notin ConnFds /\ -1 \notin Indices
BY DEF ConnFds, Indices

LEMMA Sizes ==
    /\ IsFiniteSet(Indices) /\ Cardinality(Indices) = FD_SETSIZE
    /\ IsFiniteSet(ConnFds) /\ Cardinality(ConnFds) = FD_SETSIZE - 4
<1> DEFINE a == FD_SETSIZE - 1
<1>1. /\ a \in Int /\ 0 \in Int /\ listenfd + 1 \in Int
      /\ a >= 0 /\ a - 0 + 1 = FD_SETSIZE
      /\ a - (listenfd + 1) + 1 = FD_SETSIZE - 4
      /\ listenfd + 1 > a => FD_SETSIZE - 4 = 0
  OBVIOUS
<1> HIDE DEF a
<1>2. IsFiniteSet(0 .. a) /\ Cardinality(0 .. a) = IF 0 > a THEN 0 ELSE a - 0 + 1
  BY <1>1, FS_Interval
<1>3. /\ IsFiniteSet(listenfd + 1 .. a)
      /\ Cardinality(listenfd + 1 .. a)
            = IF listenfd + 1 > a THEN 0 ELSE a - (listenfd + 1) + 1
  BY <1>1, FS_Interval
<1>4. Cardinality(0 .. a) = FD_SETSIZE /\ Cardinality(listenfd + 1 .. a) = FD_SETSIZE - 4
  BY <1>1, <1>2, <1>3
<1> QED
  BY <1>2, <1>3, <1>4 DEF Indices, ConnFds, a

LEMMA Shape ==
    ASSUME TypeOK, Entries
    PROVE  /\ \A k \in Used : k \in Indices /\ k \in Nat /\ clientfd[k] \in Open
                              /\ clientfd[k] \in ConnFds
           /\ \A f \in Open : f \in ConnFds /\ conn[f] \in Conns
           /\ i \in Nat /\ maxi \in Int /\ maxfd \in Nat /\ maxfd >= listenfd
BY Fds DEF TypeOK, Entries, Used, Open

(* The entry that the loop comes to.                                       *)
LEMMA AtHit ==
    ASSUME TypeOK, Entries
    PROVE  /\ \A k : k \in Hits <=> k \in Used /\ k >= i /\ clientfd[k] \in rset
           /\ Hits # {} => Hit \in Hits /\ \A k \in Hits : Hit <= k
<1>1. ASSUME NEW k
      PROVE  k \in Hits <=> k \in Used /\ k >= i /\ clientfd[k] \in rset
  <2>1. k \in i .. maxi => k \in Indices
    BY DEF TypeOK, Indices
  <2>2. k \in Indices => clientfd[k] \in {-1} \cup ConnFds
    BY DEF TypeOK
  <2>3. k \in Indices => (clientfd[k] >= 0 <=> clientfd[k] # -1)
    <3>1. \A f \in ConnFds : f >= 0 /\ f # -1
      BY Fds
    <3> QED
      BY <2>2, <3>1
  <2>4. k \in Used => k \in Indices /\ k <= maxi
    <3>1. \A j \in Used : j <= maxi
      BY Zenon DEF Entries
    <3> QED
      BY <3>1 DEF Used
  <2>5. i \in Int /\ maxi \in Int /\ (k \in Indices => k \in Int)
    BY Shape DEF Indices
  <2> QED
    BY <2>1, <2>3, <2>4, <2>5 DEF Hits, IsSet, Used
<1>2. Hits \in SUBSET Nat
  BY <1>1, Shape
<1> QED
  BY <1>1, <1>2, Smallest DEF Hit

LEMMA AtWrite ==
    ASSUME TypeOK, Entries, Walk, spc = "write"
    PROVE  i \in Hits /\ Hit = i
<1>1. i \in Used /\ i \in Nat /\ clientfd[i] \in rset
  BY Shape DEF Walk
<1>2. i \in Hits
  BY <1>1, AtHit
<1>3. \A k \in Hits : k >= i /\ k \in Nat
  BY AtHit, Shape
<1>4. Hit <= i /\ Hit >= i /\ Hit \in Nat
  BY <1>2, <1>3, AtHit
<1> QED
  BY <1>1, <1>2, <1>4

----------------------------------------------------------------------------
LEMMA InitInv == Init => IInv
<1> SUFFICES ASSUME Init PROVE IInv
  OBVIOUS
<1>1. TypeOK
  <2>1. /\ clientfd \in [Indices -> {-1} \cup ConnFds] /\ maxi \in -1 .. FD_SETSIZE - 1
        /\ {allset, rset, garbage} \subseteq SUBSET Indices
        /\ nready \in 0 .. FD_SETSIZE /\ i \in 0 .. FD_SETSIZE /\ buff \in 0 .. BuffSize
    BY Fds DEF Init, Indices
  <2>2. {sent, unread, written} \subseteq [Conns -> Nat] /\ toClient \in [Conns -> 0 .. Capacity]
    BY DEF Init
  <2> QED
    BY <2>1, <2>2 DEF Init, TypeOK
<1>2. Used = {} /\ Open = {}
  BY DEF Init, Used, Open
<1>3. Bits
  BY <1>2, Fds DEF Init, Bits
<1>4. Entries /\ Once /\ Queued /\ Walk /\ Writing /\ EndsOnlyWhenFull
  BY <1>2 DEF Init, Entries, Once, Queued, Walk, Writing, EndsOnlyWhenFull
<1> QED
  BY <1>1, <1>3, <1>4 DEF IInv

(* Clients and network: whoever is readable, or has gone, remains so.      *)
LEMMA ConnectKeeps == ASSUME IInv, ~ Down, NEW c \in Conns, Connect(c) PROVE IInv'
<1> USE DEF IInv
<1>1. /\ UNCHANGED <<clientfd, maxi, maxfd, allset, rset, nready, i, buff, spc, garbage, limit>>
      /\ UNCHANGED <<conn, sent, unread, written, toClient>>
      /\ peer[c] = "new" /\ peer' = [peer EXCEPT ![c] = "open"]
      /\ backlog \in Seq(Conns) /\ backlog' = Append(backlog, c)
  BY DEF Connect, serverVars, given, tableVars, TypeOK
<1>2. /\ Len(backlog) \in Nat /\ Len(backlog') = Len(backlog) + 1 /\ backlog' # << >>
      /\ \A n \in 1 .. Len(backlog) : backlog'[n] = backlog[n] /\ backlog[n] \in Conns
      /\ backlog'[Len(backlog) + 1] = c /\ backlog' \in Seq(Conns)
  BY <1>1
<1>3. Used' = Used /\ Open' = Open
  BY <1>1 DEF Used, Open
<1>4. TypeOK'
  BY <1>1, <1>2 DEF TypeOK
<1>5. Entries' /\ Bits'
  BY <1>1, <1>3 DEF Entries, Bits
<1>6. \A f \in Open : conn[f] # c /\ conn[f] \in Conns
  BY <1>1, Shape DEF Once
<1>7. \A d \in Conns : peer[d] # "new" => peer'[d] = peer[d] /\ d # c
  BY <1>1 DEF TypeOK
<1>8. Once'
  BY <1>1, <1>3, <1>6, <1>7 DEF Once
<1>9. Queued'
  <2>1. ASSUME NEW n \in 1 .. Len(backlog')
        PROVE  /\ peer'[backlog'[n]] # "new" /\ \A f \in ConnFds : conn[f] # backlog'[n]
               /\ n \in 1 .. Len(backlog) => backlog'[n] # c
    <3>1. CASE n \in 1 .. Len(backlog)
      BY <1>2, <1>7, <3>1 DEF Queued
    <3>2. CASE n = Len(backlog) + 1
      <4>1. \A f \in ConnFds : conn[f] # c
        BY <1>6 DEF Open
      <4>2. peer'[c] = "open"
        BY <1>1 DEF TypeOK
      <4> QED
        BY <1>2, <3>2, <4>1, <4>2
    <3> QED
      BY <1>2, <3>1, <3>2
  <2>2. ASSUME NEW m \in 1 .. Len(backlog'), NEW n \in 1 .. Len(backlog'),
               backlog'[m] = backlog'[n]
        PROVE  m = n
    <3>1. CASE m \in 1 .. Len(backlog) /\ n \in 1 .. Len(backlog)
      BY <1>2, <2>2, <3>1 DEF Queued
    <3>2. CASE m = Len(backlog) + 1 \/ n = Len(backlog) + 1
      BY <1>2, <2>1, <2>2, <3>2
    <3> QED
      BY <1>2, <3>1, <3>2
  <2> QED
    BY <1>1, <2>1, <2>2 DEF Queued
<1>10. \A f : Due(f) => Due(f)'
  <2>1. ASSUME NEW f \in ConnFds, conn[f] # None
        PROVE  conn[f] \in Conns /\ peer'[conn[f]] = peer[conn[f]]
    BY <1>6, <1>7, <2>1 DEF Open, Once
  <2> QED
    BY <1>1, <1>2, <2>1 DEF Due, Readable, Gone
<1>11. Walk'
  BY <1>1, <1>2, <1>3, <1>10 DEF Walk
<1>12. EndsOnlyWhenFull'
  BY <1>1 DEF EndsOnlyWhenFull, Down
<1>13. Writing'
  BY <1>1 DEF Writing, TypeOK
<1> QED
  BY <1>4, <1>5, <1>8, <1>9, <1>11, <1>12, <1>13

LEMMA PeerKeeps ==
    ASSUME IInv, ~ Down, NEW c \in Conns, Send(c) \/ Take(c) \/ Leave(c)
    PROVE  IInv'
<1> USE DEF IInv
<1>t. /\ sent \in [Conns -> Nat] /\ unread \in [Conns -> Nat]
      /\ toClient \in [Conns -> 0 .. Capacity] /\ Capacity \in Nat
      /\ peer \in [Conns -> {"new", "open", "closed", "refused", "reset", "lost"}]
  BY DEF TypeOK
<1>1. /\ UNCHANGED <<clientfd, maxi, maxfd, allset, rset, nready, i, buff, spc, garbage, limit>>
      /\ UNCHANGED <<conn, backlog, written>> /\ peer[c] = "open"
      /\ peer' \in [Conns -> {"new", "open", "closed", "refused", "reset", "lost"}]
      /\ sent' \in [Conns -> Nat] /\ unread' \in [Conns -> Nat]
      /\ toClient' \in [Conns -> 0 .. Capacity]
      /\ \A d \in Conns \ {c} : /\ peer'[d] = peer[d] /\ unread'[d] = unread[d]
                                /\ toClient'[d] = toClient[d]
      /\ peer'[c] # "new" /\ (peer'[c] = "closed" => toClient'[c] = 0)
      /\ peer'[c] \in {"open", "lost"} => unread'[c] >= unread[c]
  <2>1. CASE Send(c)
    <3>1. /\ UNCHANGED <<serverVars, conn, backlog, peer, written, toClient>> /\ peer[c] = "open"
          /\ sent' = [sent EXCEPT ![c] = @ + 1] /\ unread' = [unread EXCEPT ![c] = @ + 1]
      BY <2>1, Zenon DEF Send
    <3>2. /\ sent' \in [Conns -> Nat] /\ unread' \in [Conns -> Nat] /\ unread'[c] >= unread[c]
          /\ \A d \in Conns \ {c} : unread'[d] = unread[d]
      BY <1>t, <3>1
    <3> QED
      BY <1>t, <3>1, <3>2 DEF serverVars, given, tableVars
  <2>2. CASE Take(c)
    <3>1. /\ UNCHANGED <<serverVars, conn, backlog, peer, sent, unread, written>> /\ peer[c] = "open"
          /\ toClient[c] > 0 /\ toClient' = [toClient EXCEPT ![c] = @ - 1]
      BY <2>2, Zenon DEF Take
    <3>2. /\ toClient' \in [Conns -> 0 .. Capacity]
          /\ \A d \in Conns \ {c} : toClient'[d] = toClient[d]
      BY <1>t, <3>1
    <3> QED
      BY <1>t, <3>1, <3>2 DEF serverVars, given, tableVars
  <2>3. CASE Leave(c)
    <3>1. /\ UNCHANGED <<serverVars, conn, backlog, sent, written, toClient>> /\ peer[c] = "open"
          /\ unread' = IF peer'[c] = "reset" THEN [unread EXCEPT ![c] = 0] ELSE unread
      BY <2>3, Zenon DEF Leave
    <3>2. PICK how : /\ peer' = [peer EXCEPT ![c] = how]
                     /\ how \in {"closed", "refused", "reset", "lost"}
                     /\ how = "closed" => toClient[c] = 0
      BY <2>3 DEF Leave
    <3>3. /\ unread' \in [Conns -> Nat] /\ \A d \in Conns \ {c} : unread'[d] = unread[d]
          /\ peer'[c] = how /\ (how # "reset" => unread'[c] >= unread[c])
      BY <1>t, <3>1, <3>2
    <3> QED
      BY <1>t, <3>1, <3>2, <3>3 DEF serverVars, given, tableVars
  <2> QED
    BY <2>1, <2>2, <2>3
<1>2. Used' = Used /\ Open' = Open
  BY <1>1 DEF Used, Open
<1>3. TypeOK'
  BY <1>1 DEF TypeOK
<1>4. Entries' /\ Bits'
  BY <1>1, <1>2 DEF Entries, Bits
<1>5. \A d \in Conns : peer'[d] = "new" => peer[d] = "new"
  BY <1>1
<1>6. Once'
  BY <1>1, <1>2, <1>5, Shape DEF Once
<1>7. Queued'
  <2>1. \A n \in 1 .. Len(backlog) : backlog[n] \in Conns
    BY DEF TypeOK
  <2>2. \A n \in 1 .. Len(backlog) : peer'[backlog[n]] # "new"
    BY <1>5, <2>1 DEF Queued
  <2>3. UNCHANGED <<backlog, conn>>
    BY <1>1
  <2> QED
    BY <2>2, <2>3, Zenon DEF Queued
<1>8. \A f : Due(f) => Due(f)'
  <2>1. \A f \in ConnFds : conn[f] # None => conn[f] \in Conns
    BY DEF TypeOK
  <2>2. \A d \in Conns : unread[d] > 0 \/ Gone(d) => unread'[d] > 0 \/ Gone(d)'
    <3>1. ASSUME NEW d \in Conns, d # c, unread[d] > 0 \/ Gone(d)
          PROVE  unread'[d] > 0 \/ Gone(d)'
      BY <1>1, <3>1 DEF Gone
    <3>2. ~ Gone(c)
      BY <1>1 DEF Gone
    <3>3. unread[c] > 0 => unread'[c] > 0 \/ Gone(c)'
      BY <1>t, <1>1 DEF Gone
    <3> QED
      BY <3>1, <3>2, <3>3
  <2> QED
    BY <1>1, <2>1, <2>2 DEF Due, Readable
<1>9. Walk'
  BY <1>1, <1>2, <1>8 DEF Walk
<1>10. EndsOnlyWhenFull' /\ Writing'
  BY <1>1 DEF EndsOnlyWhenFull, Writing, Down
<1> QED
  BY <1>3, <1>4, <1>6, <1>7, <1>9, <1>10

----------------------------------------------------------------------------
(* select keeps of rset what is ready and what it does not write.          *)
LEMMA SelectKeeps == ASSUME IInv, Select PROVE IInv'
<1> USE DEF IInv
<1>1. PICK std \in SUBSET (allset \cap StdFds) :
         LET ready == std \cup {f \in allset : f <= maxfd /\ Readable(f)}
         IN ready # {} /\ rset' = ready \cup Unwritten /\ nready' = Cardinality(ready)
  BY Zenon DEF Select
<1> DEFINE ready == std \cup {f \in allset : f <= maxfd /\ Readable(f)}
<1>2. ready # {} /\ rset' = ready \cup Unwritten /\ nready' = Cardinality(ready)
  BY <1>1
<1>3. /\ UNCHANGED <<clientfd, maxi, maxfd, allset, garbage, limit, buff>>
      /\ UNCHANGED <<conn, backlog, peer, sent, unread, written, toClient>>
      /\ spc = "select" /\ i' = 0
      /\ spc' = IF listenfd \in rset' THEN "accept" ELSE "scan"
  BY Zenon DEF Select, given, tableVars, connVars
<1>4. ready \subseteq Indices /\ Unwritten \subseteq Indices
  BY DEF TypeOK, Unwritten
<1>5. nready' \in 0 .. FD_SETSIZE /\ nready' > 0
  <2>1. FD_SETSIZE \in Nat /\ FD_SETSIZE - 1 \in Int /\ 0 \in Int
    BY Fds
  <2>2. IsFiniteSet(Indices) /\ Cardinality(Indices) = FD_SETSIZE
    BY Sizes
  <2>3. IsFiniteSet(ready) /\ Cardinality(ready) <= Cardinality(Indices)
    BY <1>4, <2>2, FS_Subset
  <2>4. Cardinality(ready) \in Nat /\ Cardinality(ready) # 0 /\ Cardinality(Indices) \in Nat
    BY <1>2, <2>2, <2>3, FS_CardinalityType, FS_EmptySet
  <2> HIDE DEF ready
  <2> QED
    BY <1>2, <2>1, <2>2, <2>3, <2>4
<1>6. TypeOK'
  <2>1. rset' \in SUBSET Indices /\ i' \in 0 .. FD_SETSIZE
    <3>1. 0 \in 0 .. FD_SETSIZE
      BY Fds
    <3> HIDE DEF ready
    <3> QED
      BY <1>2, <1>3, <1>4, <3>1
  <2> QED
    BY <1>3, <1>5, <2>1 DEF TypeOK
<1>7. Used' = Used /\ Open' = Open
  BY <1>3 DEF Used, Open
<1>8. Entries' /\ Bits' /\ Once' /\ Queued'
  BY <1>3, <1>7 DEF Entries, Bits, Once, Queued
<1>9. \A f \in Indices : f \in Unwritten => f \in garbage /\ f # listenfd
  <2> TAKE f \in Indices
  <2>1. f \in Nat /\ maxfd \in Nat /\ listenfd <= maxfd
    BY Fds, Shape
  <2>2. f <= maxfd => f \notin Unwritten
    <3>1. f <= maxfd => Word(f) <= Word(maxfd)
      BY <2>1, WordsGrow
    <3>2. Word(f) \in Int /\ Word(maxfd) \in Int
      BY <2>1 DEF Word
    <3> QED
      BY <3>1, <3>2 DEF Unwritten
  <2> QED
    BY <2>1, <2>2 DEF Bits, Unwritten
<1>10. \A f \in Indices \ StdFds : f \in rset' => Readable(f) \/ (f \in garbage /\ f # listenfd)
  BY <1>2, <1>9
<1>11. listenfd \in Indices \ StdFds /\ listenfd \notin ConnFds
       /\ \A f \in ConnFds : f \in Indices \ StdFds
  BY Fds DEF StdFds
<1>12. \A f : Due(f)' <=> Due(f)
  BY <1>3 DEF Due, Readable, Gone
<1>13. \A f \in ConnFds : f \in rset' => Due(f)'
  BY <1>10, <1>11, <1>12 DEF Due
<1>14. listenfd \in rset' => backlog # << >>
  BY <1>10, <1>11 DEF Readable
<1>15. \A k \in Used : clientfd[k] \in ConnFds
  BY Shape
<1>16. Walk'
  BY <1>3, <1>7, <1>13, <1>14, <1>15 DEF Walk
<1>17. EndsOnlyWhenFull' /\ Writing'
  BY <1>3 DEF EndsOnlyWhenFull, Writing
<1> QED
  BY <1>6, <1>8, <1>16, <1>17

(* A step of the server that leaves table and connections alone.  When the *)
(* server ends its place in the table stays as well.                       *)
Ends == {"exited", "overrun"}

LEMMA GotoKeeps ==
    ASSUME IInv, NEW point \in {"select"} \cup Ends, Goto(point),
           point \in Ends => EndsOnlyWhenFull'
    PROVE  IInv'
<1> USE DEF IInv, Ends
<1>1. /\ UNCHANGED <<clientfd, maxi, maxfd, allset, garbage, limit, buff>>
      /\ UNCHANGED <<conn, backlog, peer, sent, unread, written, toClient>>
      /\ spc' = point /\ rset' \in {rset, {}} /\ nready' \in {nready, 0} /\ i' \in {i, 0}
  BY DEF Goto, Continue, given, tableVars, connVars
<1>2. TypeOK'
  BY <1>1, Fds DEF TypeOK
<1>3. Used' = Used /\ Open' = Open
  BY <1>1 DEF Used, Open
<1>4. Entries' /\ Bits' /\ Once' /\ Queued'
  <2>1. Entries' /\ Bits' /\ Once'
    BY <1>1, <1>3 DEF Entries, Bits, Once
  <2>2. Queued'
    BY <1>1, SMTT(20) DEF Queued
  <2> QED
    BY <2>1, <2>2
<1>5. Walk'
  BY <1>1 DEF Walk
<1>6. EndsOnlyWhenFull' /\ Writing'
  BY <1>1 DEF EndsOnlyWhenFull, Writing
<1> QED
  BY <1>2, <1>4, <1>5, <1>6

(* There is always room in the table, which has more entries than there    *)
(* are descriptors for clients.                                            *)
LEMMA RoomInTable == ASSUME IInv PROVE FreeSlots # {}
<1> USE DEF IInv
<1> SUFFICES ASSUME FreeSlots = {} PROVE FALSE
  OBVIOUS
<1>1. Used = Indices
  BY DEF FreeSlots, Used
<1> DEFINE g == [k \in Indices |-> clientfd[k]]
<1>2. g \in Injection(Indices, ConnFds)
  <2>1. g \in [Indices -> ConnFds]
    BY <1>1, Shape
  <2>2. \A j, k \in Indices : g[j] = g[k] => j = k
    BY <1>1 DEF Entries
  <2> QED
    BY <2>1, <2>2, Fun_IsInj
<1>3. /\ IsFiniteSet(Indices) /\ Cardinality(Indices) = FD_SETSIZE
      /\ IsFiniteSet(ConnFds) /\ Cardinality(ConnFds) = FD_SETSIZE - 4
  BY Sizes
<1>4. Cardinality(Indices) <= Cardinality(ConnFds)
  BY <1>2, <1>3, FS_Injection
<1> QED
  BY <1>3, <1>4, Fds

(* accept fails, or gives out a descriptor that is too large, when every   *)
(* smaller one is in use, each by an entry of the table.                   *)
LEMMA NoDescriptorKeeps == ASSUME IInv, AcceptFails \/ Overrun PROVE IInv'
<1> USE DEF IInv
<1>1. FreeFds = {} /\ UNCHANGED <<clientfd, limit>>
  BY DEF AcceptFails, Overrun, TooLarge, Goto, given, tableVars
<1>2. \A f \in ConnFds : f < limit => f \in Open
  BY <1>1 DEF FreeFds, Open
<1>3. {f \in ConnFds : f < limit} \subseteq {clientfd[k] : k \in Indices}
  BY <1>2 DEF Entries, Used
<1>4. AllTaken'
  BY <1>1, <1>3, RoomInTable DEF AllTaken, FreeSlots
<1>5. CASE AcceptFails
  <2>1. Goto("exited") /\ spc' = "exited" /\ limit' <= FD_SETSIZE
    BY <1>1, <1>5 DEF AcceptFails, Goto, Continue
  <2> QED
    BY <1>4, <2>1, GotoKeeps DEF EndsOnlyWhenFull, Ends
<1>6. CASE Overrun
  <2>1. limit \in Nat
    BY DEF TypeOK
  <2>2. Goto("overrun") /\ spc' = "overrun" /\ limit' > FD_SETSIZE
    BY <1>1, <1>6 DEF Overrun, TooLarge, Goto, Continue
  <2> QED
    BY <1>4, <2>2, GotoKeeps DEF EndsOnlyWhenFull, Ends
<1> QED
  BY <1>5, <1>6

(* Going on in the table: what Continue leaves behind.                     *)
LEMMA GoesOn ==
    ASSUME TypeOK, NEW k \in 0 .. FD_SETSIZE, spc \in {"accept", "scan", "write"},
           \/ Continue("scan", nready, k)
           \/ Handled(k)
    PROVE  /\ spc' \in {"select", "scan"} /\ nready' \in 0 .. FD_SETSIZE
           /\ i' \in 0 .. FD_SETSIZE /\ rset' \subseteq Indices
           /\ spc' = "scan" => nready' > 0 /\ i' = k /\ rset' = rset
<1>1. nready \in 0 .. FD_SETSIZE /\ nready > 0 /\ rset \subseteq Indices
  BY DEF TypeOK
<1>2. FD_SETSIZE \in Nat /\ nready - 1 \in 0 .. FD_SETSIZE /\ (nready - 1 <= 0 \/ nready - 1 > 0)
  BY <1>1, Fds
<1>3. CASE Continue("scan", nready, k)
  BY <1>1, <1>3 DEF Continue
<1>4. CASE Handled(k)
  <2>1. CASE Done(nready - 1)
    BY <1>2, <1>4, <2>1 DEF Handled, Continue
  <2>2. CASE ~ Done(nready - 1)
    BY <1>1, <1>2, <1>4, <2>2 DEF Handled, Continue, Done
  <2> QED
    BY <2>1, <2>2
<1> QED
  BY <1>3, <1>4

(* accept gives out the lowest free descriptor.  If it lies above maxfd it *)
(* is maxfd + 1: all below are those of clients.                           *)
LEMMA AcceptKeeps == ASSUME IInv, Accept PROVE IInv'
<1> USE DEF IInv
<1>1. /\ UNCHANGED <<buff, garbage, limit, peer, sent, unread, written, toClient>>
      /\ spc = "accept" /\ FreeFds # {} /\ backlog' = Tail(backlog)
      /\ backlog # << >> /\ i = 0 /\ i \in 0 .. FD_SETSIZE
      /\ \A g \in ConnFds : g \in rset => Due(g)
  BY Fds, RoomInTable DEF Accept, given, connVars, Walk, TypeOK
<1>2. PICK c : c = Head(backlog)
  OBVIOUS
<1>3. /\ backlog \in Seq(Conns) /\ c \in Conns /\ c = backlog[1]
      /\ Len(backlog) \in Nat /\ 1 \in 1 .. Len(backlog)
      /\ backlog' \in Seq(Conns) /\ Len(backlog') = Len(backlog) - 1
      /\ \A n \in 1 .. Len(backlog') : /\ n + 1 \in 1 .. Len(backlog) /\ n + 1 # 1
                                        /\ backlog'[n] = backlog[n + 1]
  <2>1. backlog \in Seq(Conns) /\ backlog # << >>
    BY <1>1 DEF TypeOK
  <2> QED
    BY <1>1, <1>2, <2>1
<1>4. /\ peer[c] # "new" /\ \A g \in ConnFds : conn[g] # c
      /\ \A n \in 1 .. Len(backlog') : /\ peer[backlog'[n]] # "new" /\ backlog'[n] # c
                                        /\ \A g \in ConnFds : conn[g] # backlog'[n]
      /\ \A m, n \in 1 .. Len(backlog') : backlog'[m] = backlog'[n] => m = n
  <2>1. \A n \in 1 .. Len(backlog) : /\ peer[backlog[n]] # "new"
                                     /\ \A g \in ConnFds : conn[g] # backlog[n]
    BY DEF Queued
  <2>2. \A m, n \in 1 .. Len(backlog) : backlog[m] = backlog[n] => m = n
    BY DEF Queued
  <2>3. ASSUME NEW n \in 1 .. Len(backlog')
        PROVE  /\ peer[backlog'[n]] # "new" /\ backlog'[n] # c
               /\ \A g \in ConnFds : conn[g] # backlog'[n]
    <3>1. /\ n + 1 \in 1 .. Len(backlog) /\ n + 1 # 1 /\ 1 \in 1 .. Len(backlog)
          /\ backlog'[n] = backlog[n + 1] /\ c = backlog[1]
      BY <1>3
    <3> QED
      BY <2>1, <2>2, <3>1, Zenon
  <2>4. ASSUME NEW m \in 1 .. Len(backlog'), NEW n \in 1 .. Len(backlog'),
               backlog'[m] = backlog'[n]
        PROVE  m = n
    <3>1. /\ m + 1 \in 1 .. Len(backlog) /\ n + 1 \in 1 .. Len(backlog)
          /\ backlog[m + 1] = backlog[n + 1]
      BY <1>3, <2>4
    <3>2. m + 1 = n + 1
      BY <2>2, <3>1, Zenon
    <3> QED
      BY <3>2
  <2> QED
    BY <1>3, <2>1, <2>3, <2>4, Zenon
<1>5. PICK f, k : f = Min(FreeFds) /\ k = Min(FreeSlots)
  OBVIOUS
<1>6. /\ f \in ConnFds /\ conn[f] = None /\ k \in Indices /\ clientfd[k] = -1
      /\ f \in Nat /\ k \in Nat
      /\ \A g \in ConnFds : g < limit /\ conn[g] = None => f <= g
      /\ f < limit /\ limit \in Nat
  <2>1. FreeFds \in SUBSET Nat /\ FreeSlots \in SUBSET Nat
    BY Fds DEF FreeFds, FreeSlots
  <2>2. f \in FreeFds /\ k \in FreeSlots /\ \A g \in FreeFds : f <= g
    BY <1>1, <1>5, <2>1, RoomInTable, Smallest
  <2>3. limit \in Nat
    BY DEF TypeOK
  <2> QED
    BY <2>1, <2>2, <2>3 DEF FreeFds, FreeSlots
<1>7. /\ clientfd' = [clientfd EXCEPT ![k] = f] /\ maxi' = NewMaxi(k)
      /\ maxfd' = (IF maxfd < f THEN f ELSE maxfd)
      /\ allset' = allset \cup {f} /\ conn' = [conn EXCEPT ![f] = c]
      /\ Handled(i)
  BY <1>2, <1>5, RoomInTable, Zenon DEF Accept
<1>8. /\ clientfd' \in [Indices -> {-1} \cup ConnFds] /\ conn' \in [ConnFds -> Conns \cup {None}]
      /\ clientfd'[k] = f /\ \A j \in Indices \ {k} : clientfd'[j] = clientfd[j]
      /\ conn'[f] = c /\ \A g \in ConnFds \ {f} : conn'[g] = conn[g]
      /\ c # None
  <2>1. /\ clientfd \in [Indices -> {-1} \cup ConnFds] /\ conn \in [ConnFds -> Conns \cup {None}]
        /\ c # None
    BY <1>3 DEF TypeOK
  <2> QED
    BY <1>3, <1>6, <1>7, <2>1
<1>9. Used' = Used \cup {k} /\ k \notin Used /\ Open' = Open \cup {f} /\ f \notin Open
  <2>1. f # -1
    BY <1>6, Fds
  <2>2. Used' = Used \cup {k} /\ k \notin Used
    <3>1. k \in Indices /\ clientfd[k] = -1
      BY <1>6
    <3>2. \A j \in Indices : clientfd'[j] # -1 <=> clientfd[j] # -1 \/ j = k
      BY <1>8, <2>1, <3>1
    <3> QED
      BY <3>1, <3>2 DEF Used
  <2>3. Open' = Open \cup {f} /\ f \notin Open
    <3>1. \A g \in ConnFds : conn'[g] # None <=> conn[g] # None \/ g = f
      BY <1>6, <1>8
    <3> QED
      BY <1>6, <3>1 DEF Open
  <2> QED
    BY <2>2, <2>3
<1>10. /\ maxi' \in -1 .. FD_SETSIZE - 1 /\ maxi' >= maxi /\ maxi' >= k
       /\ maxfd' \in {listenfd} \cup ConnFds /\ maxfd' >= maxfd /\ maxfd' >= f
       /\ maxfd' \in {maxfd, f} /\ maxi' \in Int /\ maxfd' \in Nat
  <2>1. maxi \in -1 .. FD_SETSIZE - 1 /\ k \in -1 .. FD_SETSIZE - 1
    BY <1>6, Fds DEF TypeOK, Indices
  <2>2. maxfd \in {listenfd} \cup ConnFds /\ maxfd \in Nat
    BY Shape DEF TypeOK
  <2>3. FD_SETSIZE \in Nat
    BY Fds
  <2>4. maxi' \in -1 .. FD_SETSIZE - 1 /\ maxi' >= maxi /\ maxi' >= k
    BY <1>7, <2>1, <2>3 DEF NewMaxi
  <2> QED
    BY <1>6, <1>7, <2>2, <2>3, <2>4
<1>11. /\ spc' \in {"select", "scan"} /\ nready' \in 0 .. FD_SETSIZE
       /\ i' \in 0 .. FD_SETSIZE /\ rset' \subseteq Indices
       /\ spc' = "scan" => nready' > 0 /\ i' = i /\ rset' = rset
  BY <1>1, <1>7, GoesOn
<1>12. TypeOK'
  <2>1. allset' \in SUBSET Indices
    BY <1>6, <1>7, Fds DEF TypeOK
  <2>2. /\ clientfd' \in [Indices -> {-1} \cup ConnFds]
        /\ conn' \in [ConnFds -> Conns \cup {None}]
        /\ maxi' \in -1 .. FD_SETSIZE - 1 /\ maxfd' \in {listenfd} \cup ConnFds
    BY <1>8, <1>10
  <2> QED
    BY <1>1, <1>3, <1>11, <2>1, <2>2 DEF TypeOK
<1>13. Entries'
  <2>1. ASSUME NEW j \in Used'
        PROVE  clientfd'[j] \in Open' /\ j <= maxi' /\ clientfd'[j] <= maxfd'
    <3>1. CASE j = k
      BY <1>6, <1>8, <1>9, <1>10, <3>1
    <3>2. CASE j # k
      <4>1. j \in Used /\ clientfd'[j] = clientfd[j] /\ clientfd[j] \in Open
            /\ j <= maxi /\ clientfd[j] <= maxfd
        BY <1>8, <1>9, <2>1, <3>2, Shape DEF Entries
      <4>2. j \in Int /\ clientfd[j] \in Nat /\ maxi \in Int /\ maxfd \in Nat
        <5>1. j \in Nat /\ maxi \in Int /\ maxfd \in Nat /\ clientfd[j] \in ConnFds
          BY <4>1, Shape
        <5>2. \A g \in ConnFds : g \in Nat
          BY Fds
        <5> QED
          BY <5>1, <5>2
      <4> QED
        BY <1>9, <1>10, <4>1, <4>2
    <3> QED
      BY <3>1, <3>2
  <2>2. \A g \in Open' : \E j \in Used' : clientfd'[j] = g
    BY <1>6, <1>8, <1>9, Shape DEF Entries
  <2>3. \A j, l \in Used' : clientfd'[j] = clientfd'[l] => j = l
    BY <1>6, <1>8, <1>9, Shape DEF Entries
  <2> QED
    BY <2>1, <2>2, <2>3 DEF Entries
<1>14. Bits'
  <2>1. ASSUME NEW g \in ConnFds, g <= maxfd'
        PROVE  g \in allset' <=> g \in Open'
    <3>1. CASE g = f
      BY <1>7, <1>9, <3>1
    <3>2. CASE g # f /\ g <= maxfd
      BY <1>7, <1>9, <3>2 DEF Bits
    <3>3. CASE g # f /\ ~ (g <= maxfd)
      <4>1. g \in Nat /\ maxfd \in Nat /\ maxfd' = f /\ g < f
        BY <1>6, <1>10, <2>1, <3>3, Shape, Fds
      <4>2. g \in Open
        BY <1>6, <4>1 DEF Open
      <4>3. g <= maxfd
        BY <4>2 DEF Entries
      <4> QED
        BY <3>3, <4>3
    <3> QED
      BY <3>1, <3>2, <3>3
  <2>2. ASSUME NEW g \in allset', g > maxfd'
        PROVE  g \in garbage
    <3>1. g # f
      BY <1>6, <1>10, <2>2
    <3>2. g \in allset /\ g \in Nat
      BY <1>7, <3>1, Fds DEF TypeOK
    <3>3. g > maxfd
      BY <1>10, <2>2, <3>2, Shape
    <3> QED
      BY <3>2, <3>3 DEF Bits
  <2> QED
    BY <1>1, <2>1, <2>2 DEF Bits
<1>15. Once'
  <2>1. \A g \in Open : g \in ConnFds \ {f} /\ conn'[g] = conn[g] /\ conn[g] # c
    BY <1>4, <1>8, <1>9, Shape
  <2>2. peer' = peer /\ peer[c] # "new" /\ conn'[f] = c /\ Open' = Open \cup {f}
    BY <1>1, <1>4, <1>8, <1>9
  <2>3. \A g \in Open' : peer'[conn'[g]] # "new"
    BY <2>1, <2>2 DEF Once
  <2>4. \A g, h \in Open' : conn'[g] = conn'[h] => g = h
    BY <2>1, <2>2 DEF Once
  <2> QED
    BY <2>3, <2>4 DEF Once
<1>16. Queued'
  <2>1. \A n \in 1 .. Len(backlog') : \A g \in ConnFds : conn'[g] # backlog'[n]
    BY <1>4, <1>8
  <2> QED
    BY <1>1, <1>4, <2>1 DEF Queued
<1>17. \A g \in ConnFds : Due(g) => Due(g)'
  BY <1>1, <1>6, <1>8, Fds DEF Due, Readable, Gone
<1>18. Walk'
  <2>1. \A j \in Used' : clientfd'[j] \in ConnFds
    BY <1>6, <1>8, <1>9, Shape
  <2> QED
    BY <1>1, <1>11, <1>17, <2>1 DEF Walk
<1>19. EndsOnlyWhenFull' /\ Writing'
  BY <1>1, <1>11 DEF EndsOnlyWhenFull, Writing
<1> QED
  BY <1>12, <1>13, <1>14, <1>15, <1>16, <1>18, <1>19

(* The entry the server is at, and the client it belongs to.               *)
LEMMA AtClient ==
    ASSUME IInv, \/ spc = "scan" /\ Hits # {}
                 \/ spc = "write"
    PROVE  /\ Hit \in Used /\ Hit \in Nat /\ i <= Hit /\ Hit + 1 \in 0 .. FD_SETSIZE
           /\ clientfd[Hit] \in Open /\ clientfd[Hit] \in ConnFds /\ clientfd[Hit] \in rset
           /\ Client \in Conns /\ Client # None
           /\ spc = "write" => Hit = i
           /\ \A j \in Used \ {Hit} : /\ clientfd[j] # clientfd[Hit]
                                      /\ conn[clientfd[j]] # Client
<1> USE DEF IInv
<1>1. Hit \in Hits /\ (spc = "write" => Hit = i)
  BY AtHit, AtWrite
<1>2. Hit \in Used /\ i <= Hit /\ clientfd[Hit] \in rset
  BY <1>1, AtHit, Shape
<1>3. clientfd[Hit] \in Open /\ clientfd[Hit] \in ConnFds /\ Client \in Conns /\ Hit \in Nat
  BY <1>2, Shape DEF Client
<1>4. Client # None
  BY <1>3
<1>5. Hit + 1 \in 0 .. FD_SETSIZE
  <2>1. Hit \in Indices
    BY <1>2 DEF Used
  <2> QED
    BY <2>1, Fds DEF Indices
<1>6. ASSUME NEW j \in Used \ {Hit}
      PROVE  clientfd[j] # clientfd[Hit] /\ conn[clientfd[j]] # Client
  <2>1. clientfd[j] # clientfd[Hit]
    BY <1>2 DEF Entries
  <2>2. clientfd[j] \in Open
    BY Shape
  <2> QED
    BY <1>3, <2>1, <2>2 DEF Once, Client
<1> QED
  BY <1>1, <1>2, <1>3, <1>4, <1>5, <1>6

LEMMA ReadDataKeeps == ASSUME IInv, ReadData PROVE IInv'
<1> USE DEF IInv
<1>1. PICK k, d : k = Hit /\ d = Client
  OBVIOUS
<1>2. /\ UNCHANGED <<clientfd, maxi, maxfd, allset, rset, nready, garbage, limit>>
      /\ UNCHANGED <<conn, backlog, peer, sent, written, toClient>>
      /\ spc = "scan" /\ Hits # {} /\ spc' = "write" /\ i' = k
  BY <1>1, Zenon DEF ReadData, given, tableVars
<1>3. PICK n \in 1 .. Min({unread[d], BuffSize}) :
         buff' = n /\ unread' = [unread EXCEPT ![d] = @ - n]
  BY <1>1, Zenon DEF ReadData
<1>4. /\ k \in Used /\ k \in Nat /\ i <= k /\ k + 1 \in 0 .. FD_SETSIZE
      /\ clientfd[k] \in rset /\ d \in Conns
      /\ \A j \in Used \ {k} : conn[clientfd[j]] # d
  BY <1>1, <1>2, AtClient
<1>5. buff' \in 0 .. BuffSize /\ buff' > 0 /\ unread' \in [Conns -> Nat]
      /\ \A e \in Conns \ {d} : unread'[e] = unread[e]
  <2>1. unread \in [Conns -> Nat] /\ unread[d] \in Nat /\ BuffSize \in Nat
    BY <1>4 DEF TypeOK
  <2>2. /\ Min({unread[d], BuffSize}) \in Nat
        /\ Min({unread[d], BuffSize}) <= unread[d] /\ Min({unread[d], BuffSize}) <= BuffSize
    BY <2>1, Smallest
  <2>3. n \in Nat /\ n <= BuffSize /\ unread[d] - n \in Nat
    BY <2>1, <2>2
  <2> QED
    BY <1>3, <1>4, <2>1, <2>3
<1>6. TypeOK'
  <2>1. i' \in 0 .. FD_SETSIZE
    BY <1>2, <1>4, Fds
  <2> QED
    BY <1>2, <1>5, <2>1 DEF TypeOK
<1>7. Used' = Used /\ Open' = Open
  BY <1>2 DEF Used, Open
<1>8. Entries' /\ Bits' /\ Once' /\ Queued'
  BY <1>2, <1>7 DEF Entries, Bits, Once, Queued
<1>9. Walk'
  <2>1. ASSUME NEW j \in Used, j > k, clientfd[j] \in rset
        PROVE  Due(clientfd[j])'
    <3>1. j \in Nat /\ clientfd[j] \in ConnFds /\ conn[clientfd[j]] \in Conns /\ i \in Nat
      BY Shape
    <3>2. j >= i /\ j # k
      BY <1>4, <2>1, <3>1
    <3>3. Due(clientfd[j])
      BY <1>2, <2>1, <3>2 DEF Walk
    <3>4. unread'[conn[clientfd[j]]] = unread[conn[clientfd[j]]]
      BY <1>4, <1>5, <3>1, <3>2
    <3> QED
      BY <1>2, <3>3, <3>4 DEF Due, Readable, Gone
  <2> QED
    BY <1>2, <1>4, <1>7, <2>1 DEF Walk
<1>10. EndsOnlyWhenFull' /\ Writing'
  BY <1>2, <1>5 DEF EndsOnlyWhenFull, Writing
<1> QED
  BY <1>6, <1>8, <1>9, <1>10

(* close and FD_CLR.                                                       *)
LEMMA ReadEndKeeps == ASSUME IInv, ReadEnd PROVE IInv'
<1> USE DEF IInv
<1>1. PICK k, f : k = Hit /\ f = clientfd[k]
  OBVIOUS
<1>2. /\ UNCHANGED <<maxi, maxfd, buff, garbage, limit, backlog, peer, sent, unread, written, toClient>>
      /\ spc = "scan" /\ Hits # {}
      /\ clientfd' = [clientfd EXCEPT ![k] = -1] /\ allset' = allset \ {f}
      /\ conn' = [conn EXCEPT ![f] = None] /\ Handled(k + 1)
  BY <1>1, Zenon DEF ReadEnd, Closed, Cleared, given, connVars
<1>3. /\ k \in Used /\ k \in Nat /\ i <= k /\ k + 1 \in 0 .. FD_SETSIZE
      /\ f \in Open /\ f \in ConnFds
      /\ \A j \in Used \ {k} : clientfd[j] # f
  BY <1>1, <1>2, AtClient
<1>4. /\ clientfd' \in [Indices -> {-1} \cup ConnFds] /\ conn' \in [ConnFds -> Conns \cup {None}]
      /\ clientfd'[k] = -1 /\ \A j \in Indices \ {k} : clientfd'[j] = clientfd[j]
      /\ conn'[f] = None /\ \A g \in ConnFds \ {f} : conn'[g] = conn[g]
  <2>1. /\ clientfd \in [Indices -> {-1} \cup ConnFds] /\ conn \in [ConnFds -> Conns \cup {None}]
        /\ k \in Indices
    BY <1>3 DEF TypeOK, Used
  <2> QED
    BY <1>2, <1>3, <2>1
<1>5. Used' = Used \ {k}
  BY <1>4 DEF Used
<1>6. Open' = Open \ {f}
  <2>1. \A g \in ConnFds : conn'[g] # None <=> conn[g] # None /\ g # f
    BY <1>4
  <2> QED
    BY <2>1 DEF Open
<1>7. \A j \in Used' : /\ j \in Used \ {k} /\ clientfd'[j] = clientfd[j] /\ j \in Nat
                       /\ clientfd[j] \in Open \ {f} /\ clientfd[j] \in ConnFds \ {f}
  BY <1>3, <1>4, <1>5, Shape
<1>8. /\ spc' \in {"select", "scan"} /\ nready' \in 0 .. FD_SETSIZE
      /\ i' \in 0 .. FD_SETSIZE /\ rset' \subseteq Indices
      /\ spc' = "scan" => nready' > 0 /\ i' = k + 1 /\ rset' = rset
  BY <1>2, <1>3, GoesOn
<1>9. TypeOK'
  BY <1>2, <1>4, <1>8, SMTT(20) DEF TypeOK
<1>10. Entries'
  <2>1. \A j \in Used' : clientfd'[j] \in Open' /\ j <= maxi' /\ clientfd'[j] <= maxfd'
    BY <1>2, <1>6, <1>7 DEF Entries
  <2>2. \A g \in Open' : \E j \in Used' : clientfd'[j] = g
    <3> TAKE g \in Open'
    <3>1. PICK j \in Used : clientfd[j] = g
      BY <1>6 DEF Entries
    <3>2. j # k
      BY <1>1, <1>6, <3>1
    <3> QED
      BY <1>5, <1>7, <3>1, <3>2
  <2>3. \A j, l \in Used' : clientfd'[j] = clientfd'[l] => j = l
    BY <1>7 DEF Entries
  <2> QED
    BY <2>1, <2>2, <2>3 DEF Entries
<1>11. Bits'
  BY <1>2, <1>6 DEF Bits
<1>12. Once'
  <2>1. \A g \in Open' : g \in Open /\ conn'[g] = conn[g]
    BY <1>4, <1>6, Shape
  <2> QED
    BY <1>2, <2>1 DEF Once
<1>13. Queued'
  <2>1. \A n \in 1 .. Len(backlog) : backlog[n] # None
    <3>1. \A n \in 1 .. Len(backlog) : backlog[n] \in Conns
      BY DEF TypeOK
    <3> QED
      BY <3>1
  <2>2. \A n \in 1 .. Len(backlog) : \A g \in ConnFds : conn'[g] # backlog[n]
    BY <1>4, <2>1 DEF Queued
  <2> QED
    BY <1>2, <2>2 DEF Queued
<1>14. Walk'
  <2>1. ASSUME NEW j \in Used', j >= k + 1, clientfd'[j] \in rset
        PROVE  Due(clientfd[j])'
    <3>1. /\ j \in Used /\ j \in Nat /\ i \in Nat /\ clientfd'[j] = clientfd[j]
          /\ clientfd[j] \in ConnFds \ {f}
      BY <1>7, Shape
    <3>2. j >= i
      BY <1>3, <2>1, <3>1
    <3>3. Due(clientfd[j])
      BY <1>2, <2>1, <3>1, <3>2 DEF Walk
    <3>4. PICK g \in ConnFds \ {f} : g = clientfd[j]
      BY <3>1
    <3>5. conn'[g] = conn[g] /\ g # listenfd
      BY <1>4, Fds
    <3>6. Due(g)'
      BY <1>2, <3>3, <3>4, <3>5 DEF Due, Readable, Gone
    <3>7. clientfd'[j] = g
      BY <3>1, <3>4
    <3> QED
      BY <3>6, <3>7 DEF Due, Readable, Gone
  <2> QED
    BY <1>8, <2>1 DEF Walk
<1>15. EndsOnlyWhenFull' /\ Writing'
  BY <1>2, <1>8 DEF EndsOnlyWhenFull, Writing
<1> QED
  BY <1>9, <1>10, <1>11, <1>12, <1>13, <1>14, <1>15

(* writen: the server goes on with the table or stays in writen, and a     *)
(* peer that has closed answers with a reset.                              *)
LEMMA Writes ==
    ASSUME IInv, WriteBack
    PROVE  /\ UNCHANGED <<clientfd, maxi, maxfd, allset, garbage, limit, conn, backlog, sent, unread>>
           /\ spc = "write" /\ Client \in Conns /\ Hit = i /\ i \in Nat /\ i + 1 \in 0 .. FD_SETSIZE
           /\ \E n \in 1 .. buff : /\ n <= Capacity - toClient[Client]
                                   /\ written' = [written EXCEPT ![Client] = @ + n]
                                   /\ toClient' = [toClient EXCEPT ![Client] = @ + n]
                                   /\ buff' = buff - n
           /\ peer' = (IF peer[Client] = "closed" THEN [peer EXCEPT ![Client] = "refused"] ELSE peer)
           /\ \/ /\ buff' = 0 /\ spc' \in {"select", "scan"}
                 /\ spc' = "scan" => i' = i + 1 /\ nready' > 0 /\ rset' = rset
              \/ /\ buff' > 0 /\ spc' = "write" /\ i' = i /\ nready' = nready /\ rset' = rset
           /\ nready' \in 0 .. FD_SETSIZE /\ i' \in 0 .. FD_SETSIZE /\ rset' \subseteq Indices
<1> USE DEF IInv
<1>1. PICK k, d : k = Hit /\ d = Client
  OBVIOUS
<1>2. /\ UNCHANGED <<clientfd, maxi, maxfd, allset, garbage, limit, conn, backlog, sent, unread>>
      /\ spc = "write"
      /\ peer' = (IF peer[d] = "closed" THEN [peer EXCEPT ![d] = "refused"] ELSE peer)
      /\ IF buff' = 0 THEN Handled(k + 1) ELSE Continue("write", nready, i)
  BY <1>1, Zenon DEF WriteBack, given, tableVars
<1>3. PICK n \in 1 .. Min({buff, Capacity - toClient[d]}) :
         /\ written' = [written EXCEPT ![d] = @ + n]
         /\ toClient' = [toClient EXCEPT ![d] = @ + n]
         /\ buff' = buff - n
  BY <1>1, Zenon DEF WriteBack, Rest
<1>4. k = i /\ k \in Nat /\ k + 1 \in 0 .. FD_SETSIZE /\ d \in Conns
  BY <1>1, <1>2, AtClient
<1>5. n \in 1 .. buff /\ n <= Capacity - toClient[d] /\ buff - n \in Nat
  <2>1. buff \in Nat /\ Capacity - toClient[d] \in Nat
    <3>1. toClient[d] \in 0 .. Capacity /\ Capacity \in Nat
      BY <1>4 DEF TypeOK
    <3> QED
      BY <3>1 DEF TypeOK
  <2>2. {buff, Capacity - toClient[d]} \in SUBSET Nat
    BY <2>1
  <2>3. /\ Min({buff, Capacity - toClient[d]}) <= buff
        /\ Min({buff, Capacity - toClient[d]}) <= Capacity - toClient[d]
        /\ Min({buff, Capacity - toClient[d]}) \in Nat
    BY <2>2, Smallest
  <2> QED
    BY <1>3, <2>1, <2>3
<1>6. CASE buff' = 0
  <2>1. Handled(i + 1) /\ i + 1 \in 0 .. FD_SETSIZE
    BY <1>2, <1>4, <1>6
  <2>2. /\ spc' \in {"select", "scan"} /\ nready' \in 0 .. FD_SETSIZE
        /\ i' \in 0 .. FD_SETSIZE /\ rset' \subseteq Indices
        /\ spc' = "scan" => nready' > 0 /\ i' = i + 1 /\ rset' = rset
    BY <1>2, <2>1, GoesOn
  <2> QED
    BY <1>1, <1>2, <1>3, <1>4, <1>5, <1>6, <2>2
<1>7. CASE buff' # 0
  <2>1. Continue("write", nready, i)
    BY <1>2, <1>7
  <2>2. spc' = "write" /\ i' = i /\ nready' = nready /\ rset' = rset
    BY <2>1 DEF Continue
  <2>3. nready \in 0 .. FD_SETSIZE /\ i \in 0 .. FD_SETSIZE /\ rset \subseteq Indices
    BY DEF TypeOK
  <2>4. buff' > 0
    BY <1>3, <1>5, <1>7
  <2> QED
    BY <1>1, <1>2, <1>3, <1>4, <1>5, <2>2, <2>3, <2>4
<1> QED
  BY <1>6, <1>7

LEMMA WriteBackKeeps == ASSUME IInv, WriteBack PROVE IInv'
<1> USE DEF IInv
<1>1. PICK d : d = Client
  OBVIOUS
<1>2. /\ UNCHANGED <<clientfd, maxi, maxfd, allset, garbage, limit, conn, backlog, sent, unread>>
      /\ spc = "write" /\ d \in Conns /\ i \in Nat /\ i + 1 \in 0 .. FD_SETSIZE
      /\ peer' = (IF peer[d] = "closed" THEN [peer EXCEPT ![d] = "refused"] ELSE peer)
  BY <1>1, Writes, Zenon
<1>3. PICK n \in 1 .. buff : /\ n <= Capacity - toClient[d]
                             /\ written' = [written EXCEPT ![d] = @ + n]
                             /\ toClient' = [toClient EXCEPT ![d] = @ + n]
                             /\ buff' = buff - n
  BY <1>1, Writes, Zenon
<1>4. /\ written' \in [Conns -> Nat] /\ toClient' \in [Conns -> 0 .. Capacity]
      /\ buff' \in 0 .. BuffSize
      /\ \A e \in Conns : toClient'[e] >= toClient[e] /\ (e # d => toClient'[e] = toClient[e])
  <2>1. /\ written \in [Conns -> Nat] /\ toClient \in [Conns -> 0 .. Capacity]
        /\ buff \in 0 .. BuffSize /\ Capacity \in Nat /\ BuffSize \in Nat
    BY DEF TypeOK
  <2> QED
    BY <1>2, <1>3, <2>1
<1>5. /\ peer' \in [Conns -> {"new", "open", "closed", "refused", "reset", "lost"}]
      /\ \A e \in Conns : /\ peer'[e] = peer[e] \/ (peer[e] = "closed" /\ peer'[e] = "refused")
                          /\ e = d => peer'[e] # "closed"
  <2>1. peer \in [Conns -> {"new", "open", "closed", "refused", "reset", "lost"}]
    BY DEF TypeOK
  <2> QED
    BY <1>2, <2>1
<1>6. /\ \/ /\ buff' = 0 /\ spc' \in {"select", "scan"}
            /\ spc' = "scan" => i' = i + 1 /\ nready' > 0 /\ rset' = rset
         \/ /\ buff' > 0 /\ spc' = "write" /\ i' = i /\ nready' = nready /\ rset' = rset
      /\ nready' \in 0 .. FD_SETSIZE /\ i' \in 0 .. FD_SETSIZE /\ rset' \subseteq Indices
  BY Writes, Zenon
<1>7. TypeOK'
  <2>1. spc' \in {"select", "scan", "write"} /\ (spc' \in {"scan", "write"} => nready' > 0)
    BY <1>2, <1>6 DEF TypeOK
  <2> QED
    BY <1>2, <1>4, <1>5, <1>6, <2>1, SMTT(20) DEF TypeOK
<1>8. Used' = Used /\ Open' = Open
  BY <1>2 DEF Used, Open
<1>9. Entries' /\ Bits'
  BY <1>2, <1>8 DEF Entries, Bits
<1>10. Once'
  BY <1>2, <1>5, <1>8, Shape DEF Once
<1>11. Queued'
  <2>1. \A m \in 1 .. Len(backlog) : backlog[m] \in Conns
    BY DEF TypeOK
  <2> QED
    BY <1>2, <1>5, <2>1 DEF Queued
<1>12. \A f : Due(f) => Due(f)'
  <2>1. \A f \in ConnFds : conn[f] # None => conn[f] \in Conns
    BY DEF TypeOK
  <2>2. \A e \in Conns : Gone(e) => Gone(e)'
    <3>1. \A e \in Conns : toClient[e] \in Int /\ toClient'[e] \in Int
      BY <1>4 DEF TypeOK
    <3> QED
      BY <1>4, <1>5, <3>1 DEF Gone
  <2> QED
    BY <1>2, <2>1, <2>2 DEF Due, Readable
<1>13. Walk'
  <2>1. \A k \in Used : k \in Nat /\ (k >= i + 1 => k >= i /\ k > i)
    BY <1>2, Shape
  <2> QED
    BY <1>2, <1>6, <1>8, <1>12, <2>1 DEF Walk
<1>14. EndsOnlyWhenFull' /\ Writing'
  <2>1. \A e \in Conns : peer'[e] = "closed" => peer[e] = "closed" /\ toClient'[e] = toClient[e]
    BY <1>4, <1>5
  <2> QED
    BY <1>6, <2>1 DEF EndsOnlyWhenFull, Writing
<1> QED
  BY <1>7, <1>9, <1>10, <1>11, <1>13, <1>14

(* read and writen fail only for a client that has gone.                   *)
LEMMA FailsKeeps == ASSUME IInv, ReadFails \/ WriteFails PROVE IInv'
<1> USE DEF IInv
<1>1. /\ (spc = "scan" /\ Hits # {}) \/ spc = "write"
      /\ Goto("exited") /\ peer[Client] \in {"lost", "reset", "refused"}
  BY DEF ReadFails, WriteFails
<1>2. UNCHANGED <<clientfd, maxi, rset, i, conn, peer>> /\ spc' = "exited"
  BY <1>1 DEF Goto, Continue, tableVars, connVars
<1>3. Hits # {}
  BY <1>1, AtWrite
<1>4. Hits' = Hits
  BY <1>2 DEF Hits, IsSet
<1>5. Client' = Client
  BY <1>2, <1>4 DEF Client, Hit
<1>6. EndsOnlyWhenFull'
  BY <1>1, <1>2, <1>3, <1>4, <1>5 DEF EndsOnlyWhenFull
<1> QED
  BY <1>1, <1>6, GotoKeeps DEF Ends

LEMMA Invariant == Spec => []IInv
<1>1. IInv /\ [Next]_vars => IInv'
  <2> SUFFICES ASSUME IInv, [Next]_vars PROVE IInv'
    OBVIOUS
  <2>1. ASSUME ~ Down, NEW c \in Conns, Peer(c)
        PROVE  IInv'
    BY <2>1, ConnectKeeps, PeerKeeps DEF Peer
  <2>2. CASE Server
    <3>1. CASE ScanEnds
      BY <3>1, GotoKeeps DEF ScanEnds, Ends
    <3> QED
      BY <2>2, <3>1, SelectKeeps, NoDescriptorKeeps, AcceptKeeps, ReadDataKeeps, ReadEndKeeps,
         WriteBackKeeps, FailsKeeps DEF Server
  <2>3. CASE UNCHANGED vars
    <3>1. /\ UNCHANGED <<clientfd, maxi, maxfd, allset, rset, nready, i, buff, spc, garbage, limit>>
          /\ UNCHANGED <<conn, backlog, peer, sent, unread, written, toClient>>
      BY <2>3 DEF vars, serverVars, given, tableVars, connVars
    <3>2. TypeOK' /\ Used' = Used /\ Open' = Open /\ Hits' = Hits
      BY <3>1 DEF IInv, TypeOK, Used, Open, Hits, IsSet
    <3>3. Entries' /\ Bits' /\ Once' /\ Queued' /\ Walk' /\ Writing'
      BY <3>1, <3>2 DEF IInv, Entries, Bits, Once, Queued, Walk, Writing, Due, Readable, Gone
    <3>4. Client' = Client /\ AllTaken' = AllTaken
      BY <3>1, <3>2 DEF Client, Hit, AllTaken, FreeSlots
    <3>5. EndsOnlyWhenFull'
      BY <3>1, <3>2, <3>4 DEF IInv, EndsOnlyWhenFull
    <3> QED
      BY <3>2, <3>3, <3>5 DEF IInv
  <2> QED
    BY <2>1, <2>2, <2>3 DEF Next
<1> QED
  BY InitInv, <1>1, PTL DEF Spec

----------------------------------------------------------------------------
(* clientfd, maxi, maxfd, allset and the open descriptors always agree,    *)
(* whatever bits allset started with (tcpserv.c has no FD_ZERO).           *)
THEOREM TableAgrees == Spec => []TableConsistent
<1>1. ASSUME IInv
      PROVE  TableConsistent
  <2> USE <1>1 DEF IInv
  <2>1. {k \in Indices : clientfd[k] # -1} = Used /\ {f \in ConnFds : conn[f] # None} = Open
    BY DEF Used, Open
  <2>2. {clientfd[k] : k \in Used} = Open
    BY DEF Entries
  <2>3. Cardinality(Used) = Cardinality(Open)
    <3> DEFINE g == [k \in Used |-> clientfd[k]]
    <3>1. g \in [Used -> Open] /\ \A k \in Used : g[k] = clientfd[k]
      BY DEF Entries
    <3>2. \A j, k \in Used : g[j] = g[k] => j = k
      BY DEF Entries
    <3>3. \A f \in Open : \E k \in Used : g[k] = f
      BY DEF Entries
    <3>4. g \in Bijection(Used, Open)
      <4> HIDE DEF g
      <4> QED
        BY <3>1, <3>2, <3>3, Fun_IsBij
    <3>5. ExistsBijection(Used, Open)
      BY <3>4 DEF ExistsBijection
    <3>6. IsFiniteSet(Used)
      <4>1. Used \in SUBSET Indices
        BY DEF Used
      <4> QED
        BY <4>1, Sizes, FS_Subset
    <3> QED
      BY <3>5, <3>6, FS_Bijection
  <2>4. \A k \in Used : k <= maxi /\ clientfd[k] <= maxfd
    BY DEF Entries
  <2>5. {f \in allset : f > listenfd /\ f <= maxfd} = Open
    <3>1. ASSUME NEW f \in allset, f > listenfd, f <= maxfd
          PROVE  f \in Open
      <4>1. f \in Nat /\ maxfd \in {listenfd} \cup ConnFds
        BY Fds DEF TypeOK
      <4>2. f \in ConnFds
        BY <3>1, <4>1, Fds DEF ConnFds
      <4> QED
        BY <3>1, <4>2 DEF Bits
    <3>2. ASSUME NEW f \in Open
          PROVE  f \in allset /\ f > listenfd /\ f <= maxfd
      <4>1. f \in ConnFds /\ f > listenfd
        BY Shape, Fds
      <4>2. f <= maxfd
        BY DEF Entries
      <4> QED
        BY <4>1, <4>2 DEF Bits
    <3> QED
      BY <3>1, <3>2
  <2> QED
    BY <2>1, <2>2, <2>3, <2>4, <2>5 DEF TableConsistent
<1> QED
  BY Invariant, <1>1, PTL

(* The server calls read() only where there is something to read, but for  *)
(* an unset bit of rset above the words that select wrote.                 *)
THEOREM BlockedByGarbageOnly == Spec => []BlocksOnlyByGarbage
<1>1. ASSUME IInv, spc = "scan", Hits # {}
      PROVE  Readable(clientfd[Hit]) \/ clientfd[Hit] \in garbage
  <2>1. Hit \in Used /\ i <= Hit /\ Hit \in Nat /\ clientfd[Hit] \in rset /\ i \in Nat
    BY <1>1, AtClient, Shape DEF IInv
  <2> QED
    BY <1>1, <2>1 DEF IInv, Walk, Due
<1>2. IInv => BlocksOnlyByGarbage
  BY <1>1 DEF BlocksOnlyByGarbage
<1> QED
  BY Invariant, <1>2, PTL

(* The server ends only because the client it serves has gone, or because  *)
(* all descriptors below the limit are in use, with room left in the       *)
(* table: no client is turned away for want of an entry, whatever the      *)
(* limit, before FD_SET has gone beyond allset.                            *)
THEOREM EndsWhenFull == Spec => []EndsOnlyWhenFull
<1>1. IInv => EndsOnlyWhenFull
  BY DEF IInv
<1> QED
  BY Invariant, <1>1, PTL

----------------------------------------------------------------------------
(* What becomes of the bytes: those a client sent are echoed, unread, or   *)
(* in buff while the server writes them back to it.  A client that is      *)
(* there waits to be accepted or has a descriptor.                         *)
InBuff(c) == IF spc = "write" /\ conn[clientfd[i]] = c THEN buff ELSE 0
Balance == \A c \in Conns :
    /\ peer[c] = "open" => sent[c] = written[c] + unread[c] + InBuff(c)
    /\ peer[c] = "new" => sent[c] = 0 /\ written[c] = 0 /\ unread[c] = 0
Home == /\ listenfd \in allset
        /\ \A c \in Conns : peer[c] = "open" => \/ \E n \in 1 .. Len(backlog) : backlog[n] = c
                                                \/ \E f \in Open : conn[f] = c

LEMMA InitEcho == Init => Balance /\ Home
  BY DEF Init, Balance, Home, InBuff

(* Nobody comes, and no place of a client changes.                         *)
LEMMA HomeKept ==
    ASSUME Home, UNCHANGED <<allset, backlog, conn>>,
           \A c \in Conns : peer'[c] = "open" => peer[c] = "open"
    PROVE  Home'
<1>1. Open' = Open
  BY DEF Open
<1> QED
  BY <1>1 DEF Home

LEMMA StepHome == ASSUME IInv, Home, [Next]_vars PROVE Home'
<1> USE DEF IInv
<1>t. /\ backlog \in Seq(Conns) /\ conn \in [ConnFds -> Conns \cup {None}]
      /\ peer \in [Conns -> {"new", "open", "closed", "refused", "reset", "lost"}]
  BY DEF TypeOK
<1>1. ASSUME NEW c \in Conns, Connect(c) PROVE Home'
  <2>1. /\ UNCHANGED <<allset, conn>> /\ backlog' = Append(backlog, c)
        /\ \A d \in Conns \ {c} : peer'[d] = peer[d]
    BY <1>1, <1>t DEF Connect, serverVars, given, tableVars
  <2>2. /\ Len(backlog') = Len(backlog) + 1 /\ Len(backlog) \in Nat
        /\ \A n \in 1 .. Len(backlog) : backlog'[n] = backlog[n]
        /\ backlog'[Len(backlog) + 1] = c
    BY <1>t, <2>1
  <2>3. \A n \in 1 .. Len(backlog) : n \in 1 .. Len(backlog')
    BY <2>2
  <2>4. \E n \in 1 .. Len(backlog') : backlog'[n] = c
    BY <2>2
  <2>5. Open' = Open
    BY <2>1 DEF Open
  <2> QED
    BY <2>1, <2>2, <2>3, <2>4, <2>5 DEF Home
<1>2. ASSUME NEW c \in Conns, Send(c) \/ Take(c) \/ Leave(c) PROVE Home'
  <2>1. UNCHANGED <<allset, backlog, conn>> /\ \A d \in Conns \ {c} : peer'[d] = peer[d]
    BY <1>2, <1>t DEF Send, Take, Leave, serverVars, given, tableVars
  <2>2. peer[c] = "open"
    BY <1>2 DEF Send, Take, Leave
  <2> QED
    BY <2>1, <2>2, HomeKept
<1>3. CASE Accept
  <2>1. /\ peer' = peer /\ spc = "accept" /\ FreeFds # {} /\ backlog' = Tail(backlog)
        /\ backlog # << >>
    BY <1>3, RoomInTable DEF Accept, connVars, Walk
  <2>2. PICK f, c : f = Min(FreeFds) /\ c = Head(backlog)
    OBVIOUS
  <2>3. allset' = allset \cup {f} /\ conn' = [conn EXCEPT ![f] = c]
    BY <1>3, <2>2, RoomInTable, Zenon DEF Accept
  <2>4. f \in ConnFds /\ conn[f] = None
    <3>1. FreeFds \in SUBSET Nat
      BY Fds DEF FreeFds
    <3> QED
      BY <2>1, <2>2, <3>1, Smallest DEF FreeFds
  <2>5. /\ c \in Conns /\ c = backlog[1] /\ c # None
        /\ \A n \in 1 .. Len(backlog) :
              n = 1 \/ \E m \in 1 .. Len(backlog') : backlog'[m] = backlog[n]
    <3>1. /\ c \in Conns /\ c = backlog[1] /\ Len(backlog) \in Nat
          /\ Len(backlog') = Len(backlog) - 1
          /\ \A m \in 1 .. Len(backlog) - 1 : backlog'[m] = backlog[m + 1]
      BY <1>t, <2>1, <2>2
    <3>2. ASSUME NEW n \in 1 .. Len(backlog), n # 1
          PROVE  \E m \in 1 .. Len(backlog') : backlog'[m] = backlog[n]
      <4>1. n - 1 \in 1 .. Len(backlog) - 1 /\ (n - 1) + 1 = n
        BY <3>1, <3>2
      <4> QED
        BY <3>1, <4>1
    <3> QED
      BY <3>1, <3>2
  <2>6. /\ \A g \in Open : g \in Open' /\ conn'[g] = conn[g]
        /\ f \in Open' /\ conn'[f] = c
    BY <1>t, <2>3, <2>4, <2>5 DEF Open
  <2>7. ASSUME NEW d \in Conns, peer[d] = "open"
        PROVE  \/ \E n \in 1 .. Len(backlog') : backlog'[n] = d
               \/ \E g \in Open' : conn'[g] = d
    <3>1. CASE \E n \in 1 .. Len(backlog) : backlog[n] = d
      BY <2>5, <2>6, <3>1
    <3>2. CASE \E g \in Open : conn[g] = d
      <4>1. PICK g \in Open : conn[g] = d
        BY <3>2
      <4> QED
        BY <2>6, <4>1
    <3> QED
      BY <2>7, <3>1, <3>2 DEF Home
  <2> QED
    BY <2>1, <2>3, <2>7 DEF Home
<1>4. CASE ReadEnd
  <2>1. PICK f, d : f = clientfd[Hit] /\ d = Client
    OBVIOUS
  <2>2. /\ UNCHANGED <<backlog, peer>> /\ allset' = allset \ {f}
        /\ conn' = [conn EXCEPT ![f] = None] /\ peer[d] # "open"
    BY <1>4, <2>1, Zenon DEF ReadEnd, Closed, Cleared, connVars
  <2>3. f \in Open /\ f \in ConnFds /\ conn[f] = d /\ f # listenfd
    BY <1>4, <2>1, AtClient, Fds DEF ReadEnd, Client
  <2>4. ASSUME NEW g \in Open, peer[conn[g]] = "open" PROVE g \in Open' /\ conn'[g] = conn[g]
    BY <1>t, <2>2, <2>3, <2>4 DEF Open
  <2> QED
    BY <2>2, <2>3, <2>4 DEF Home
<1>5. CASE WriteBack
  <2>1. UNCHANGED <<allset, backlog, conn>>
    BY <1>5, Writes
  <2>2. \A d \in Conns : peer'[d] = "open" => peer[d] = "open"
    BY <1>5, <1>t, Writes
  <2> QED
    BY <2>1, <2>2, HomeKept
<1>6. CASE Select \/ AcceptFails \/ Overrun \/ ScanEnds \/ ReadData \/ ReadFails \/ WriteFails \/ UNCHANGED vars
  <2>1. UNCHANGED <<allset, backlog, conn, peer>>
    BY <1>6 DEF Select, AcceptFails, Overrun, ScanEnds, ReadData, ReadFails, WriteFails, Goto, vars,
       serverVars, given, tableVars, connVars
  <2> QED
    BY <2>1, HomeKept
<1> QED
  BY <1>1, <1>2, <1>3, <1>4, <1>5, <1>6 DEF Next, Peer, Server

LEMMA StepBalance == ASSUME IInv, Balance, [Next]_vars PROVE Balance'
<1> USE DEF IInv
<1>t. /\ {sent, unread, written} \subseteq [Conns -> Nat] /\ buff \in Nat
      /\ peer \in [Conns -> {"new", "open", "closed", "refused", "reset", "lost"}]
  BY DEF TypeOK
<1>s. sent \in [Conns -> Nat] /\ unread \in [Conns -> Nat] /\ written \in [Conns -> Nat]
  BY <1>t
<1>1. ASSUME NEW c \in Conns, Connect(c) PROVE Balance'
  <2>1. /\ UNCHANGED <<clientfd, i, buff, spc, conn, sent, unread, written, toClient>>
        /\ peer[c] = "new" /\ peer'[c] = "open" /\ \A d \in Conns \ {c} : peer'[d] = peer[d]
    BY <1>1, <1>t DEF Connect, serverVars, given, tableVars
  <2>2. InBuff(c) = 0
    <3>1. spc = "write" => clientfd[i] \in Open
      BY Shape DEF Walk
    <3> QED
      BY <2>1, <3>1 DEF InBuff, Once
  <2>3. \A d \in Conns : InBuff(d)' = InBuff(d)
    BY <2>1 DEF InBuff
  <2> QED
    BY <1>s, <2>1, <2>2, <2>3 DEF Balance
<1>2. ASSUME NEW c \in Conns, Send(c) PROVE Balance'
  <2>1. /\ UNCHANGED <<clientfd, i, buff, spc, conn, peer, written>> /\ peer[c] = "open"
        /\ sent' = [sent EXCEPT ![c] = @ + 1] /\ unread' = [unread EXCEPT ![c] = @ + 1]
    BY <1>2, Zenon DEF Send, serverVars, given, tableVars
  <2>2. \A d \in Conns : InBuff(d)' = InBuff(d) /\ InBuff(d) \in Nat
    BY <1>t, <2>1 DEF InBuff
  <2>3. ASSUME NEW d \in Conns, peer[d] = "open"
        PROVE  sent'[d] = written'[d] + unread'[d] + InBuff(d)'
    <3>1. sent[d] = written[d] + unread[d] + InBuff(d)
      BY <2>3 DEF Balance
    <3> QED
      BY <1>s, <2>1, <2>2, <3>1
  <2>4. \A d \in Conns : peer[d] = "new" => d # c
    BY <2>1
  <2> QED
    BY <1>s, <2>1, <2>3, <2>4 DEF Balance
<1>3. ASSUME NEW c \in Conns, Take(c) \/ Leave(c) PROVE Balance'
  <2>1. /\ UNCHANGED <<clientfd, i, buff, spc, conn, sent, written>>
        /\ peer'[c] # "new" /\ (peer'[c] = "open" => peer[c] = "open" /\ unread'[c] = unread[c])
        /\ \A d \in Conns \ {c} : peer'[d] = peer[d] /\ unread'[d] = unread[d]
    BY <1>3, <1>t, <1>s DEF Take, Leave, serverVars, given, tableVars
  <2>2. \A d \in Conns : InBuff(d)' = InBuff(d)
    BY <2>1 DEF InBuff
  <2> QED
    BY <2>1, <2>2 DEF Balance
<1>4. CASE Select \/ AcceptFails \/ Overrun \/ Accept \/ ScanEnds \/ ReadEnd \/ ReadFails
  <2>1. UNCHANGED <<peer, sent, unread, written, toClient>> /\ spc # "write" /\ spc' # "write"
    BY <1>4 DEF Select, AcceptFails, Overrun, Accept, ScanEnds, ReadEnd, ReadFails, Goto, Handled, Continue,
       connVars
  <2>2. \A d \in Conns : InBuff(d)' = InBuff(d)
    BY <2>1 DEF InBuff
  <2> QED
    BY <2>1, <2>2 DEF Balance
<1>5. CASE ReadData
  <2>1. PICK k, d : k = Hit /\ d = Client
    OBVIOUS
  <2>2. /\ UNCHANGED <<clientfd, conn, peer, sent, written, toClient>>
        /\ spc = "scan" /\ Hits # {} /\ spc' = "write" /\ i' = k
    BY <1>5, <2>1, Zenon DEF ReadData, given, tableVars
  <2>3. PICK n \in 1 .. Min({unread[d], BuffSize}) :
           buff' = n /\ unread' = [unread EXCEPT ![d] = @ - n]
    BY <1>5, <2>1, Zenon DEF ReadData
  <2>4. d \in Conns /\ conn[clientfd[k]] = d /\ clientfd[k] \in Open
    BY <2>1, <2>2, AtClient DEF Client
  <2>5. n \in Nat
    <3>1. {unread[d], BuffSize} \in SUBSET Nat
      BY <1>s, <2>4
    <3>2. Min({unread[d], BuffSize}) \in Nat
      BY <3>1, Smallest
    <3> QED
      BY <3>2
  <2>6. \A e \in Conns : InBuff(e) = 0 /\ InBuff(e)' = IF e = d THEN n ELSE 0
    BY <2>2, <2>3, <2>4 DEF InBuff
  <2>7. peer[d] # "new"
    BY <2>4 DEF Once
  <2>8. ASSUME NEW e \in Conns, peer[e] = "open"
        PROVE  sent'[e] = written'[e] + unread'[e] + InBuff(e)'
    <3>1. sent[e] = written[e] + unread[e] + InBuff(e)
      BY <2>8 DEF Balance
    <3> QED
      BY <1>s, <2>2, <2>3, <2>4, <2>5, <2>6, <3>1
  <2>9. \A e \in Conns \ {d} : unread'[e] = unread[e]
    BY <1>s, <2>3
  <2> QED
    BY <2>2, <2>7, <2>8, <2>9 DEF Balance
<1>6. CASE WriteBack
  <2>1. PICK d : d = Client
    OBVIOUS
  <2>2. /\ UNCHANGED <<clientfd, conn, sent, unread>> /\ spc = "write" /\ d \in Conns /\ Hit = i
        /\ peer' = (IF peer[d] = "closed" THEN [peer EXCEPT ![d] = "refused"] ELSE peer)
        /\ \/ buff' = 0 /\ spc' # "write"
           \/ spc' = "write" /\ i' = i
    BY <1>6, <2>1, Writes
  <2>3. PICK n \in 1 .. buff : written' = [written EXCEPT ![d] = @ + n] /\ buff' = buff - n
    BY <1>6, <2>1, Writes, Zenon
  <2>4. conn[clientfd[i]] = d /\ clientfd[i] \in Open
    BY <1>6, <2>1, <2>2, AtClient DEF Client
  <2>5. \A e \in Conns : /\ InBuff(e) = (IF e = d THEN buff ELSE 0)
                         /\ InBuff(e)' = (IF e = d THEN buff - n ELSE 0)
    BY <2>2, <2>3, <2>4 DEF InBuff
  <2>6. peer[d] # "new"
    BY <2>4 DEF Once
  <2>7. ASSUME NEW e \in Conns
        PROVE  /\ peer'[e] = "open" => peer[e] = "open"
               /\ peer'[e] = "new" => peer[e] = "new" /\ e # d
    BY <1>t, <2>2, <2>6
  <2>8. ASSUME NEW e \in Conns, peer'[e] = "open"
        PROVE  sent'[e] = written'[e] + unread'[e] + InBuff(e)'
    <3>1. sent[e] = written[e] + unread[e] + InBuff(e)
      BY <2>7, <2>8 DEF Balance
    <3>2. CASE e = d
      <4>1. written'[e] = written[e] + n /\ InBuff(e) = buff /\ InBuff(e)' = buff - n
        BY <1>s, <2>2, <2>3, <2>5, <3>2
      <4>2. written[e] \in Nat /\ unread[e] \in Nat /\ n \in Nat
        BY <1>s, <1>t
      <4> QED
        BY <1>t, <2>2, <3>1, <4>1, <4>2
    <3>3. CASE e # d
      BY <1>s, <2>2, <2>3, <2>5, <3>1, <3>3
    <3> QED
      BY <3>2, <3>3
  <2>9. \A e \in Conns \ {d} : written'[e] = written[e]
    BY <1>s, <2>3
  <2> QED
    BY <2>2, <2>7, <2>8, <2>9 DEF Balance
<1>7. CASE WriteFails
  <2>1. /\ UNCHANGED <<clientfd, conn, peer, sent, unread, written, toClient>> /\ spc' # "write"
        /\ spc = "write" /\ peer[Client] # "open"
    BY <1>7 DEF WriteFails, Goto, Continue, given, tableVars, connVars
  <2>2. conn[clientfd[i]] = Client
    BY <2>1, AtClient DEF Client
  <2>3. \A d \in Conns : peer[d] = "open" => InBuff(d) = 0 /\ InBuff(d)' = 0
    BY <2>1, <2>2 DEF InBuff
  <2> QED
    BY <2>1, <2>3 DEF Balance
<1>8. CASE UNCHANGED vars
  BY <1>8 DEF vars, serverVars, given, tableVars, connVars, Balance, InBuff
<1> QED
  BY <1>1, <1>2, <1>3, <1>4, <1>5, <1>6, <1>7, <1>8 DEF Next, Peer, Server

(* The server can take a step unless it has ended or nothing is ready that *)
(* it waits for, in select(), in read() or in writen.                      *)
ServerRuns == \/ spc = "accept"
              \/ /\ spc = "write" /\ buff > 0
                 /\ \/ toClient[Client] < Capacity
                    \/ peer[Client] \in {"refused", "reset", "lost"}
              \/ spc = "select" /\ \E f \in allset : f <= maxfd /\ Readable(f)
              \/ spc = "scan" /\ ~ Blocked

EchoedAtRest == \/ ServerRuns \/ Down \/ Blocked \/ Stuck
                \/ \A c \in Conns : peer[c] = "open" => written[c] = sent[c]

(* The server never sleeps in select() while a client waits: to be         *)
(* accepted, or for the echo of a byte.  It comes to rest elsewhere only   *)
(* in read() where a stray bit has led it, or in writen to a client that   *)
(* has not read what was echoed.  No byte sent is lost or doubled on its   *)
(* way through the kernel's queue and buff.                                *)
THEOREM NobodyLeftWaiting == Spec => []EchoedAtRest
<1>1. ASSUME IInv, Balance, Home, spc = "select", ~ ServerRuns, NEW c \in Conns, peer[c] = "open"
      PROVE  written[c] = sent[c]
  <2> USE <1>1 DEF IInv
  <2>1. \A f \in allset : f <= maxfd => ~ Readable(f)
    BY DEF ServerRuns
  <2>2. backlog = << >>
    <3>1. listenfd \in allset /\ listenfd <= maxfd
      BY Shape DEF Home
    <3> QED
      BY <2>1, <3>1 DEF Readable
  <2>3. PICK f \in Open : conn[f] = c
    BY <2>2 DEF Home
  <2>4. f \in ConnFds /\ f <= maxfd /\ f \in allset
    BY <2>3, Shape DEF Entries, Bits
  <2>5. unread[c] \in Nat /\ written[c] \in Nat
    BY DEF TypeOK
  <2>6. unread[c] = 0
    BY <2>1, <2>3, <2>4, <2>5 DEF Readable, Open
  <2> QED
    BY <2>1, <2>5, <2>6 DEF Balance, InBuff
<1>2. ASSUME IInv, spc = "write"
      PROVE  ServerRuns \/ Stuck
  <2> USE <1>2 DEF IInv
  <2>1. Client \in Conns /\ peer[Client] # "new"
    BY AtClient DEF Once, Client
  <2>2. /\ toClient[Client] \in 0 .. Capacity /\ Capacity \in Nat \ {0}
        /\ peer[Client] \in {"new", "open", "closed", "refused", "reset", "lost"}
    BY <2>1 DEF TypeOK
  <2>3. buff > 0 /\ (peer[Client] = "closed" => toClient[Client] = 0)
    BY <2>1 DEF Writing
  <2> QED
    BY <2>1, <2>2, <2>3 DEF ServerRuns, Stuck
<1>3. ASSUME IInv, Balance, Home
      PROVE  EchoedAtRest
  <2>1. spc \in {"select", "accept", "scan", "write"} \/ Down
    BY <1>3 DEF IInv, TypeOK, Down
  <2>2. CASE spc \in {"accept", "scan"}
    BY <2>2 DEF EchoedAtRest, ServerRuns
  <2> QED
    BY <1>1, <1>2, <1>3, <2>1, <2>2 DEF EchoedAtRest
<1>4. Spec => [](Balance /\ Home)
  BY InitEcho, StepBalance, StepHome, Invariant, PTL DEF Spec
<1> QED
  BY <1>3, <1>4, Invariant, PTL
=============================================================================
