------------------------------ MODULE DropQueue -----------------------------
(***************************************************************************)
(* What a message ring of pxshm/ promises to its senders: a message        *)
(* <<sender, number>> is either taken, at most Cap at a time, and delivered *)
(* once, unchanged and in the order taken, or it is dropped and counted.   *)
(* The promise may break, once and for all, but only while messages of two *)
(* senders are waiting: for a single sender it is unconditional.           *)
(***************************************************************************)
EXTENDS Naturals, Sequences

CONSTANTS Cap, Messages

VARIABLES queue, delivered, drops, broken

vars == <<queue, delivered, drops, broken>>

Init == queue = << >> /\ delivered = << >> /\ drops = 0 /\ broken = FALSE

Accept(m) == /\ Len(queue) < Cap
             /\ queue' = Append(queue, m)
             /\ UNCHANGED <<delivered, drops, broken>>

Deliver == /\ queue # << >>
           /\ delivered' = Append(delivered, Head(queue))
           /\ queue' = Tail(queue)
           /\ UNCHANGED <<drops, broken>>

Drop == drops' = drops + 1 /\ UNCHANGED <<queue, delivered, broken>>

TwoSenders == \E j, k \in DOMAIN queue : queue[j][1] # queue[k][1]

(* After this anything may happen to the messages.                         *)
Break == /\ broken \/ TwoSenders
         /\ broken'

Next == (\E m \in Messages : Accept(m)) \/ Deliver \/ Drop \/ Break

Spec == Init /\ [][Next]_vars
=============================================================================
