----------------------------- MODULE ItemStream -----------------------------
(***************************************************************************)
(* What a producer/consumer program of mutex/ promises, free of threads,   *)
(* locks and buffers: nitems items are made in order, each is got after it *)
(* was made and in the same order, and the program ends well only when     *)
(* every item was made and got.  It may give up instead.                   *)
(***************************************************************************)
EXTENDS Naturals

CONSTANT nitems

VARIABLES made, got, status

vars == <<made, got, status>>

Init == made = 0 /\ got = 0 /\ status = "running"

Make == /\ status = "running" /\ made < nitems
        /\ made' = made + 1
        /\ UNCHANGED <<got, status>>

Get == /\ status = "running" /\ got < made
       /\ got' = got + 1
       /\ UNCHANGED <<made, status>>

Finish == /\ status = "running" /\ made = nitems /\ got = nitems
          /\ status' = "finished"
          /\ UNCHANGED <<made, got>>

GiveUp == /\ status = "running"
          /\ status' = "gaveup"
          /\ UNCHANGED <<made, got>>

Next == Make \/ Get \/ Finish \/ GiveUp

Spec == Init /\ [][Next]_vars
=============================================================================
