---------------------------- MODULE CounterService --------------------------
(***************************************************************************)
(* What programs that count in a shared place promise, free of system      *)
(* calls, names and semaphores: a process attaches once, to a counter and  *)
(* a lock, and then nloop times takes a value, raises it and shows it, the *)
(* last two in either order.  As long as all who are attached to a counter *)
(* have one lock, a value is shown once, in its turn, and nothing comes    *)
(* between taking and raising it.  Else a process may raise what is no     *)
(* longer the value, undo what others have added, and be overtaken before  *)
(* it shows what it took.                                                  *)
(***************************************************************************)
EXTENDS Naturals, Sequences

CONSTANTS Procs, nloop, Locks, None

VARIABLES counter, lock, turns,         \* of a process; the value it took, if
          hand, owed,                   \* any: still to be raised, to be shown
          value, shown                  \* of a counter

vars == <<counter, lock, turns, hand, owed, value, shown>>

Attached(x) == {p \in Procs : counter[p] = x}
Guarded(x) == \A p, q \in Attached(x) : lock[p] = lock[q] /\ lock[p] # None

Init == /\ counter \in [Procs -> DOMAIN value \cup {None}]
        /\ lock \in [Procs -> Locks \cup {None}]
        /\ turns = [p \in Procs |-> 0]
        /\ hand = [p \in Procs |-> {}] /\ owed = [p \in Procs |-> {}]
        /\ value = [x \in DOMAIN value |-> 0]
        /\ shown = [x \in DOMAIN value |-> << >>]

Attach(p) == /\ counter[p] = None
             /\ \E x \in DOMAIN value : counter' = [counter EXCEPT ![p] = x]
             /\ \E s \in Locks \cup {None} : lock' = [lock EXCEPT ![p] = s]
             /\ UNCHANGED <<turns, hand, owed, value, shown>>

Take(p, x) == /\ counter[p] = x /\ turns[p] < nloop /\ hand[p] = {} /\ owed[p] = {}
              /\ Guarded(x) => Len(shown[x]) = value[x]
              /\ hand' = [hand EXCEPT ![p] = {value[x]}]
              /\ owed' = [owed EXCEPT ![p] = {value[x]}]
              /\ UNCHANGED <<counter, lock, turns, value, shown>>

Raise(p, x) == /\ counter[p] = x
               /\ \E v \in hand[p] : /\ Guarded(x) => v = value[x]
                                     /\ value' = [value EXCEPT ![x] = v + 1]
               /\ hand' = [hand EXCEPT ![p] = {}]
               /\ turns' = [turns EXCEPT ![p] = @ + 1]
               /\ UNCHANGED <<counter, lock, owed, shown>>

Show(p, x) == /\ counter[p] = x
              /\ \E v \in owed[p] : /\ Guarded(x) => v = Len(shown[x])
                                    /\ shown' = [shown EXCEPT ![x] = Append(@, v)]
              /\ owed' = [owed EXCEPT ![p] = {}]
              /\ UNCHANGED <<counter, lock, turns, hand, value>>

Next == \E p \in Procs : \/ Attach(p)
                         \/ \E x \in DOMAIN value : Take(p, x) \/ Raise(p, x) \/ Show(p, x)

Spec == Init /\ [][Next]_vars
=============================================================================
