---------------------------- MODULE SwitchedFifo ----------------------------
(***************************************************************************)
(* What safe_queue.h promises its users: a first-in first-out queue with a *)
(* switch.  While the switch is on every item offered is accepted and what *)
(* is accepted is delivered in the order of acceptance; while it is off    *)
(* every item offered is handed back.  Draining hands back what waits.     *)
(***************************************************************************)
EXTENDS Naturals, Sequences

CONSTANT Items

VARIABLES
  fifo,       (* what was accepted and not yet delivered, oldest first     *)
  on,         (* the switch                                                *)
  delivered,  (* what was delivered, in order                              *)
  returned    (* what was handed back                                      *)

vars == <<fifo, on, delivered, returned>>

Init == /\ fifo = <<>> /\ delivered = <<>> /\ returned = {}
        /\ on \in BOOLEAN

Accept(v) == /\ on
             /\ fifo' = Append(fifo, v)
             /\ UNCHANGED <<on, delivered, returned>>

Refuse(v) == /\ ~on
             /\ returned' = returned \cup {v}
             /\ UNCHANGED <<fifo, on, delivered>>

Deliver == /\ fifo # <<>>
           /\ delivered' = Append(delivered, Head(fifo))
           /\ fifo' = Tail(fifo)
           /\ UNCHANGED <<on, returned>>

Switch == /\ on' \in BOOLEAN
          /\ UNCHANGED <<fifo, delivered, returned>>

Drain == /\ returned' = returned \cup {fifo[i] : i \in 1..Len(fifo)}
         /\ fifo' = <<>>
         /\ UNCHANGED <<on, delivered>>

Next == \/ \E v \in Items : Accept(v) \/ Refuse(v)
        \/ Deliver \/ Switch \/ Drain

Spec == Init /\ [][Next]_vars

=============================================================================
