--------------------------- MODULE MessageStreams ---------------------------
(***************************************************************************)
(* What the chunk stream of librtmp promises: each channel carries whole   *)
(* messages, first in first out and unaltered, whatever the other channels *)
(* do.  A message that is not timed may arrive with another timestamp.     *)
(***************************************************************************)
EXTENDS Naturals, Sequences

CONSTANTS
  Channels,
  Messages,  (* records with what they carry, a timestamp ts, and timed    *)
  Times,
  NONE

VARIABLES
  queue,  (* the messages each channel was given and did not deliver yet   *)
  last    (* the message each channel delivered last                       *)

vars == <<queue, last>>

Init == /\ queue = [c \in Channels |-> <<>>]
        /\ last  = [c \in Channels |-> NONE]

Give(c) ==
  /\ Len(queue'[c]) = Len(queue[c]) + 1
  /\ LET m == queue'[c][Len(queue'[c])]
     IN  m \in Messages /\ queue' = [queue EXCEPT ![c] = Append(@, m)]
  /\ UNCHANGED last

Deliver(c) ==
  /\ queue[c] # <<>>
  /\ \E t \in Times :
       LET m == Head(queue[c])
       IN  /\ m.timed => t = m.ts
           /\ last' = [last EXCEPT ![c] = [what |-> m.what, ts |-> t]]
  /\ queue' = [queue EXCEPT ![c] = Tail(@)]

Next == \E c \in Channels : Give(c) \/ Deliver(c)

Spec == Init /\ [][Next]_vars

=============================================================================
