------------------------------- MODULE TxFifo -------------------------------
(***************************************************************************)
(* What a transmit ring owes the network stack, with no ring in sight: a   *)
(* bounded queue of socket buffers. A buffer enters once, at the tail, and *)
(* leaves once, from the head, when the driver frees it.                   *)
(***************************************************************************)
EXTENDS Naturals, Sequences

CONSTANTS Skbs, Capacity

VARIABLE queue

Accept(s) ==
  /\ Len(queue) < Capacity
  /\ \A k \in 1 .. Len(queue) : queue[k] # s
  /\ queue' = Append(queue, s)

FreeHead ==
  /\ queue # <<>>
  /\ queue' = Tail(queue)

Init == queue = <<>>

Next == FreeHead \/ \E s \in Skbs : Accept(s)

Spec == Init /\ [][Next]_queue
=============================================================================
