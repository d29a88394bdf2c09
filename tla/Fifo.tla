-------------------------------- MODULE Fifo --------------------------------
(***************************************************************************)
(* An unbounded first-in first-out queue: what utils.ElasticChan promises  *)
(* ("a dynamic channel that does not block on send, but has an unlimited   *)
(* buffer capacity").                                                      *)
(***************************************************************************)
EXTENDS Sequences

CONSTANT Values   \* what is queued

VARIABLE q

Init == q = <<>>

Enqueue(v) == q' = Append(q, v)

Dequeue == q # <<>> /\ q' = Tail(q)

Next == (\E v \in Values : Enqueue(v)) \/ Dequeue

Spec == Init /\ [][Next]_q

=============================================================================
