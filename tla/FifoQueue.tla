----------------------------- MODULE FifoQueue -----------------------------
(***************************************************************************)
(* What a FIFO promises: words come out in the order they went in, each    *)
(* once, and none that was let in is lost but by a reset.  A word that is  *)
(* offered may be refused.                                                 *)
(***************************************************************************)
EXTENDS Integers, Sequences

CONSTANT Capacity

VARIABLES
  q,        \* what is in it
  offered,  \* the word at its input, as a sequence of one, or nothing
  last,     \* the last word taken out, likewise
  clear     \* it is being reset

QueueInit == q = <<>>

Moves ==
  \E put \in {<<>>, offered}, get \in 0..1 :
    /\ get <= Len(q) /\ Len(q) + Len(put) <= Capacity
    /\ q' = SubSeq(q, get + 1, Len(q)) \o put
    /\ get = 1 => last' = <<Head(q)>>

Cleared == clear' /\ q' = <<>>

Queue == QueueInit /\ [][Moves \/ Cleared]_q
=============================================================================
