-------------------------- MODULE MCIdempotentTask --------------------------
(* Instances of IdempotentTask for TLC: calls for one or two keys. *)
EXTENDS IdempotentTask, TLC

CONSTANTS k1, k2, a, b, c, w1, w2

\* a and b are a double enqueue.
MCKeyOf == [x \in Calls |-> IF x = c THEN k2 ELSE k1]
=============================================================================
