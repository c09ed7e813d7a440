------------------------------ MODULE MCReactor ------------------------------
(* Reactor for TLC: a timer p that keeps the reactor awake, a timer w whose  *)
(* callback pauses (a work timer), one-shot callbacks and a descriptor.      *)
EXTENDS Reactor

CONSTANTS p, w, c

MCOps == [t \in {p, w, c, Fd} |-> CASE t = p -> 0 [] t \in {c, Fd} -> 1 [] OTHER -> 2]
=============================================================================
