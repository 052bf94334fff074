-------------------------- MODULE MCCapacityEstimate --------------------------
(* Instances of CapacityEstimate for TLC: windows of a few seconds, so that  *)
(* calls outlive them, and a clock that shows several of them.               *)
EXTENDS CapacityEstimate, TLC

CONSTANTS h1, h2, c1

\* Each handler in a load balancer of its own.
OwnProcess == [a \in Actors |-> a]

Interchangeable == Permutations(Handlers)
===============================================================================
