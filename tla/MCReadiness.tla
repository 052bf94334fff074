------------------------------ MODULE MCReadiness ------------------------------
(* Instances of Readiness for TLC: interchangeable endpoints and probers.    *)
EXTENDS Readiness, TLC

CONSTANTS e1, e2, p1, p2
===============================================================================
