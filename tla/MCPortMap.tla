----------------------------- MODULE MCPortMap ------------------------------
(* Values of the constants of PortMap for model checking.                   *)
EXTENDS PortMap, TLC

CONSTANTS k1, k2, d1, d2, httpd, console

\* Two rules of one key and one of another.
DuplicateRequests == {[key |-> k1, dest |-> d1], [key |-> k1, dest |-> d2],
                      [key |-> k2, dest |-> d1]}

\* Two rules that share nothing, so that every mixture of them shows.
DistinctRequests == {[key |-> k1, dest |-> d1], [key |-> k2, dest |-> d2]}
=============================================================================
