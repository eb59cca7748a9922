----------------------------- MODULE MCTlQueue -----------------------------
(* Instances of TlQueue for TLC. *)
EXTENDS TlQueue

CONSTANTS itA, itB, itC, itD

MCItem == {itA, itB, itC, itD}
\* Two items of one priority, one above and one below.
MCRank == [x \in MCItem |-> IF x = itA THEN 0 ELSE IF x = itD THEN 2 ELSE 1]
=============================================================================
