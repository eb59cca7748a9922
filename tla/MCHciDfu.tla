------------------------------ MODULE MCHciDfu ------------------------------
(* Instances of HciDfu for TLC. *)
EXTENDS HciDfu

CONSTANTS low, high, v1, v2

MCBank == {low, high}
MCOther == [b \in MCBank |-> IF b = low THEN high ELSE low]
MCVersion1 == {v1}
MCVersion == {v1, v2}
=============================================================================
