------------------------------ MODULE MCOta24 ------------------------------
(***************************************************************************)
(* Two images of two blocks each for the update over the 2.4 GHz radio.      *)
(***************************************************************************)
EXTENDS Ota24, TLC

TwoImages == 1 :> 2 @@ 2 :> 2

=============================================================================
