---------------------------- MODULE MCSoftTimer ----------------------------
(* Instances of SoftTimer for TLC. *)
EXTENDS SoftTimer

CONSTANTS cbA, cbB, cbC, cbD

MCCb2 == {cbA, cbB}
MCCb4 == {cbA, cbB, cbC, cbD}
=============================================================================
