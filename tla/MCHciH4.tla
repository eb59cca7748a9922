------------------------------ MODULE MCHciH4 ------------------------------
(***************************************************************************)
(* A small H4 stream: commands with a header of two bytes, data with three.  *)
(***************************************************************************)
EXTENDS HciH4

MCPacket == {[kind |-> "CMD", size |-> 2], [kind |-> "ACL", size |-> 4]}
MCHeadLen == [CMD |-> 2, ACL |-> 3, SKIP |-> 2]

=============================================================================
