---------------------------- MODULE MCPacketHistory ----------------------------
(***************************************************************************)
(* An instance of PacketHistory with two packets, one of them our own, and *)
(* two slots for relayers.  The slot that the record of a new packet       *)
(* leaves unwritten holds the byte of node 3.                              *)
(***************************************************************************)
EXTENDS PacketHistory

CONSTANTS k1, k2
===============================================================================
