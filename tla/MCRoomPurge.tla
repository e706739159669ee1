---------------------------- MODULE MCRoomPurge ----------------------------
(* RoomPurge on a small instance for TLC.                                   *)
EXTENDS RoomPurge

CONSTANTS o1
=============================================================================
