---------------------------- MODULE MCSplitWorld ----------------------------
(***************************************************************************)
(* Instances of SplitWorld for TLC.                                        *)
(***************************************************************************)
EXTENDS SplitWorld
=============================================================================
