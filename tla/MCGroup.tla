------------------------------ MODULE MCGroup -------------------------------
(* Small instances of Group for TLC.                                       *)
EXTENDS Group
=============================================================================
