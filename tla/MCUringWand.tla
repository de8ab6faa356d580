---------------------------- MODULE MCUringWand -----------------------------
(* Small instances of UringWand for TLC.                                   *)
EXTENDS UringWand
=============================================================================
