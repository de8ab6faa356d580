---------------------------- MODULE MCKqueueWand ----------------------------
(* Small instances of KqueueWand for TLC.                                  *)
EXTENDS KqueueWand
=============================================================================
