--------------------------- MODULE MCBlockingPool ---------------------------
(* Small instances of BlockingPool for TLC.                                *)
EXTENDS BlockingPool

=============================================================================
