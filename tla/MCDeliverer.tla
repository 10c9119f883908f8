---------------------------- MODULE MCDeliverer ----------------------------
(* Small instances of Deliverer for TLC.                                   *)
EXTENDS Deliverer
=============================================================================
