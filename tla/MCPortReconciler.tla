--------------------------- MODULE MCPortReconciler ---------------------------
(* An instance of PortReconciler for TLC: a device with one port, which comes  *)
(* and goes and changes its status, and up to three monitors at work.          *)
EXTENDS PortReconciler
==============================================================================
