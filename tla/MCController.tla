---------------------------- MODULE MCController ----------------------------
(* Instances of Controller for TLC: an entity in each realm, which both may  *)
(* change while the controller connects, sweeps, monitors and is stopped.    *)
EXTENDS Controller
==============================================================================
