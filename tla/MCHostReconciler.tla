--------------------------- MODULE MCHostReconciler ---------------------------
(* An instance of HostReconciler for TLC: device a with one host, and device b *)
(* without any, which competes for the lock of the contexts.                   *)
EXTENDS HostReconciler

CONSTANTS a, b, m1, m2

MCAgentOf == [h \in Hosts |-> a]
MCMonitorsOf == [d \in Devices |-> IF d = a THEN {m1, m2} ELSE {m1}]
==============================================================================
