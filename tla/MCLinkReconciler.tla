--------------------------- MODULE MCLinkReconciler ---------------------------
(* Instances of LinkReconciler for TLC: device a with an ingress port, linked *)
(* to one or two egress ports of device b, which is of either realm.          *)
EXTENDS LinkReconciler

CONSTANTS a, b, a1, a2, b1, b2,
          Ahead   \* how much the clock of every agent is ahead

MCDeviceOf == [p \in OutPorts \cup InPorts |-> IF p \in InPorts THEN a ELSE b]

MCAgentSkew == [d \in RealmDevices |-> Ahead]
==============================================================================
