-------------------------- MODULE DiscoverySessions --------------------------
(***************************************************************************)
(* What the bank of discovery workers promises, whatever their number and  *)
(* whatever the queues hold: the discovery of one topology object is a     *)
(* sequence of sessions that never overlap.  A session of the realm goes   *)
(* through ports, links and hosts in this order; a session of a neighbor   *)
(* realm only registers the object's link agent.                           *)
(*                                                                         *)
(* The reconcilers rely on it: they read a device, then the topology, then *)
(* write the topology, with no lock held for the device in between.        *)
(***************************************************************************)

CONSTANT Objects        \* IDs of the topology entities

VARIABLE session        \* the phase of each object's current session

Phases == {"ports", "links", "hosts", "register", "release"}

SessionsTypeOK == session \in [Objects -> Phases \cup {"none"}]

\* The phases one session step may connect.
Successor ==
  { <<"none", "ports">>, <<"ports", "links">>, <<"links", "hosts">>,
    <<"hosts", "release">>, <<"none", "register">>,
    <<"register", "release">>, <<"release", "none">> }

Init == session = [o \in Objects |-> "none"]

Step(o) ==
  \E p \in Phases \cup {"none"} :
    /\ <<session[o], p>> \in Successor
    /\ session' = [session EXCEPT ![o] = p]

Next == \E o \in Objects : Step(o)

Spec == Init /\ [][Next]_session

==============================================================================
