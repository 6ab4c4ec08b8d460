------------------------------- MODULE MCAssets -------------------------------
(* An instance of Assets for TLC: a pod, a rack in it, a switch in the rack,   *)
(* and the same server in the rack and in none, there with other endpoints.    *)
(* The controller's realm is the pod.                                          *)
EXTENDS Assets

CONSTANTS c1, c2, c3, c4, c5, r1, pod1, rack1, switch1, server1, ipu1

Ask(kind, id, pod, rack, endpoints, realm) ==
  [kind |-> kind, id |-> id, pod |-> pod, rack |-> rack,
   endpoints |-> endpoints, realm |-> realm]

MCClients == {c1, c2, c3, c4, c5}
MCIds == {pod1, rack1, switch1, server1, ipu1}
MCIpuOf ==
  [i \in MCIds |-> CASE i = server1 -> ipu1 [] i = ipu1 -> server1 [] OTHER -> i]
MCRequest ==
  [c \in MCClients |->
     CASE c = c1 -> Ask("rack", rack1, pod1, NoId, {}, NoId)
       [] c = c2 -> Ask("pod", pod1, NoId, NoId, {}, NoId)
       [] c = c3 -> Ask("server", server1, pod1, rack1, {"gnmi", "p4rt", "host"}, NoId)
       [] c = c4 -> Ask("server", server1, NoId, NoId, {"p4rt", "nat"}, r1)
       [] c = c5 -> Ask("switch", switch1, pod1, rack1, {"p4rt", "link"}, r1)]
==============================================================================
