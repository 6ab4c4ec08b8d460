------------------------------- MODULE TopoLinks -------------------------------
(***************************************************************************)
(* What the reconcilers promise to whoever reads the links in onos-topo    *)
(* (pkg/controller/links_reconciler.go): an abstract specification that    *)
(* knows nothing of workers, monitors, reports and agents.                 *)
(*                                                                         *)
(* A link is there before its relations, and has its originates relation   *)
(* before its terminates relation: whoever finds a link by the port it     *)
(* terminates at finds all of it.  A link is created UP and is never       *)
(* deleted, and whatever it changes to bears a later time than what was    *)
(* there, unless it goes from UP to DOWN: a sweep marks it so with the     *)
(* time of the controller's clock, which may be behind the agent's.  So    *)
(* only what is later brings a link up again.  One call changes one link.  *)
(***************************************************************************)
EXTENDS Naturals

CONSTANTS
  Link,         \* the IDs of link entities
  Times,        \* the times of changes
  None          \* no entity

VARIABLES entity, originates, terminates

vars == <<entity, originates, terminates>>

Aspect == [status : {"UP", "DOWN"}, last : Times]

Init ==
  /\ entity = [l \in Link |-> None]
  /\ originates = {}
  /\ terminates = {}

Create(l) ==
  /\ entity[l] = None
  /\ \E t \in Times : entity' = [entity EXCEPT ![l] = [status |-> "UP", last |-> t]]
  /\ UNCHANGED <<originates, terminates>>

Originate(l) ==
  /\ entity[l] # None
  /\ originates' = originates \cup {l}
  /\ UNCHANGED <<entity, terminates>>

Terminate(l) ==
  /\ l \in originates
  /\ terminates' = terminates \cup {l}
  /\ UNCHANGED <<entity, originates>>

\* May aspect y take the place of x?
Succeeds(y, x) ==
  \/ y.last > x.last
  \/ x.status = "UP" /\ y.status = "DOWN"

Change(l) ==
  /\ entity[l] # None
  /\ \E y \in Aspect : Succeeds(y, entity[l]) /\ entity' = [entity EXCEPT ![l] = y]
  /\ UNCHANGED <<originates, terminates>>

Next == \E l \in Link : Create(l) \/ Originate(l) \/ Terminate(l) \/ Change(l)

Spec == Init /\ [][Next]_vars

==============================================================================
