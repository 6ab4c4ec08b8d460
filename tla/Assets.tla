-------------------------------- MODULE Assets --------------------------------
(***************************************************************************)
(* The bootstrap service (pkg/northbound/service.go,                       *)
(* pkg/controller/assets.go): requests to add pods, racks, switches, and   *)
(* servers with an IPU each.                                               *)
(*                                                                         *)
(* A request runs in a goroutine of its own, takes no lock, and writes its *)
(* entities and contains relations to onos-topo one call at a time.  It    *)
(* gives up at the first call that fails, and takes nothing back.  Clients *)
(* repeat what failed.                                                     *)
(*                                                                         *)
(* External: the clients; the lifecycle state, of which only matters       *)
(* whether it is Monitoring; and onos-topo, which refuses to create an     *)
(* entity that exists, and takes a relation whether its parent is there or *)
(* not.  A call that fails, an answer that is lost and a request that dies *)
(* with the process each use up a fault.                                   *)
(***************************************************************************)
EXTENDS Naturals

CONSTANTS
  Clients,    \* who asks; each has one request
  Ids,        \* the IDs of entities
  IpuOf,      \* the ID derived from a server's for its IPU
  Realms,     \* the realms that management information may name
  RealmLabel, \* the label by which the controller finds its devices,
  RealmValue, \* and its value on them
  NoId,       \* the empty string: no parent, no label
  None,       \* no entity
  Request,    \* what each client asks for
  MaxFaults   \* bound on the failures

\* Management information names endpoints and a realm; a role, which becomes a
\* label in the same way, is left out.
Requests ==
  [kind : {"pod", "rack", "switch", "server"}, id : Ids,
   pod : Ids \cup {NoId}, rack : Ids \cup {NoId},
   endpoints : SUBSET {"gnmi", "p4rt", "link", "host", "nat"}, realm : Realms \cup {NoId}]

------------------------------------------------------------------------------
(* The objects a request stands for. *)

\* Mutant of Aspects: only link agents are local agents.
AspectsOfLinks(r) ==
  (IF r.endpoints \cap {"gnmi", "p4rt"} # {} THEN {"StratumAgents"} ELSE {})
    \cup (IF "link" \in r.endpoints THEN {"LocalAgents"} ELSE {})

\* aspects: those that the discovery looks for.
Aspects(r) ==
  (IF r.endpoints \cap {"gnmi", "p4rt"} # {} THEN {"StratumAgents"} ELSE {})
    \cup (IF r.endpoints \cap {"link", "host", "nat"} # {} THEN {"LocalAgents"} ELSE {})

\* labels and allLabels; the parent is the source of the contains relation.
Pod(r) == IF r.kind = "pod" THEN r.id ELSE r.pod
Rack(r) == CASE r.kind = "pod" -> NoId [] r.kind = "rack" -> r.id [] OTHER -> r.rack
Parent(r) == CASE r.kind = "pod" -> NoId [] r.kind = "rack" -> r.pod [] OTHER -> r.rack

Object(r) ==
  [kind |-> r.kind, pod |-> Pod(r), rack |-> Rack(r),
   realm |-> IF r.kind \in {"switch", "server"} THEN r.realm ELSE NoId,
   aspects |-> IF r.kind = "switch" THEN Aspects(r) ELSE {}]

Ipu(r) == [Object(r) EXCEPT !.kind = "ipu", !.aspects = Aspects(r)]

Objects == {Object(Request[c]) : c \in Clients} \cup {Ipu(Request[c]) : c \in Clients}

ASSUME AssetsAssumption ==
  /\ Request \in [Clients -> Requests]
  /\ IpuOf \in [Ids -> Ids]
  /\ \A i, j \in Ids : IpuOf[i] = IpuOf[j] => i = j
  /\ RealmLabel \in {"pod", "rack", "realm"} /\ RealmValue \in (Ids \cup Realms) \ {NoId}
  /\ NoId \notin Ids /\ None \notin Objects
  /\ MaxFaults \in Nat

\* queryFilter, as far as these objects differ: does a sweep find x?
Found(x) ==
  /\ x[RealmLabel] = RealmValue
  /\ {"StratumAgents", "LocalAgents"} \subseteq x.aspects

------------------------------------------------------------------------------
VARIABLES
  ready,     \* is the controller's state Monitoring?
  pc,        \* the call a request is at, or the last answer to its client
  entity,    \* the entities in onos-topo
  contains,  \* the contains relations in onos-topo: pairs of parent and child
  faults

vars == <<ready, pc, entity, contains, faults>>

Calls == {"entity", "contain", "ipu", "containIpu"}
Errors == {"unavailable", "exists", "failed"}

TypeOK ==
  /\ ready \in BOOLEAN
  /\ pc \in [Clients -> Calls \cup Errors \cup {"idle", "ok"}]
  /\ entity \in [Ids -> Objects \cup {None}]
  /\ contains \in SUBSET (Ids \X Ids)
  /\ faults \in 0..MaxFaults
  /\ \A c \in Clients : pc[c] \in {"ipu", "containIpu"} => Request[c].kind = "server"
  /\ \A c \in Clients : pc[c] = "contain" => Request[c].kind # "pod"

\* Nothing has been added yet.
Init ==
  /\ ready \in BOOLEAN
  /\ pc = [c \in Clients |-> "idle"]
  /\ entity = [i \in Ids |-> None]
  /\ contains = {}
  /\ faults = 0

Goto(c, to) == pc' = [pc EXCEPT ![c] = to]

\* Mutant of Accept: the check of the state inverted.
AcceptInverted(c) ==
  /\ pc[c] = "idle"
  /\ Goto(c, IF ready THEN "unavailable" ELSE "entity")
  /\ UNCHANGED <<ready, entity, contains, faults>>

\* AddPod, AddRack, AddSwitch, AddServerIPU: is the controller ready?
Accept(c) ==
  /\ pc[c] = "idle"
  /\ Goto(c, IF ready THEN "entity" ELSE "unavailable")
  /\ UNCHANGED <<ready, entity, contains, faults>>

\* Mutant of CreateEntity: an entity that exists will do.
CreateEntityUnlessExists(c, from, to, id, object) ==
  /\ pc[c] = from
  /\ entity' = IF entity[id] = None THEN [entity EXCEPT ![id] = object] ELSE entity
  /\ Goto(c, to)
  /\ UNCHANGED <<ready, contains, faults>>

\* createEntity, the request's current call.
CreateEntity(c, from, to, id, object) ==
  /\ pc[c] = from
  /\ IF entity[id] = None
     THEN entity' = [entity EXCEPT ![id] = object] /\ Goto(c, to)
     ELSE UNCHANGED entity /\ Goto(c, "exists")
  /\ UNCHANGED <<ready, contains, faults>>

\* Mutant of CreateRelation: the parent may be empty.
CreateRelationAlways(c, from, to, src, tgt) ==
  /\ pc[c] = from
  /\ contains' = contains \cup {<<src, tgt>>}
  /\ Goto(c, to)
  /\ UNCHANGED <<ready, entity, faults>>

\* createRelation: nothing to do without a parent.
CreateRelation(c, from, to, src, tgt) ==
  /\ pc[c] = from
  /\ contains' = IF src = NoId THEN contains ELSE contains \cup {<<src, tgt>>}
  /\ Goto(c, to)
  /\ UNCHANGED <<ready, entity, faults>>

\* Mutants of AddAsset: the IPU stays outside its server, and comes first.
AddAssetLoose(c) ==
  LET r == Request[c] IN
  \/ CreateEntity(c, "entity", IF r.kind = "pod" THEN "ok" ELSE "contain", r.id, Object(r))
  \/ CreateRelation(c, "contain", IF r.kind = "server" THEN "ipu" ELSE "ok", Parent(r), r.id)
  \/ CreateEntity(c, "ipu", "ok", IpuOf[r.id], Ipu(r))

AddAssetIpuFirst(c) ==
  LET r == Request[c] IN
  \/ CreateEntity(c, "entity", CASE r.kind = "pod" -> "ok" [] r.kind = "server" -> "ipu"
                                 [] OTHER -> "contain", r.id, Object(r))
  \/ CreateEntity(c, "ipu", "containIpu", IpuOf[r.id], Ipu(r))
  \/ CreateRelation(c, "containIpu", "contain", r.id, IpuOf[r.id])
  \/ CreateRelation(c, "contain", "ok", Parent(r), r.id)

\* The calls in their order; the last one is answered with success.
AddAsset(c) ==
  LET r == Request[c] IN
  \/ CreateEntity(c, "entity", IF r.kind = "pod" THEN "ok" ELSE "contain", r.id, Object(r))
  \/ CreateRelation(c, "contain", IF r.kind = "server" THEN "ipu" ELSE "ok", Parent(r), r.id)
  \/ CreateEntity(c, "ipu", "containIpu", IpuOf[r.id], Ipu(r))
  \/ CreateRelation(c, "containIpu", "ok", r.id, IpuOf[r.id])

\* The current call fails, or the answer to the one before it was lost; or the
\* answer to the client is.
Fails(c) ==
  /\ pc[c] \in Calls \cup {"ok"}
  /\ faults < MaxFaults /\ faults' = faults + 1
  /\ Goto(c, "failed")
  /\ UNCHANGED <<ready, entity, contains>>

\* The client tries again, whatever the error was.
Retry(c) ==
  /\ pc[c] \in Errors
  /\ Goto(c, "idle")
  /\ UNCHANGED <<ready, entity, contains, faults>>

StateChanges ==
  /\ ready' = ~ready
  /\ UNCHANGED <<pc, entity, contains, faults>>

Next ==
  \/ \E c \in Clients : Accept(c) \/ AddAsset(c) \/ Fails(c) \/ Retry(c)
  \/ StateChanges

\* Requests are served, and clients do not give up.
Fairness == \A c \in Clients : WF_vars(Accept(c) \/ AddAsset(c)) /\ WF_vars(Retry(c))

SafeSpec == Init /\ [][Next]_vars
Spec == SafeSpec /\ Fairness

------------------------------------------------------------------------------
(* Properties. *)

Placed(r) == Parent(r) # NoId => <<Parent(r), r.id>> \in contains
WithIpu(r) == entity[IpuOf[r.id]] = Ipu(r) /\ <<r.id, IpuOf[r.id]>> \in contains

\* Is all of request r in onos-topo, as r says and nobody else?
Complete(r) ==
  /\ entity[r.id] = Object(r)
  /\ Placed(r)
  /\ r.kind = "server" => WithIpu(r)

\* A client is told that its asset was added only if all of it is there as it
\* asked, whoever else asks for the same IDs, and whatever failed before.
SuccessIsComplete == \A c \in Clients : pc[c] = "ok" => Complete(Request[c])

\* Two requests for one asset in different places do not mix: whatever
\* contains an asset is what the asset's own labels say, and a server and the
\* IPU it contains have the same labels.
PlacedAsLabelled ==
  \A p \in contains :
    LET x == entity[p[2]] IN
    /\ x # None
    /\ x.kind # "ipu" => p[1] = IF x.kind = "rack" THEN x.pod ELSE x.rack
    /\ x.kind = "ipu" => /\ entity[p[1]] # None /\ entity[p[1]].kind = "server"
                         /\ entity[p[1]].rack = x.rack /\ entity[p[1]].pod = x.pod

\* An IPU, which a sweep may discover at once, is only ever there after its
\* server, in the server's rack.
IpuHasServer ==
  \A i \in Ids :
    LET s == entity[i]
        x == entity[IpuOf[i]]
    IN x # None /\ x.kind = "ipu" =>
         /\ s # None /\ s.kind = "server"
         /\ s.rack # NoId => <<s.rack, i>> \in contains

\* A switch or an IPU that was added for the controller's realm, whichever label
\* makes the realm, with an endpoint of its switch and one of a local agent, is
\* found by the sweeps, although another request may have asked for the same ID
\* in another realm or with other endpoints.
AddedIsFound ==
  \A c \in Clients :
    LET r == Request[c]
        x == entity[IF r.kind = "switch" THEN r.id ELSE IpuOf[r.id]]
    IN /\ pc[c] = "ok" /\ r.kind \in {"switch", "server"} /\ r[RealmLabel] = RealmValue
       /\ r.endpoints \cap {"gnmi", "p4rt"} # {} /\ r.endpoints \cap {"link", "host"} # {}
       => Found(x)

\* Is the asset that client c asked for complete, as c or another asked for it?
Added(c) == \E d \in Clients : Request[d].id = Request[c].id /\ Complete(Request[d])

\* No ID is asked for that is derived from another one for an IPU.
IdsAreApart ==
  \A c, d \in Clients : Request[d].kind = "server" => Request[c].id # IpuOf[Request[d].id]

\* Without failures an asset that is not complete is in the hands of the request
\* that has created its entity and will complete it, whoever else asks for the
\* same ID: the others fail at the entity that exists, and take nothing on.
HalfAddedIsHeld ==
  IdsAreApart /\ faults = 0 =>
    \A c \in Clients : entity[Request[c].id] # None /\ ~Added(c) =>
      \E d \in Clients :
        /\ Request[d].id = Request[c].id /\ entity[Request[c].id] = Object(Request[d])
        /\ pc[d] \in Calls \ {"entity"}

\* What is asked for again and again is there in the end, if nothing fails and
\* the controller stays ready: clients that collide do not leave an asset
\* half added.
AskedIsAdded ==
  <>[]ready /\ [](faults = 0) => <>(\A c \in Clients : Added(c))

==============================================================================
