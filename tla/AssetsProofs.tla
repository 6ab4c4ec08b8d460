----------------------------- MODULE AssetsProofs -----------------------------
(***************************************************************************)
(* Proofs about Assets, for any clients, any requests, any injective       *)
(* naming of IPUs and any number of failures.                              *)
(*                                                                         *)
(* What a client is told says nothing of the calls before the last one, so *)
(* SuccessIsComplete is not inductive: Progress says what is there at each *)
(* call.  It survives the other clients because nobody changes an entity   *)
(* that exists, which is also why the labels and the relations of an asset *)
(* come from one and the same request.                                     *)
(*                                                                         *)
(* Owned adds, for as long as nothing has failed, that what is half there  *)
(* belongs to the request that created it and is still at work.            *)
(***************************************************************************)
EXTENDS Assets, TLAPS

\* What is in onos-topo when client c is at a call, or has its answer.
Progress ==
  \A c \in Clients :
    LET r == Request[c] IN
    /\ pc[c] \in {"contain", "ipu", "containIpu", "ok"} => entity[r.id] = Object(r)
    /\ pc[c] \in {"ipu", "containIpu", "ok"} => Placed(r)
    /\ pc[c] = "containIpu" => entity[IpuOf[r.id]] = Ipu(r)
    /\ pc[c] = "ok" /\ r.kind = "server" => WithIpu(r)

IInv == TypeOK /\ Progress /\ PlacedAsLabelled /\ IpuHasServer

------------------------------------------------------------------------------
(* The objects of a request. *)

\* The labels of a request's object name its parent.
LEMMA ObjectLabels ==
  ASSUME NEW r \in Requests
  PROVE  /\ Object(r).kind = r.kind /\ Object(r).kind # "ipu"
         /\ Parent(r) # NoId =>
              Parent(r) = IF Object(r).kind = "rack" THEN Object(r).pod ELSE Object(r).rack
         /\ r.kind = "server" => Object(r).rack = Parent(r)
         /\ Parent(r) # NoId => Parent(r) \in Ids
  BY DEF Requests, Object, Parent, Pod, Rack

\* An IPU has the labels of its server.
LEMMA IpuLabels ==
  ASSUME NEW r \in Requests
  PROVE  /\ Ipu(r).kind = "ipu"
         /\ Ipu(r).rack = Object(r).rack /\ Ipu(r).pod = Object(r).pod
  BY DEF Ipu, Object

\* No client's object is taken for an entity that is not there.
LEMMA RequestTypes ==
  ASSUME NEW c \in Clients
  PROVE  /\ Request[c] \in Requests
         /\ Request[c].id \in Ids /\ IpuOf[Request[c].id] \in Ids
         /\ Object(Request[c]) \in Objects /\ Object(Request[c]) # None
         /\ Ipu(Request[c]) \in Objects /\ Ipu(Request[c]) # None
<1>1. Request[c] \in Requests
  BY AssetsAssumption
<1>2. Request[c].id \in Ids /\ IpuOf[Request[c].id] \in Ids
  BY <1>1, AssetsAssumption DEF Requests
<1>3. Object(Request[c]) \in Objects /\ Ipu(Request[c]) \in Objects
  BY DEF Objects
<1> QED  BY <1>1, <1>2, <1>3, AssetsAssumption

------------------------------------------------------------------------------
(* Type correctness. *)

LEMMA TypeInit == Init => TypeOK
  BY AssetsAssumption DEF Init, TypeOK, Calls, Errors

LEMMA TypeStep == TypeOK /\ [Next]_vars => TypeOK'
<1> SUFFICES ASSUME TypeOK, [Next]_vars
             PROVE  TypeOK'
  OBVIOUS
<1>1. ASSUME NEW c \in Clients, Accept(c)
      PROVE  TypeOK'
  BY <1>1 DEF Accept, Goto, TypeOK, Calls, Errors
<1>2. ASSUME NEW c \in Clients, AddAsset(c)
      PROVE  TypeOK'
  <2> DEFINE r == Request[c]
  <2>1. CASE CreateEntity(c, "entity", IF r.kind = "pod" THEN "ok" ELSE "contain",
                          r.id, Object(r))
    BY <2>1, RequestTypes DEF CreateEntity, Goto, TypeOK, Calls, Errors
  <2>2. CASE CreateRelation(c, "contain", IF r.kind = "server" THEN "ipu" ELSE "ok",
                            Parent(r), r.id)
    <3>1. contains' \in SUBSET (Ids \X Ids)
      BY <2>2, RequestTypes, ObjectLabels DEF CreateRelation, TypeOK
    <3> QED  BY <2>2, <3>1 DEF CreateRelation, Goto, TypeOK, Calls, Errors
  <2>3. CASE CreateEntity(c, "ipu", "containIpu", IpuOf[r.id], Ipu(r))
    BY <2>3, RequestTypes DEF CreateEntity, Goto, TypeOK, Calls, Errors
  <2>4. CASE CreateRelation(c, "containIpu", "ok", r.id, IpuOf[r.id])
    <3>1. contains' \in SUBSET (Ids \X Ids)
      BY <2>4, RequestTypes DEF CreateRelation, TypeOK
    <3> QED  BY <2>4, <3>1 DEF CreateRelation, Goto, TypeOK, Calls, Errors
  <2> QED  BY <1>2, <2>1, <2>2, <2>3, <2>4 DEF AddAsset
<1>3. ASSUME NEW c \in Clients, Fails(c)
      PROVE  TypeOK'
  BY <1>3, AssetsAssumption DEF Fails, Goto, TypeOK, Calls, Errors
<1>4. ASSUME NEW c \in Clients, Retry(c)
      PROVE  TypeOK'
  BY <1>4 DEF Retry, Goto, TypeOK, Calls, Errors
<1>5. CASE StateChanges
  BY <1>5 DEF StateChanges, TypeOK
<1>6. CASE UNCHANGED vars
  BY <1>6 DEF vars, TypeOK
<1> QED  BY <1>1, <1>2, <1>3, <1>4, <1>5, <1>6 DEF Next

\* The service writes what its types say, whatever is asked of it.
THEOREM TypeCorrect == SafeSpec => []TypeOK
  BY TypeInit, TypeStep, PTL DEF SafeSpec

------------------------------------------------------------------------------
(* Nobody changes or removes what is there. *)

Kept == /\ \A i \in Ids : entity[i] # None => entity'[i] = entity[i]
        /\ contains \subseteq contains'

LEMMA NothingIsTakenBack == TypeOK /\ [Next]_vars => Kept
  BY RequestTypes DEF TypeOK, Next, vars, Accept, AddAsset, CreateEntity, CreateRelation,
     Fails, Retry, StateChanges, Kept

\* Whoever is not at a step keeps what it has.
LEMMA ProgressKept ==
  ASSUME NEW c \in Clients, TypeOK, Progress, Kept, pc'[c] = pc[c]
  PROVE  LET r == Request[c] IN
         /\ pc'[c] \in {"contain", "ipu", "containIpu", "ok"} => entity'[r.id] = Object(r)
         /\ pc'[c] \in {"ipu", "containIpu", "ok"} => Placed(r)'
         /\ pc'[c] = "containIpu" => entity'[IpuOf[r.id]] = Ipu(r)
         /\ pc'[c] = "ok" /\ r.kind = "server" => WithIpu(r)'
  BY RequestTypes DEF Progress, Kept, Placed, WithIpu

LEMMA ProgressStep == TypeOK /\ Progress /\ [Next]_vars => Progress'
<1> SUFFICES ASSUME TypeOK, Progress, [Next]_vars
             PROVE  Progress'
  OBVIOUS
<1>1. Kept
  BY NothingIsTakenBack
<1>2. ASSUME NEW c \in Clients, NEW to, TypeOK, pc' = [pc EXCEPT ![c] = to],
             to \notin {"contain", "ipu", "containIpu", "ok"}
      PROVE  Progress'
  BY <1>1, <1>2, ProgressKept DEF TypeOK, Progress
<1>3. ASSUME NEW c \in Clients, Accept(c) \/ Fails(c) \/ Retry(c)
      PROVE  Progress'
  BY <1>2, <1>3 DEF Accept, Fails, Retry, Goto
<1>4. ASSUME NEW c \in Clients, AddAsset(c)
      PROVE  Progress'
  <2> DEFINE r == Request[c]
  <2>1. \A d \in Clients : d # c => pc'[d] = pc[d]
    BY <1>4 DEF AddAsset, CreateEntity, CreateRelation, Goto, TypeOK
  <2>2. SUFFICES
          /\ pc'[c] \in {"contain", "ipu", "containIpu", "ok"} => entity'[r.id] = Object(r)
          /\ pc'[c] \in {"ipu", "containIpu", "ok"} => Placed(r)'
          /\ pc'[c] = "containIpu" => entity'[IpuOf[r.id]] = Ipu(r)
          /\ pc'[c] = "ok" /\ r.kind = "server" => WithIpu(r)'
    BY <1>1, <2>1, ProgressKept DEF Progress
  <2>3. CASE CreateEntity(c, "entity", IF r.kind = "pod" THEN "ok" ELSE "contain",
                          r.id, Object(r))
    BY <2>3, RequestTypes DEF CreateEntity, Goto, TypeOK, Placed, Parent
  <2>4. CASE CreateRelation(c, "contain", IF r.kind = "server" THEN "ipu" ELSE "ok",
                            Parent(r), r.id)
    BY <2>4 DEF CreateRelation, Goto, TypeOK, Progress, Placed
  <2>5. CASE CreateEntity(c, "ipu", "containIpu", IpuOf[r.id], Ipu(r))
    BY <1>1, <2>5, RequestTypes DEF CreateEntity, Goto, TypeOK, Progress, Placed, Kept
  <2>6. CASE CreateRelation(c, "containIpu", "ok", r.id, IpuOf[r.id])
    BY <2>6, RequestTypes, AssetsAssumption
       DEF CreateRelation, Goto, TypeOK, Progress, Placed, WithIpu
  <2> QED  BY <1>4, <2>3, <2>4, <2>5, <2>6 DEF AddAsset
<1>5. CASE StateChanges \/ UNCHANGED vars
  BY <1>1, <1>5, ProgressKept DEF StateChanges, vars, Progress
<1> QED  BY <1>3, <1>4, <1>5 DEF Next

------------------------------------------------------------------------------
(* The relations. *)

LEMMA PlacedStep ==
  TypeOK /\ Progress /\ PlacedAsLabelled /\ [Next]_vars => PlacedAsLabelled'
<1> SUFFICES ASSUME TypeOK, Progress, PlacedAsLabelled, [Next]_vars,
                    NEW p \in contains'
             PROVE  LET x == entity'[p[2]] IN
                    /\ x # None
                    /\ x.kind # "ipu" => p[1] = IF x.kind = "rack" THEN x.pod ELSE x.rack
                    /\ x.kind = "ipu" =>
                         /\ entity'[p[1]] # None /\ entity'[p[1]].kind = "server"
                         /\ entity'[p[1]].rack = x.rack /\ entity'[p[1]].pod = x.pod
  BY DEF PlacedAsLabelled
<1>1. Kept
  BY NothingIsTakenBack
<1>2. CASE p \in contains
  BY <1>1, <1>2 DEF Kept, PlacedAsLabelled, TypeOK
<1>3. CASE p \notin contains
  <2>1. PICK c \in Clients : AddAsset(c)
    BY <1>3 DEF Next, Accept, Fails, Retry, StateChanges, vars
  <2> DEFINE r == Request[c]
  <2>2. CASE CreateRelation(c, "contain", IF r.kind = "server" THEN "ipu" ELSE "ok",
                            Parent(r), r.id)
    <3>1. Parent(r) # NoId /\ p = <<Parent(r), r.id>> /\ entity' = entity
      BY <1>3, <2>2 DEF CreateRelation
    <3>2. entity[r.id] = Object(r)
      BY <2>2 DEF CreateRelation, Progress
    <3> QED  BY <3>1, <3>2, RequestTypes, ObjectLabels
  <2>3. CASE CreateRelation(c, "containIpu", "ok", r.id, IpuOf[r.id])
    <3>1. p = <<r.id, IpuOf[r.id]>> /\ entity' = entity
      BY <1>3, <2>3 DEF CreateRelation
    <3>2. entity[r.id] = Object(r) /\ entity[IpuOf[r.id]] = Ipu(r) /\ r.kind = "server"
      BY <2>3 DEF CreateRelation, Progress, TypeOK
    <3> QED  BY <3>1, <3>2, RequestTypes, ObjectLabels, IpuLabels
  <2> QED  BY <1>3, <2>1, <2>2, <2>3 DEF AddAsset, CreateEntity
<1> QED  BY <1>2, <1>3

LEMMA IpuStep ==
  TypeOK /\ Progress /\ IpuHasServer /\ [Next]_vars => IpuHasServer'
<1> SUFFICES ASSUME TypeOK, Progress, IpuHasServer, [Next]_vars, NEW i \in Ids,
                    entity'[IpuOf[i]] # None, entity'[IpuOf[i]].kind = "ipu"
             PROVE  /\ entity'[i] # None /\ entity'[i].kind = "server"
                    /\ entity'[i].rack # NoId => <<entity'[i].rack, i>> \in contains'
  BY DEF IpuHasServer
<1>1. Kept /\ IpuOf[i] \in Ids
  BY NothingIsTakenBack, AssetsAssumption
<1>2. CASE entity[IpuOf[i]] # None
  BY <1>1, <1>2 DEF Kept, IpuHasServer
<1>3. CASE entity[IpuOf[i]] = None
  <2>1. PICK c \in Clients : AddAsset(c)
    BY <1>1, <1>3 DEF Next, Accept, Fails, Retry, StateChanges, vars
  <2> DEFINE r == Request[c]
  <2>2. CASE CreateEntity(c, "entity", IF r.kind = "pod" THEN "ok" ELSE "contain",
                          r.id, Object(r))
    <3>1. entity'[IpuOf[i]] = Object(r)
      BY <1>1, <1>3, <2>2, RequestTypes DEF CreateEntity, TypeOK
    <3> QED  BY <3>1, RequestTypes, ObjectLabels
  <2>3. CASE CreateEntity(c, "ipu", "containIpu", IpuOf[r.id], Ipu(r))
    <3>1. IpuOf[i] = IpuOf[r.id]
      BY <1>1, <1>3, <2>3, RequestTypes DEF CreateEntity, TypeOK
    <3>2. i = r.id
      BY <3>1, RequestTypes, AssetsAssumption
    <3>3. entity[i] = Object(r) /\ Placed(r) /\ r.kind = "server"
      BY <2>3, <3>2 DEF CreateEntity, Progress, TypeOK
    <3> QED  BY <1>1, <3>2, <3>3, RequestTypes, ObjectLabels DEF Kept, Placed
  <2> QED  BY <1>1, <1>3, <2>1, <2>2, <2>3 DEF AddAsset, CreateRelation
<1> QED  BY <1>2, <1>3

------------------------------------------------------------------------------
(* The invariant, and what follows from it. *)

LEMMA InvInit == Init => IInv
<1> SUFFICES ASSUME Init
             PROVE  IInv
  OBVIOUS
<1>1. Progress /\ PlacedAsLabelled
  BY DEF Init, Progress, PlacedAsLabelled
<1>2. IpuHasServer
  BY AssetsAssumption DEF Init, IpuHasServer
<1> QED  BY <1>1, <1>2, TypeInit DEF IInv

LEMMA InvStep == IInv /\ [Next]_vars => IInv'
  BY TypeStep, ProgressStep, PlacedStep, IpuStep DEF IInv

LEMMA Invariant == SafeSpec => []IInv
  BY InvInit, InvStep, PTL DEF SafeSpec

\* A client that is told of success has all that it asked for.
THEOREM SuccessMeansComplete == SafeSpec => []SuccessIsComplete
<1>1. IInv => SuccessIsComplete
  BY DEF IInv, Progress, SuccessIsComplete, Complete
<1> QED  BY <1>1, Invariant, PTL

\* Relations and labels of an asset never come from different requests.
THEOREM PlacementFollowsLabels == SafeSpec => []PlacedAsLabelled
  BY Invariant, PTL DEF IInv

\* Nobody ever sees an IPU without its server in the server's rack.
THEOREM NoLooseIpu == SafeSpec => []IpuHasServer
  BY Invariant, PTL DEF IInv

\* What was added for the realm matches the filter of the sweeps, whichever label
\* makes the realm, whatever the other requests ask for, and whatever fails.
THEOREM AddedMatchesFilter == SafeSpec => []AddedIsFound
<1>1. IInv => AddedIsFound
  <2> SUFFICES ASSUME IInv, NEW c \in Clients, pc[c] = "ok",
                      Request[c].kind \in {"switch", "server"},
                      Request[c][RealmLabel] = RealmValue,
                      Request[c].endpoints \cap {"gnmi", "p4rt"} # {},
                      Request[c].endpoints \cap {"link", "host"} # {}
               PROVE  Found(entity[IF Request[c].kind = "switch" THEN Request[c].id
                                   ELSE IpuOf[Request[c].id]])
    BY DEF AddedIsFound
  <2> DEFINE r == Request[c]
  <2>1. Aspects(r) = {"StratumAgents", "LocalAgents"}
    BY DEF Aspects
  <2>2. r \in Requests /\ RealmLabel \in {"pod", "rack", "realm"}
    BY AssetsAssumption
  <2> HIDE DEF r
  <2>3. Object(r)[RealmLabel] = r[RealmLabel] /\ Ipu(r)[RealmLabel] = Object(r)[RealmLabel]
    <3>1. Object(r).pod = r.pod /\ Object(r).rack = r.rack /\ Object(r).realm = r.realm
      BY DEF Object, Pod, Rack, r
    <3>2. /\ Ipu(r).pod = Object(r).pod /\ Ipu(r).rack = Object(r).rack
          /\ Ipu(r).realm = Object(r).realm
      BY DEF Ipu, Object
    <3> QED  BY <2>2, <3>1, <3>2
  <2>4. CASE r.kind = "switch"
    <3>1. entity[r.id] = Object(r)
      BY DEF IInv, Progress, r
    <3>2. Object(r).aspects = Aspects(r)
      BY <2>4 DEF Object
    <3> QED  BY <2>1, <2>3, <2>4, <3>1, <3>2 DEF Found, r
  <2>5. CASE r.kind = "server"
    <3>1. entity[IpuOf[r.id]] = Ipu(r)
      BY <2>5 DEF IInv, Progress, WithIpu, r
    <3>2. Ipu(r).aspects = Aspects(r)
      BY DEF Ipu, Object
    <3> QED  BY <2>1, <2>3, <2>5, <3>1, <3>2 DEF Found, r
  <2> QED  BY <2>4, <2>5 DEF r
<1> QED  BY <1>1, Invariant, PTL

------------------------------------------------------------------------------
(* Half-added assets. *)

AtWork == {"contain", "ipu", "containIpu"}
Adds(c) == pc[c] \in AtWork \cup {"ok"}

\* Without failures a client that has created an entity is at work on it until
\* it is told of success, it is the only one for this ID, and nothing stands in
\* the way of its IPU.
Owned ==
  IdsAreApart /\ faults = 0 =>
    \A c \in Clients :
      LET r == Request[c] IN
      /\ r.kind = "server" /\ entity[IpuOf[r.id]] # None => entity[IpuOf[r.id]].kind = "ipu"
      /\ r.kind = "server" /\ pc[c] \in {"contain", "ipu"} => entity[IpuOf[r.id]] = None
      /\ entity[r.id] # None => \E d \in Clients : Request[d].id = r.id /\ Adds(d)
      /\ \A d \in Clients : Request[d].id = r.id /\ Adds(c) /\ Adds(d) => d = c

LEMMA OwnedInit == Init => Owned
  BY RequestTypes DEF Init, Owned, Adds, AtWork

\* Where everybody stays among those that add, or not, nothing changes.
LEMMA OwnedStays ==
  ASSUME TypeOK, Owned, faults' = 0 => faults = 0, entity' = entity,
         \A c \in Clients : Adds(c)' <=> Adds(c),
         \A c \in Clients : Request[c].kind = "server" /\ pc'[c] \in {"contain", "ipu"} =>
           pc[c] \in {"contain", "ipu"}
  PROVE  Owned'
  BY DEF Owned

LEMMA OwnedStep ==
  TypeOK /\ Progress /\ IpuHasServer /\ Owned /\ [Next]_vars => Owned'
<1> SUFFICES ASSUME TypeOK, Progress, IpuHasServer, Owned, [Next]_vars,
                    IdsAreApart, faults' = 0
             PROVE  Owned'
  BY DEF Owned
<1>1. faults = 0
  BY AssetsAssumption DEF TypeOK, Next, vars, Accept, AddAsset, CreateEntity, CreateRelation,
     Fails, Retry, StateChanges
<1>2. ASSUME NEW c \in Clients, Accept(c) \/ Retry(c)
      PROVE  Owned'
  <2>1. PICK to \in Errors \cup {"idle", "entity"} : pc' = [pc EXCEPT ![c] = to]
    BY <1>2 DEF Accept, Retry, Goto, Errors
  <2>2. \A d \in Clients : pc'[d] = IF d = c THEN to ELSE pc[d]
    BY <2>1 DEF TypeOK
  <2>3. pc[c] \in Errors \cup {"idle"} /\ entity' = entity
    BY <1>2 DEF Accept, Retry
  <2>4. \A d \in Clients : Adds(d)' <=> Adds(d)
    BY <2>2, <2>3 DEF Adds, AtWork, Errors
  <2>5. \A d \in Clients : pc'[d] \in {"contain", "ipu"} => pc[d] \in {"contain", "ipu"}
    BY <2>2 DEF Errors
  <2> QED  BY <1>1, <2>3, <2>4, <2>5, OwnedStays
<1>3. ASSUME NEW c \in Clients, Fails(c)
      PROVE  Owned'
  BY <1>1, <1>3 DEF Fails
<1>4. CASE StateChanges \/ UNCHANGED vars
  BY <1>1, <1>4, OwnedStays DEF StateChanges, vars, Adds
<1>5. ASSUME NEW c \in Clients, AddAsset(c)
      PROVE  Owned'
  <2> DEFINE r == Request[c]
  <2>0. r \in Requests /\ r.id \in Ids /\ IpuOf[r.id] \in Ids
    BY RequestTypes
  <2>1. CASE CreateEntity(c, "entity", IF r.kind = "pod" THEN "ok" ELSE "contain",
                          r.id, Object(r)) /\ entity[r.id] = None
    <3> DEFINE to == IF r.kind = "pod" THEN "ok" ELSE "contain"
    <3>1. /\ entity' = [entity EXCEPT ![r.id] = Object(r)] /\ pc' = [pc EXCEPT ![c] = to]
          /\ pc[c] = "entity"
      BY <2>1 DEF CreateEntity, Goto
    <3>2. /\ \A d \in Clients : pc'[d] = IF d = c THEN to ELSE pc[d]
          /\ \A i \in Ids : entity'[i] = IF i = r.id THEN Object(r) ELSE entity[i]
      BY <3>1 DEF TypeOK
    <3>3. to \in {"ok", "contain"} /\ (r.kind = "server" => to = "contain")
      OBVIOUS
    <3> HIDE DEF to
    <3>4. \A d \in Clients : Adds(d)' <=> d = c \/ Adds(d)
      BY <3>2, <3>3 DEF Adds, AtWork
    <3>5. \A d \in Clients : Request[d].id = r.id => ~Adds(d)
      BY <2>1, RequestTypes DEF Progress, Adds, AtWork
    <3>6. r.kind = "server" => entity[IpuOf[r.id]] = None
      BY <1>1, <2>0, <2>1 DEF IpuHasServer, Owned
    <3>7. \A d \in Clients : Request[d].kind = "server" => r.id # IpuOf[Request[d].id]
      BY DEF IdsAreApart
    <3> SUFFICES ASSUME NEW d \in Clients
                 PROVE  LET q == Request[d] IN
                   /\ q.kind = "server" /\ entity'[IpuOf[q.id]] # None =>
                        entity'[IpuOf[q.id]].kind = "ipu"
                   /\ q.kind = "server" /\ pc'[d] \in {"contain", "ipu"} =>
                        entity'[IpuOf[q.id]] = None
                   /\ entity'[q.id] # None =>
                        \E e \in Clients : Request[e].id = q.id /\ Adds(e)'
                   /\ \A e \in Clients : Request[e].id = q.id /\ Adds(d)' /\ Adds(e)' => e = d
      BY DEF Owned
    <3> DEFINE q == Request[d]
    <3>8. q.id \in Ids /\ IpuOf[q.id] \in Ids
      BY RequestTypes
    <3>9. q.kind = "server" => entity'[IpuOf[q.id]] = entity[IpuOf[q.id]]
      BY <3>2, <3>7, <3>8
    <3>10. entity'[q.id] # None => \E e \in Clients : Request[e].id = q.id /\ Adds(e)'
      BY <1>1, <3>2, <3>4, <3>8 DEF Owned
    <3>11. \A e \in Clients : Request[e].id = q.id /\ Adds(d)' /\ Adds(e)' => e = d
      BY <1>1, <3>4, <3>5 DEF Owned
    <3>12. q.kind = "server" /\ pc'[d] \in {"contain", "ipu"} => entity'[IpuOf[q.id]] = None
      BY <1>1, <3>2, <3>6, <3>9 DEF Owned
    <3> QED  BY <1>1, <3>9, <3>10, <3>11, <3>12 DEF Owned
  <2>2. CASE CreateEntity(c, "ipu", "containIpu", IpuOf[r.id], Ipu(r))
    <3>1. pc[c] = "ipu" /\ r.kind = "server" /\ entity[IpuOf[r.id]] = None
      BY <1>1, <2>2 DEF CreateEntity, TypeOK, Owned
    <3>2. entity' = [entity EXCEPT ![IpuOf[r.id]] = Ipu(r)] /\ pc' = [pc EXCEPT ![c] = "containIpu"]
      BY <2>2, <3>1 DEF CreateEntity, Goto
    <3>3. /\ \A d \in Clients : pc'[d] = IF d = c THEN "containIpu" ELSE pc[d]
          /\ \A i \in Ids : entity'[i] = IF i = IpuOf[r.id] THEN Ipu(r) ELSE entity[i]
      BY <3>2 DEF TypeOK
    <3>4. \A d \in Clients : Adds(d)' <=> Adds(d)
      BY <3>1, <3>3 DEF Adds, AtWork
    <3> SUFFICES ASSUME NEW d \in Clients
                 PROVE  LET q == Request[d] IN
                   /\ q.kind = "server" /\ entity'[IpuOf[q.id]] # None =>
                        entity'[IpuOf[q.id]].kind = "ipu"
                   /\ q.kind = "server" /\ pc'[d] \in {"contain", "ipu"} =>
                        entity'[IpuOf[q.id]] = None
                   /\ entity'[q.id] # None =>
                        \E e \in Clients : Request[e].id = q.id /\ Adds(e)'
                   /\ \A e \in Clients : Request[e].id = q.id /\ Adds(d)' /\ Adds(e)' => e = d
      BY DEF Owned
    <3> DEFINE q == Request[d]
    <3>5. q.id \in Ids /\ IpuOf[q.id] \in Ids
      BY RequestTypes
    <3>6. entity'[q.id] = entity[q.id]
      BY <3>1, <3>3, <3>5 DEF IdsAreApart
    <3>7. q.kind = "server" /\ entity'[IpuOf[q.id]] # None => entity'[IpuOf[q.id]].kind = "ipu"
      BY <1>1, <2>0, <3>3, <3>5, IpuLabels DEF Owned
    <3>8. q.kind = "server" /\ pc'[d] \in {"contain", "ipu"} => entity'[IpuOf[q.id]] = None
      <4> SUFFICES ASSUME q.kind = "server", pc'[d] \in {"contain", "ipu"}
                   PROVE  entity'[IpuOf[q.id]] = None
        OBVIOUS
      <4>1. d # c /\ pc[d] \in {"contain", "ipu"}
        BY <3>3
      <4>2. Adds(d) /\ Adds(c)
        BY <3>1, <4>1 DEF Adds, AtWork
      <4>3. q.id # r.id
        BY <1>1, <4>1, <4>2 DEF Owned
      <4>4. IpuOf[q.id] # IpuOf[r.id]
        BY <2>0, <3>5, <4>3, AssetsAssumption
      <4> QED  BY <1>1, <3>3, <3>5, <4>1, <4>4 DEF Owned
    <3> QED  BY <1>1, <3>4, <3>6, <3>7, <3>8 DEF Owned
  <2>3. CASE CreateEntity(c, "entity", IF r.kind = "pod" THEN "ok" ELSE "contain",
                          r.id, Object(r)) /\ entity[r.id] # None
    <3>1. /\ \A d \in Clients : pc'[d] = IF d = c THEN "exists" ELSE pc[d]
          /\ entity' = entity /\ pc[c] = "entity"
      BY <2>3 DEF CreateEntity, Goto, TypeOK
    <3>2. \A d \in Clients : Adds(d)' <=> Adds(d)
      BY <3>1 DEF Adds, AtWork
    <3> QED  BY <1>1, <3>1, <3>2, OwnedStays
  <2>4. CASE CreateRelation(c, "contain", IF r.kind = "server" THEN "ipu" ELSE "ok",
                            Parent(r), r.id)
    <3>1. /\ \A d \in Clients :
               pc'[d] = IF d # c THEN pc[d] ELSE IF r.kind = "server" THEN "ipu" ELSE "ok"
          /\ entity' = entity /\ pc[c] = "contain"
      BY <2>4 DEF CreateRelation, Goto, TypeOK
    <3>2. \A d \in Clients : Adds(d)' <=> Adds(d)
      BY <3>1 DEF Adds, AtWork
    <3> QED  BY <1>1, <3>1, <3>2, OwnedStays
  <2>5. CASE CreateRelation(c, "containIpu", "ok", r.id, IpuOf[r.id])
    <3>1. /\ \A d \in Clients : pc'[d] = IF d = c THEN "ok" ELSE pc[d]
          /\ entity' = entity /\ pc[c] = "containIpu"
      BY <2>5 DEF CreateRelation, Goto, TypeOK
    <3>2. \A d \in Clients : Adds(d)' <=> Adds(d)
      BY <3>1 DEF Adds, AtWork
    <3> QED  BY <1>1, <3>1, <3>2, OwnedStays
  <2> QED  BY <1>5, <2>1, <2>2, <2>3, <2>4, <2>5 DEF AddAsset
<1> QED  BY <1>2, <1>3, <1>4, <1>5 DEF Next

\* Without failures no asset is left half added, whoever collides with whom:
\* there is always a request at work that will complete it.  IdsAreApart is all
\* that is asked of the requests; without it, an entity under the ID of an IPU
\* stands in that IPU's way.
THEOREM NobodyLeavesHalf == SafeSpec => []HalfAddedIsHeld
<1>1. IInv /\ Owned /\ [Next]_vars => Owned'
  BY OwnedStep DEF IInv
<1>2. IInv /\ Owned => HalfAddedIsHeld
  <2> SUFFICES ASSUME IInv, Owned, IdsAreApart, faults = 0, NEW c \in Clients,
                      entity[Request[c].id] # None, ~Added(c)
               PROVE  \E d \in Clients :
                        /\ Request[d].id = Request[c].id
                        /\ entity[Request[c].id] = Object(Request[d])
                        /\ pc[d] \in Calls \ {"entity"}
    BY DEF HalfAddedIsHeld
  <2>1. PICK d \in Clients : Request[d].id = Request[c].id /\ Adds(d)
    BY DEF Owned
  <2>2. pc[d] # "ok"
    BY <2>1 DEF IInv, Progress, Added, Complete
  <2>3. entity[Request[c].id] = Object(Request[d])
    BY <2>1 DEF IInv, Progress, Adds, AtWork
  <2> QED  BY <2>1, <2>2, <2>3 DEF Adds, AtWork, Calls
<1> QED  BY OwnedInit, Invariant, <1>1, <1>2, PTL DEF SafeSpec

==============================================================================
