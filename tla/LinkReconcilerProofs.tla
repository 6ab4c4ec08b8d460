------------------------- MODULE LinkReconcilerProofs -------------------------
(***************************************************************************)
(* Proofs about LinkReconciler, for any devices, ports, links and bounds:  *)
(* type correctness, and that no entity goes back in time if no agent's    *)
(* clock is ahead of the controller's.                                     *)
(*                                                                         *)
(* TypeOK bounds every time by the clock that is furthest ahead.  If that  *)
(* is the controller's, nothing that is read is later than the time with   *)
(* which a sweep marks a link DOWN.  Forward says that what a caller is    *)
(* about to write is later than what it has read; onos-topo accepts it     *)
(* only if the entity is still what was read.                              *)
(***************************************************************************)
EXTENDS LinkReconciler, TLAPS

\* No agent's clock is ahead of the controller's.
NoneAhead == ControllerSkew = MaxSkew

\* A mark is no earlier than what it replaces.
MarksForward(w) == NoneAhead /\ w.seen # None => w.seen.last <= w.want.last

Forward ==
  /\ \A a \in Callers :
       CallIs(a, "update") => call[a].seen \in Aspect /\ call[a].seen.last < call[a].want.last
  /\ \A d \in RealmDevices : WorkerIs(d, "markDown") => MarksForward(worker[d])

IInv == TypeOK /\ Forward

------------------------------------------------------------------------------
(* Times. *)

LEMMA SameTime ==
  ASSUME clock' = clock
  PROVE  /\ Past' = Past /\ Aspect' = Aspect /\ Ingress' = Ingress /\ Held' = Held
  BY DEF Past, Aspect, Ingress, Held

LEMMA NowIsPast ==
  ASSUME TypeOK
  PROVE  Now \in Past /\ Past \subseteq Nat /\ (NoneAhead => \A t \in Past : t <= Now)
<1>1. clock \in Nat
  BY LinkAssumption DEF TypeOK
<1>2. ControllerSkew \in Nat /\ MaxSkew \in Nat /\ ControllerSkew <= MaxSkew
  BY LinkAssumption
<1> QED  BY <1>1, <1>2 DEF Now, Past, NoneAhead

LEMMA NoneIsNoAspect ==
  ASSUME TypeOK, NEW x \in Aspect
  PROVE  x # None
<1>1. x \in [status : {"UP", "DOWN"}, last : Nat]
  BY NowIsPast DEF Aspect, Status
<1> QED  BY <1>1, LinkAssumption

------------------------------------------------------------------------------
(* reconcileLink. *)

\* The caller has moved on to a typed call.
LEMMA CallChanged ==
  ASSUME TypeOK, NEW a \in Callers, ~CallIs(a, "none"), NEW c, CallOK(c),
         call' = [call EXCEPT ![a] = c],
         UNCHANGED <<agentVars, stream, report, monitor, agentDevices, worker>>,
         pending' \in SUBSET Held, entity' \in [Link -> Aspect \cup {None}],
         originates' \in SUBSET Link, terminates' \in SUBSET Link,
         faults' \in 0..MaxFaults
  PROVE  TypeOK'
<1>1. /\ Past' = Past /\ Aspect' = Aspect /\ Ingress' = Ingress /\ Held' = Held
  BY SameTime DEF agentVars
<1>2. \A b \in Callers : call'[b] = IF b = a THEN c ELSE call[b]
  BY DEF TypeOK
<1>3. \A b \in Callers : CallOK(call[b])'
  BY <1>1, <1>2 DEF TypeOK, CallOK
<1>4. \A d \in RealmDevices : WorkerOK(d, worker[d])'
  BY <1>1 DEF TypeOK, WorkerOK
<1>5. \A d \in RealmDevices :
        /\ CallIs(<<d, "worker">>, "none")' \/ worker'[d].pc = "links"
        /\ CallIs(<<d, "monitor">>, "none")' \/ monitor'[d] = "on"
  <2>1. \A d \in RealmDevices : <<d, "worker">> \in Callers /\ <<d, "monitor">> \in Callers
    BY DEF Callers
  <2> QED  BY <1>2, <2>1 DEF TypeOK, CallIs
<1>6. call' = [b \in Callers |-> call'[b]]
  BY DEF TypeOK
<1> QED  BY <1>1, <1>3, <1>4, <1>5, <1>6 DEF TypeOK, agentVars

\* What a caller at work holds.
LEMMA CallType ==
  ASSUME TypeOK, NEW a \in Callers, ~CallIs(a, "none")
  PROVE  /\ CallOK(call[a]) /\ call[a].link \in Held
         /\ call[a].pc \notin {"none", "resolve", "park"} => IdOfCall(a) \in Link
  BY DEF TypeOK, CallIs, CallOK, IdOfCall, IdOf, Held, Link

LEMMA CallReturned == TypeOK => CallOK(NoCall)
  BY DEF CallOK, NoCall, CallPcs, Status

LEMMA FaultType ==
  ASSUME TypeOK, Fault \/ UNCHANGED faults
  PROVE  faults' \in 0..MaxFaults
  BY LinkAssumption DEF Fault, TypeOK

\* Both parts of the invariant survive a step of a call that moves it on.
LEMMA CallForward ==
  ASSUME IInv, NEW a \in Callers, NEW c, call' = [call EXCEPT ![a] = c],
         c.pc = "update" => c.seen \in Aspect /\ c.seen.last < c.want.last,
         UNCHANGED <<clock, worker>>
  PROVE  Forward'
<1>1. Aspect' = Aspect
  BY SameTime
<1>2. \A b \in Callers : call'[b] = IF b = a THEN c ELSE call[b]
  BY DEF IInv, TypeOK
<1> QED  BY <1>1, <1>2 DEF IInv, Forward, CallIs, WorkerIs

LEMMA ReconcileStepInv ==
  ASSUME IInv, NEW a \in Callers, ReconcileStep(a)
  PROVE  IInv'
<1> TypeOK
  BY DEF IInv
<1>0. ~CallIs(a, "none")
  BY DEF ReconcileStep, Resolve, Park, GetLink, CreateLink, CreateOriginates,
         CreateTerminates, UpdateLink, CallFails, CallIs
<1>1. /\ CallOK(call[a]) /\ call[a].link \in Held
      /\ call[a].pc \notin {"none", "resolve", "park"} => IdOfCall(a) \in Link
  BY <1>0, CallType
<1>2. UNCHANGED <<agentVars, stream, report, monitor, agentDevices, worker>>
  BY DEF ReconcileStep, Resolve, Park, GetLink, CreateLink, CreateOriginates,
         CreateTerminates, UpdateLink, CallFails, reconcilerVars
<1>3. ASSUME NEW c, CallOK(c), call' = [call EXCEPT ![a] = c],
             c.pc = "update" => c.seen \in Aspect /\ c.seen.last < c.want.last,
             UNCHANGED <<pending, topoVars>>, Fault \/ UNCHANGED faults
      PROVE  IInv'
  <2>1. faults' \in 0..MaxFaults
    BY <1>3, FaultType
  <2>2. /\ pending' \in SUBSET Held /\ entity' \in [Link -> Aspect \cup {None}]
        /\ originates' \in SUBSET Link /\ terminates' \in SUBSET Link
    BY <1>3 DEF topoVars, TypeOK
  <2>3. TypeOK'
    BY <1>0, <1>2, <1>3, <2>1, <2>2, CallChanged
  <2>4. Forward'
    BY <1>2, <1>3, CallForward DEF agentVars
  <2> QED  BY <2>3, <2>4 DEF IInv
<1>4. ASSUME NEW c, c = NoCall \/ c = [call[a] EXCEPT !.pc = "originates"]
                   \/ c = [call[a] EXCEPT !.pc = "terminates"],
             call[a].pc \notin {"none", "resolve", "park"},
             call' = [call EXCEPT ![a] = c],
             pending' \in SUBSET Held, entity' \in [Link -> Aspect \cup {None}],
             originates' \in SUBSET Link, terminates' \in SUBSET Link, UNCHANGED faults
      PROVE  IInv'
  <2>1. CallOK(c) /\ c.pc # "update"
    BY <1>1, <1>4, CallReturned DEF CallOK, NoCall, CallPcs
  <2>2. TypeOK'
    BY <1>0, <1>2, <1>4, <2>1, CallChanged, FaultType
  <2>3. Forward'
    BY <1>2, <1>4, <2>1, CallForward DEF agentVars
  <2> QED  BY <2>2, <2>3 DEF IInv
<1>5. CASE Resolve(a)
  <2>1. CASE CallReturns(a)
    BY <1>3, <1>5, <2>1, CallReturned DEF Resolve, CallReturns, NoCall, reconcilerVars
  <2>2. CASE CallGoto(a, IF Resolved(call[a].link) THEN "get" ELSE "park")
    <3> DEFINE c == [call[a] EXCEPT !.pc = IF Resolved(call[a].link) THEN "get" ELSE "park"]
    <3>1. CallOK(c) /\ c.pc # "update"
      BY <1>1 DEF CallOK, CallPcs, Resolved
    <3>2. call' = [call EXCEPT ![a] = c]
      BY <2>2 DEF CallGoto
    <3> HIDE DEF c
    <3> QED  BY <1>3, <1>5, <3>1, <3>2 DEF Resolve, reconcilerVars
  <2> QED  BY <1>5, <2>1, <2>2 DEF Resolve
<1>6. CASE Park(a)
  <2>1. pending' \in SUBSET Held
    BY <1>1, <1>6 DEF Park, TypeOK
  <2>2. UNCHANGED <<topoVars, faults>> /\ call' = [call EXCEPT ![a] = NoCall]
    BY <1>6 DEF Park, CallReturns
  <2>3. TypeOK'
    BY <1>0, <1>2, <2>1, <2>2, CallChanged, CallReturned DEF topoVars, TypeOK
  <2>4. Forward'
    BY <1>2, <2>2, CallForward DEF agentVars, NoCall
  <2> QED  BY <2>3, <2>4 DEF IInv
<1>7. CASE GetLink(a)
  <2> DEFINE x == entity[IdOfCall(a)]
             toCreate == [call[a] EXCEPT !.pc = "create",
                            !.want = [status |-> "UP", last |-> call[a].link.ct]]
             toUpdate == [call[a] EXCEPT !.pc = "update", !.seen = x,
                            !.want = [status |-> call[a].status, last |-> call[a].link.ct]]
  <2>1. /\ call[a].link.ct \in Past /\ call[a].status \in Status
        /\ IdOfCall(a) \in Link /\ x \in Aspect \cup {None}
    BY <1>1, <1>7 DEF GetLink, CallIs, CallOK, Held, TypeOK
  <2>2. CallOK(toCreate) /\ toCreate.pc = "create"
    BY <1>1, <1>7, <2>1 DEF GetLink, CallIs, CallOK, CallPcs, Aspect, Status
  <2>3. x # None => CallOK(toUpdate) /\ toUpdate.pc = "update"
    BY <1>1, <1>7, <2>1 DEF GetLink, CallIs, CallOK, CallPcs, Aspect
  <2>4. \/ call' = [call EXCEPT ![a] = toCreate]
        \/ call' = [call EXCEPT ![a] = NoCall]
        \/ call' = [call EXCEPT ![a] = toUpdate] /\ x # None /\ NeedsUpdate(x, call[a].link)
    BY <1>7 DEF GetLink, CallReturns
  <2>5. toUpdate.seen = x /\ toUpdate.want.last = call[a].link.ct
    BY <1>1 DEF CallOK
  <2>6. UNCHANGED <<pending, topoVars>> /\ (Fault \/ UNCHANGED faults)
    BY <1>7 DEF GetLink, reconcilerVars
  <2> HIDE DEF toCreate, toUpdate
  <2> QED
    BY <1>3, <2>1, <2>2, <2>3, <2>4, <2>5, <2>6, CallReturned DEF NeedsUpdate, NoCall
<1>8. CASE CreateLink(a)
  <2>1. call[a].want \in Aspect /\ call[a].pc = "create" /\ IdOfCall(a) \in Link
    BY <1>1, <1>8 DEF CreateLink, CallIs, CallOK
  <2>2. entity' \in [Link -> Aspect \cup {None}]
    BY <1>8, <2>1 DEF CreateLink, TypeOK
  <2> QED
    BY <1>4, <1>8, <2>1, <2>2 DEF CreateLink, CallGoto, CallReturns, reconcilerVars, TypeOK
<1>9. CASE CreateOriginates(a)
  BY <1>1, <1>4, <1>9 DEF CreateOriginates, CallIs, CallGoto, reconcilerVars, TypeOK
<1>10. CASE CreateTerminates(a)
  BY <1>1, <1>4, <1>10 DEF CreateTerminates, CallIs, CallReturns, reconcilerVars, TypeOK
<1>11. CASE UpdateLink(a)
  <2>1. call[a].want \in Aspect /\ call[a].pc = "update" /\ IdOfCall(a) \in Link
    BY <1>1, <1>11 DEF UpdateLink, CallIs, CallOK
  <2>2. entity' \in [Link -> Aspect \cup {None}]
    BY <1>11, <2>1 DEF UpdateLink, TypeOK
  <2> QED  BY <1>4, <1>11, <2>1, <2>2 DEF UpdateLink, CallReturns, reconcilerVars, TypeOK
<1>12. CASE CallFails(a)
  BY <1>3, <1>12, CallReturned DEF CallFails, CallReturns, NoCall, reconcilerVars
<1> QED
  BY <1>5, <1>6, <1>7, <1>8, <1>9, <1>10, <1>11, <1>12 DEF ReconcileStep

------------------------------------------------------------------------------
(* Typing and Forward at the end of a step at which the agents do not change. *)

CallsFit(c, w, m) ==
  \A d \in RealmDevices :
    /\ c[<<d, "worker">>].pc = "none" \/ w[d].pc = "links"
    /\ c[<<d, "monitor">>].pc = "none" \/ m[d] = "on"

LEMMA Assemble ==
  ASSUME TypeOK, UNCHANGED agentVars,
         stream' \in [RealmDevices -> Seq([port : InPorts, link : Ingress \cup {NoLink}])],
         report' \in [InPorts -> Ingress \cup {NoLink}],
         monitor' \in [RealmDevices -> {"off", "starting", "on", "dead"}],
         agentDevices' \in SUBSET Devices, pending' \in SUBSET Held,
         worker' = [d \in RealmDevices |-> worker'[d]],
         call' = [a \in Callers |-> call'[a]],
         \A a \in Callers : CallOK(call'[a]),
         \A d \in RealmDevices : WorkerOK(d, worker'[d]),
         CallsFit(call', worker', monitor'),
         entity' \in [Link -> Aspect \cup {None}],
         UNCHANGED <<originates, terminates>>, faults' \in 0..MaxFaults
  PROVE  TypeOK'
<1>1. /\ Past' = Past /\ Aspect' = Aspect /\ Ingress' = Ingress /\ Held' = Held
  BY SameTime DEF agentVars
<1>2. \A a \in Callers : CallOK(call[a])'
  BY <1>1 DEF CallOK
<1>3. \A d \in RealmDevices : WorkerOK(d, worker[d])'
  BY <1>1 DEF WorkerOK
<1>4. \A d \in RealmDevices :
        /\ CallIs(<<d, "worker">>, "none")' \/ worker'[d].pc = "links"
        /\ CallIs(<<d, "monitor">>, "none")' \/ monitor'[d] = "on"
  BY DEF CallsFit, CallIs
<1> QED  BY <1>1, <1>2, <1>3, <1>4 DEF TypeOK, agentVars

LEMMA Fit == TypeOK => CallsFit(call, worker, monitor)
  BY DEF TypeOK, CallsFit, CallIs

\* Forward is about what is about to be written.
LEMMA ForwardKept ==
  ASSUME IInv, UNCHANGED clock,
         \A a \in Callers : call'[a].pc = "update" =>
           /\ call[a].pc = "update"
           /\ call'[a].seen = call[a].seen /\ call'[a].want = call[a].want,
         \A d \in RealmDevices : worker'[d].pc = "markDown" =>
           \/ /\ worker[d].pc = "markDown"
              /\ worker'[d].seen = worker[d].seen /\ worker'[d].want = worker[d].want
           \/ MarksForward(worker'[d])
  PROVE  Forward'
<1>1. Aspect' = Aspect
  BY SameTime
<1> QED  BY <1>1 DEF IInv, Forward, MarksForward, CallIs, WorkerIs

\* A step of one worker that leaves the calls and the contexts alone.
LEMMA WorkerChanged ==
  ASSUME IInv, NEW d \in RealmDevices, NEW w, WorkerOK(d, w),
         worker' = [worker EXCEPT ![d] = w],
         UNCHANGED <<agentVars, stream, report, monitor, call>>,
         call[<<d, "worker">>].pc = "none" \/ w.pc = "links",
         w.pc = "markDown" => MarksForward(w),
         agentDevices' \in SUBSET Devices, pending' \in SUBSET Held,
         entity' \in [Link -> Aspect \cup {None}],
         UNCHANGED <<originates, terminates>>, Fault \/ UNCHANGED faults
  PROVE  IInv'
<1> TypeOK
  BY DEF IInv
<1>1. \A e \in RealmDevices : worker'[e] = IF e = d THEN w ELSE worker[e]
  BY DEF TypeOK
<1>2. worker' = [e \in RealmDevices |-> worker'[e]] /\ call' = [a \in Callers |-> call'[a]]
  BY DEF TypeOK
<1>3. /\ \A a \in Callers : CallOK(call'[a])
      /\ \A e \in RealmDevices : WorkerOK(e, worker'[e])
  BY <1>1 DEF TypeOK
<1>4. CallsFit(call', worker', monitor')
  BY <1>1, Fit DEF CallsFit
<1>5. TypeOK'
  <2>1. faults' \in 0..MaxFaults
    BY FaultType
  <2>2. /\ stream' \in [RealmDevices -> Seq([port : InPorts, link : Ingress \cup {NoLink}])]
        /\ report' \in [InPorts -> Ingress \cup {NoLink}]
        /\ monitor' \in [RealmDevices -> {"off", "starting", "on", "dead"}]
    BY DEF TypeOK
  <2> QED  BY <1>2, <1>3, <1>4, <2>1, <2>2, Assemble
<1>6. Forward'
  BY <1>1, ForwardKept DEF agentVars
<1> QED  BY <1>5, <1>6 DEF IInv

------------------------------------------------------------------------------
(* The workers. *)

LEMMA WorkerType ==
  ASSUME TypeOK, NEW d \in RealmDevices
  PROVE  /\ WorkerOK(d, worker[d])
         /\ call[<<d, "worker">>].pc = "none" \/ worker[d].pc = "links"
         /\ PortsOf(d) \subseteq InPorts
  BY DEF TypeOK, CallIs, PortsOf

LEMMA QuietWorkerInv ==
  ASSUME IInv, NEW d \in RealmDevices,
         \/ FetchLinks(d) \/ QueryPorts(d) \/ CheckPort(d) \/ QueryDowned(d) \/ ReadFails(d)
         \/ DiscoverEnds(d)
  PROVE  IInv'
<1> TypeOK
  BY DEF IInv
<1>0. /\ WorkerOK(d, worker[d]) /\ PortsOf(d) \subseteq InPorts
      /\ call[<<d, "worker">>].pc = "none" \/ worker[d].pc = "links"
  BY WorkerType
<1>1. /\ UNCHANGED <<agentVars, stream, report, monitor, call, agentDevices, pending, entity,
                     originates, terminates>>
      /\ Fault \/ UNCHANGED faults
      /\ agentDevices' \in SUBSET Devices /\ pending' \in SUBSET Held
      /\ entity' \in [Link -> Aspect \cup {None}]
  BY DEF FetchLinks, QueryPorts, CheckPort, QueryDowned, ReadFails, DiscoverEnds, reconcilerVars,
         topoVars, TypeOK
<1>2. ASSUME NEW w, WorkerOK(d, w), worker' = [worker EXCEPT ![d] = w],
             call[<<d, "worker">>].pc = "none",
             w.pc = "markDown" => MarksForward(w)
      PROVE  IInv'
  BY <1>1, <1>2, WorkerChanged
<1>3. CASE FetchLinks(d)
  <2> DEFINE w == [worker[d] EXCEPT !.pc = "fetched", !.got = [i \in PortsOf(d) |-> agent[i]]]
  <2>1. worker' = [worker EXCEPT ![d] = w]
    BY <1>3 DEF FetchLinks
  <2>2. [i \in PortsOf(d) |-> agent[i]] \in [PortsOf(d) -> Ingress \cup {NoLink}]
    BY <1>0 DEF TypeOK
  <2>3. WorkerOK(d, w) /\ w.pc = "fetched"
    BY <1>0, <2>2 DEF WorkerOK, WorkerPcs
  <2>4. call[<<d, "worker">>].pc = "none"
    BY <1>0, <1>3 DEF FetchLinks, WorkerIs
  <2> HIDE DEF w
  <2> QED  BY <1>2, <2>1, <2>3, <2>4
<1>4. CASE QueryPorts(d)
  <2> DEFINE w == [worker[d] EXCEPT !.pc = "ports",
                     !.ports = {i \in PortsOf(d) : \E l \in terminates : l.in = i}]
  <2>1. worker' = [worker EXCEPT ![d] = w]
    BY <1>4 DEF QueryPorts
  <2>2. WorkerOK(d, w) /\ w.pc = "ports"
    BY <1>0 DEF WorkerOK, WorkerPcs
  <2> HIDE DEF w
  <2> QED  BY <1>2, <1>4, <2>1, <2>2 DEF QueryPorts, CallIs
<1>5. CASE CheckPort(d)
  <2>1. PICK i \in worker[d].ports :
          worker' = IF report[i] = NoLink
                    THEN [worker EXCEPT ![d].ports = @ \ {i}, ![d].pc = "absent", ![d].port = i]
                    ELSE [worker EXCEPT ![d].ports = @ \ {i}]
    BY <1>5 DEF CheckPort
  <2> DEFINE w == [worker[d] EXCEPT !.ports = @ \ {i}]
             v == [w EXCEPT !.pc = "absent", !.port = i]
  <2>2. worker' = [worker EXCEPT ![d] = w] \/ worker' = [worker EXCEPT ![d] = v]
    BY <2>1, <1>0 DEF WorkerOK, TypeOK
  <2>3. /\ WorkerOK(d, w) /\ w.pc = "ports"
        /\ WorkerOK(d, v) /\ v.pc = "absent"
    BY <1>0, <1>5, <2>1 DEF CheckPort, WorkerIs, WorkerOK, WorkerPcs
  <2>4. call[<<d, "worker">>].pc = "none"
    BY <1>0, <1>5 DEF CheckPort, WorkerIs
  <2> HIDE DEF w, v
  <2> QED  BY <1>2, <2>2, <2>3, <2>4
<1>6. CASE QueryDowned(d)
  <2>1. PICK l \in {k \in terminates : k.in = worker[d].port} :
          worker' = IF entity[l].status = "DOWN"
                    THEN [worker EXCEPT ![d].pc = "ports", ![d].port = None]
                    ELSE [worker EXCEPT ![d].pc = "markDown", ![d].port = None, ![d].link = l,
                                        ![d].seen = entity[l],
                                        ![d].want = [status |-> "DOWN", last |-> Now]]
    BY <1>6 DEF QueryDowned
  <2> DEFINE w == [worker[d] EXCEPT !.pc = "ports", !.port = None]
             v == [worker[d] EXCEPT !.pc = "markDown", !.port = None, !.link = l,
                     !.seen = entity[l], !.want = [status |-> "DOWN", last |-> Now]]
  <2>2. worker' = [worker EXCEPT ![d] = w] \/ worker' = [worker EXCEPT ![d] = v]
    BY <2>1 DEF TypeOK
  <2>3. l \in Link /\ entity[l] \in Aspect \cup {None}
        /\ [status |-> "DOWN", last |-> Now] \in Aspect
    BY <2>1, NowIsPast DEF TypeOK, Aspect, Status
  <2>4. /\ WorkerOK(d, w) /\ w.pc = "ports"
        /\ WorkerOK(d, v) /\ v.seen = entity[l] /\ v.want.last = Now
    <3> DEFINE seen == entity[l]
               want == [status |-> "DOWN", last |-> Now]
    <3>1. l \in Link /\ seen \in Aspect \cup {None} /\ want \in Aspect /\ want.last = Now
      BY <2>3
    <3> HIDE DEF seen, want
    <3>2. WorkerOK(d, w) /\ w.pc = "ports"
      BY <1>0 DEF WorkerOK, WorkerPcs
    <3>3. WorkerOK(d, [worker[d] EXCEPT !.pc = "markDown", !.port = None, !.link = l,
                                        !.seen = seen, !.want = want])
      BY <1>0, <3>1 DEF WorkerOK, WorkerPcs
    <3>4. v.seen = seen /\ v.want = want
      BY <1>0 DEF WorkerOK, seen, want
    <3> QED  BY <3>1, <3>2, <3>3, <3>4 DEF seen, want
  <2>5. MarksForward(v)
    <3>1. v.seen # None => v.seen.last \in Past
      BY <2>3, <2>4 DEF Aspect
    <3> HIDE DEF v
    <3> QED  BY <2>4, <3>1, NowIsPast DEF MarksForward
  <2>6. call[<<d, "worker">>].pc = "none"
    BY <1>0, <1>6 DEF QueryDowned, WorkerIs
  <2> HIDE DEF w, v
  <2> QED  BY <1>2, <2>2, <2>4, <2>5, <2>6
<1>6a. CASE ReadFails(d)
  <2> DEFINE w == [worker[d] EXCEPT !.pc = "ports", !.port = None]
  <2>1. worker' = [worker EXCEPT ![d] = w] \/ worker' = [worker EXCEPT ![d] = IdleWorker]
    BY <1>6a DEF ReadFails, TypeOK
  <2>2. /\ WorkerOK(d, w) /\ w.pc = "ports"
        /\ WorkerOK(d, IdleWorker) /\ IdleWorker.pc = "idle"
    BY <1>0 DEF WorkerOK, IdleWorker, WorkerPcs
  <2>3. call[<<d, "worker">>].pc = "none"
    BY <1>0, <1>6a DEF ReadFails, WorkerIs
  <2> HIDE DEF w
  <2> QED  BY <1>2, <2>1, <2>2, <2>3
<1>7. CASE DiscoverEnds(d)
  <2>1. WorkerOK(d, IdleWorker) /\ IdleWorker.pc = "idle"
    BY DEF WorkerOK, IdleWorker, WorkerPcs
  <2>2. call[<<d, "worker">>].pc = "none"
    BY <1>0, <1>7 DEF DiscoverEnds, WorkerIs
  <2> QED  BY <1>2, <1>7, <2>1, <2>2 DEF DiscoverEnds
<1> QED  BY <1>3, <1>4, <1>5, <1>6, <1>6a, <1>7

LEMMA MarkDownInv ==
  ASSUME IInv, NEW d \in RealmDevices, MarkDown(d)
  PROVE  IInv'
<1> TypeOK
  BY DEF IInv
<1>0. /\ WorkerOK(d, worker[d]) /\ worker[d].pc = "markDown"
      /\ call[<<d, "worker">>].pc = "none"
  BY WorkerType DEF MarkDown, WorkerIs
<1> DEFINE w == [worker[d] EXCEPT !.pc = "ports", !.link = None, !.seen = None, !.want = None]
<1>1. worker' = [worker EXCEPT ![d] = w]
  BY DEF MarkDown
<1>2. WorkerOK(d, w) /\ w.pc = "ports"
  BY <1>0 DEF WorkerOK, WorkerPcs
<1>3. entity' \in [Link -> Aspect \cup {None}]
  BY <1>0 DEF MarkDown, WorkerOK, TypeOK
<1>4. /\ UNCHANGED <<agentVars, stream, report, monitor, call, agentDevices, pending,
                     originates, terminates>>
      /\ agentDevices' \in SUBSET Devices /\ pending' \in SUBSET Held
      /\ Fault \/ UNCHANGED faults
  BY DEF MarkDown, reconcilerVars, TypeOK
<1> HIDE DEF w
<1> QED  BY <1>0, <1>1, <1>2, <1>3, <1>4, WorkerChanged

LEMMA RegisterReportInv ==
  ASSUME IInv, NEW d \in RealmDevices, RegisterReport(d)
  PROVE  IInv'
<1> TypeOK
  BY DEF IInv
<1> DEFINE links == {[out |-> report[i].out, in |-> i, ct |-> report[i].ct, live |-> TRUE] :
                       i \in {j \in PortsOf(d) : report[j] # NoLink}}
           resolved == {x \in links : DeviceOf[x.out] \in agentDevices \cup {d}}
           parkedHere == {x \in pending : DeviceOf[x.out] = d}
           w == [worker[d] EXCEPT !.pc = "links", !.todo = resolved \cup parkedHere]
<1>0. WorkerOK(d, worker[d]) /\ PortsOf(d) \subseteq InPorts
  BY WorkerType
<1>1. links \subseteq Held
  <2> SUFFICES ASSUME NEW i \in PortsOf(d), report[i] # NoLink
               PROVE  [out |-> report[i].out, in |-> i, ct |-> report[i].ct, live |-> TRUE] \in Held
    OBVIOUS
  <2>1. report[i] \in Ingress
    BY <1>0 DEF TypeOK
  <2> QED  BY <1>0, <2>1 DEF Held, Ingress
<1>2. /\ worker' = [worker EXCEPT ![d] = w]
      /\ pending' = (pending \ parkedHere) \cup (links \ resolved)
      /\ agentDevices' = agentDevices \cup {d}
  BY DEF RegisterReport, TypeOK
<1>3. WorkerOK(d, w) /\ w.pc = "links"
  <2>1. resolved \cup parkedHere \in SUBSET Held
    BY <1>1 DEF TypeOK
  <2> HIDE DEF resolved, parkedHere
  <2> QED  BY <1>0, <2>1 DEF WorkerOK, WorkerPcs
<1>4. /\ UNCHANGED <<agentVars, stream, report, monitor, call, entity, originates, terminates,
                     faults>>
      /\ entity' \in [Link -> Aspect \cup {None}]
  BY DEF RegisterReport, topoVars, TypeOK
<1>5. agentDevices' \in SUBSET Devices /\ pending' \in SUBSET Held
  <2> HIDE DEF links
  <2> QED  BY <1>1, <1>2 DEF Devices, TypeOK
<1> HIDE DEF w
<1> QED  BY <1>2, <1>3, <1>4, <1>5, WorkerChanged

LEMMA NextLinkInv ==
  ASSUME IInv, NEW d \in RealmDevices, NextLink(d)
  PROVE  IInv'
<1> TypeOK
  BY DEF IInv
<1>0. /\ WorkerOK(d, worker[d]) /\ worker[d].pc = "links" /\ <<d, "worker">> \in Callers
  BY WorkerType DEF NextLink, WorkerIs, Callers
<1>1. PICK x \in worker[d].todo :
        /\ worker' = [worker EXCEPT ![d].todo = @ \ {x}]
        /\ call' = [call EXCEPT ![<<d, "worker">>] =
                      [NoCall EXCEPT !.pc = "resolve", !.link = x]]
  BY DEF NextLink
<1> DEFINE w == [worker[d] EXCEPT !.todo = @ \ {x}]
           c == [NoCall EXCEPT !.pc = "resolve", !.link = x]
<1>2. WorkerOK(d, w) /\ w.pc = "links"
  BY <1>0 DEF WorkerOK
<1>3. CallOK(c) /\ c.pc = "resolve"
  BY <1>0, <1>1 DEF WorkerOK, CallOK, NoCall, CallPcs, Status
<1>4. worker' = [worker EXCEPT ![d] = w] /\ call' = [call EXCEPT ![<<d, "worker">>] = c]
  BY <1>1
<1>5. /\ UNCHANGED <<agentVars, stream, report, monitor, agentDevices, pending, entity,
                     originates, terminates, faults>>
  BY DEF NextLink, reconcilerVars, topoVars
<1> HIDE DEF w, c
<1>6. /\ \A e \in RealmDevices : worker'[e] = IF e = d THEN w ELSE worker[e]
      /\ \A a \in Callers : call'[a] = IF a = <<d, "worker">> THEN c ELSE call[a]
      /\ worker' = [e \in RealmDevices |-> worker'[e]] /\ call' = [a \in Callers |-> call'[a]]
  BY <1>4 DEF TypeOK
<1>7. TypeOK'
  <2>1. /\ \A a \in Callers : CallOK(call'[a])
        /\ \A e \in RealmDevices : WorkerOK(e, worker'[e])
    BY <1>2, <1>3, <1>6 DEF TypeOK
  <2>2. CallsFit(call', worker', monitor')
    <3>1. \A e \in RealmDevices : <<e, "worker">> \in Callers /\ <<e, "monitor">> \in Callers
      BY DEF Callers
    <3>2. \A e \in RealmDevices : <<e, "monitor">> # <<d, "worker">>
      OBVIOUS
    <3> QED  BY <1>0, <1>2, <1>5, <1>6, <3>1, <3>2, Fit DEF CallsFit
  <2>3. /\ stream' \in [RealmDevices -> Seq([port : InPorts, link : Ingress \cup {NoLink}])]
        /\ report' \in [InPorts -> Ingress \cup {NoLink}]
        /\ monitor' \in [RealmDevices -> {"off", "starting", "on", "dead"}]
        /\ agentDevices' \in SUBSET Devices /\ pending' \in SUBSET Held
        /\ entity' \in [Link -> Aspect \cup {None}] /\ faults' \in 0..MaxFaults
    BY <1>5 DEF TypeOK
  <2> QED  BY <1>5, <1>6, <2>1, <2>2, <2>3, Assemble
<1>8. Forward'
  BY <1>2, <1>3, <1>5, <1>6, ForwardKept DEF agentVars
<1> QED  BY <1>7, <1>8 DEF IInv

------------------------------------------------------------------------------
(* Links leave the report: whoever holds one holds a typed one afterwards. *)

LEMMA DetachedType ==
  ASSUME NEW x \in Held, NEW P, NEW stamp \in Past \cup {None}
  PROVE  Detached(x, P, stamp) \in Held /\ Detached(x, P, stamp).out = x.out
  BY DEF Detached, Held

LEMMA WithoutType ==
  ASSUME TypeOK, NEW P, NEW stamp \in Past \cup {None}
  PROVE  /\ PendingWithout(P, stamp) \in SUBSET Held
         /\ WorkersWithout(P, stamp) = [d \in RealmDevices |-> WorkersWithout(P, stamp)[d]]
         /\ CallsWithout(P, stamp) = [a \in Callers |-> CallsWithout(P, stamp)[a]]
         /\ \A d \in RealmDevices :
              LET w == WorkersWithout(P, stamp)[d]
              IN  /\ WorkerOK(d, w) /\ w.pc = worker[d].pc
                  /\ w.seen = worker[d].seen /\ w.want = worker[d].want
         /\ \A a \in Callers :
              LET c == CallsWithout(P, stamp)[a]
              IN  /\ CallOK(c) /\ c.pc = call[a].pc
                  /\ c.seen = call[a].seen /\ c.want = call[a].want
<1>1. PendingWithout(P, stamp) \in SUBSET Held
  BY DetachedType DEF PendingWithout, TypeOK
<1>2. /\ WorkersWithout(P, stamp) = [d \in RealmDevices |-> WorkersWithout(P, stamp)[d]]
      /\ CallsWithout(P, stamp) = [a \in Callers |-> CallsWithout(P, stamp)[a]]
  BY DEF WorkersWithout, CallsWithout
<1>3. ASSUME NEW d \in RealmDevices
      PROVE  LET w == WorkersWithout(P, stamp)[d]
             IN  /\ WorkerOK(d, w) /\ w.pc = worker[d].pc
                 /\ w.seen = worker[d].seen /\ w.want = worker[d].want
  <2> DEFINE todo == {Detached(x, P, stamp) : x \in worker[d].todo}
             w == [worker[d] EXCEPT !.todo = todo]
  <2>1. WorkerOK(d, worker[d])
    BY WorkerType
  <2>2. todo \in SUBSET Held
    BY <2>1, DetachedType DEF WorkerOK
  <2>3. WorkersWithout(P, stamp)[d] = w
    BY DEF WorkersWithout
  <2> HIDE DEF todo
  <2>4. /\ WorkerOK(d, w) /\ w.pc = worker[d].pc
        /\ w.seen = worker[d].seen /\ w.want = worker[d].want
    BY <2>1, <2>2 DEF WorkerOK
  <2> HIDE DEF w
  <2> QED  BY <2>3, <2>4
<1>4. ASSUME NEW a \in Callers
      PROVE  LET c == CallsWithout(P, stamp)[a]
             IN  /\ CallOK(c) /\ c.pc = call[a].pc
                 /\ c.seen = call[a].seen /\ c.want = call[a].want
  <2>1. CASE CallIs(a, "none")
    BY <2>1 DEF CallsWithout, TypeOK
  <2>2. CASE ~CallIs(a, "none")
    <3> DEFINE x == Detached(call[a].link, P, stamp)
               c == [call[a] EXCEPT !.link = x]
    <3>1. CallOK(call[a]) /\ call[a].link \in Held
      BY <2>2, CallType
    <3>2. x \in Held /\ x.out = call[a].link.out
      BY <3>1, DetachedType
    <3>3. CallsWithout(P, stamp)[a] = c
      BY <2>2 DEF CallsWithout
    <3> HIDE DEF x
    <3>4. /\ CallOK(c) /\ c.pc = call[a].pc
          /\ c.seen = call[a].seen /\ c.want = call[a].want
      BY <3>1, <3>2 DEF CallOK
    <3> HIDE DEF c
    <3> QED  BY <3>3, <3>4
  <2> QED  BY <2>1, <2>2
<1> QED  BY <1>1, <1>2, <1>3, <1>4

\* A worker has stored the report that it held.
LEMMA Stored ==
  ASSUME NEW d, NEW v, WorkerOK(d, v)
  PROVE  WorkerOK(d, [v EXCEPT !.pc = "register", !.got = None])
BY DEF WorkerOK, WorkerPcs

LEMMA SwapReportInv ==
  ASSUME IInv, NEW d \in RealmDevices, SwapReport(d)
  PROVE  IInv'
<1> TypeOK
  BY DEF IInv
<1>0. /\ WorkerOK(d, worker[d]) /\ worker[d].pc = "fetched" /\ PortsOf(d) \subseteq InPorts
      /\ call[<<d, "worker">>].pc = "none"
  BY WorkerType DEF SwapReport, WorkerIs
<1> DEFINE W == WorkersWithout(PortsOf(d), None)
           C == CallsWithout(PortsOf(d), None)
           w == [W[d] EXCEPT !.pc = "register", !.got = None]
<1>1. /\ PendingWithout(PortsOf(d), None) \in SUBSET Held
      /\ W = [e \in RealmDevices |-> W[e]] /\ C = [a \in Callers |-> C[a]]
      /\ \A e \in RealmDevices : /\ WorkerOK(e, W[e]) /\ W[e].pc = worker[e].pc
                                 /\ W[e].seen = worker[e].seen /\ W[e].want = worker[e].want
      /\ \A a \in Callers : /\ CallOK(C[a]) /\ C[a].pc = call[a].pc
                            /\ C[a].seen = call[a].seen /\ C[a].want = call[a].want
  BY WithoutType
<1> HIDE DEF W, C
<1>2. WorkerOK(d, w) /\ w.pc = "register"
  <2>1. WorkerOK(d, W[d])
    BY <1>1
  <2>2. "pc" \in DOMAIN W[d]
    BY <2>1 DEF WorkerOK
  <2> QED  BY <2>1, <2>2, Stored
<1>3. worker' = [W EXCEPT ![d] = w] /\ call' = C
  BY DEF SwapReport, W, C
<1> HIDE DEF w
<1>4. /\ \A e \in RealmDevices : worker'[e] = IF e = d THEN w ELSE W[e]
      /\ worker' = [e \in RealmDevices |-> worker'[e]] /\ call' = [a \in Callers |-> call'[a]]
  BY <1>1, <1>3
<1>5. UNCHANGED <<agentVars, stream, agentDevices, entity, originates, terminates, faults>>
  BY DEF SwapReport, topoVars
<1>6. TypeOK'
  <2>1. /\ \A a \in Callers : CallOK(call'[a])
        /\ \A e \in RealmDevices : WorkerOK(e, worker'[e])
    BY <1>1, <1>2, <1>3, <1>4
  <2>2. monitor' \in [RealmDevices -> {"off", "starting", "on", "dead"}]
    BY DEF SwapReport, TypeOK
  <2>3. CallsFit(call', worker', monitor')
    <3>1. \A e \in RealmDevices : <<e, "worker">> \in Callers /\ <<e, "monitor">> \in Callers
      BY DEF Callers
    <3>2. \A e \in RealmDevices : monitor[e] = "on" => monitor'[e] = "on"
      BY DEF SwapReport, TypeOK
    <3>3. CallsFit(call, worker, monitor)
      BY Fit
    <3> SUFFICES ASSUME NEW e \in RealmDevices
                 PROVE  /\ call'[<<e, "worker">>].pc = "none" \/ worker'[e].pc = "links"
                        /\ call'[<<e, "monitor">>].pc = "none" \/ monitor'[e] = "on"
      BY DEF CallsFit
    <3>4. /\ call'[<<e, "worker">>].pc = call[<<e, "worker">>].pc
          /\ call'[<<e, "monitor">>].pc = call[<<e, "monitor">>].pc
      BY <1>1, <1>3, <3>1
    <3>5. e # d => worker'[e].pc = worker[e].pc
      BY <1>1, <1>4
    <3> QED  BY <1>0, <3>2, <3>3, <3>4, <3>5 DEF CallsFit
  <2>4. report' \in [InPorts -> Ingress \cup {NoLink}]
    <3>1. \A i \in InPorts : DeviceOf[i] = d => worker[d].got[i] \in Ingress \cup {NoLink}
      BY <1>0 DEF WorkerOK, PortsOf
    <3> QED  BY <3>1 DEF SwapReport, TypeOK
  <2>5. /\ stream' \in [RealmDevices -> Seq([port : InPorts, link : Ingress \cup {NoLink}])]
        /\ agentDevices' \in SUBSET Devices /\ pending' \in SUBSET Held
        /\ entity' \in [Link -> Aspect \cup {None}] /\ faults' \in 0..MaxFaults
    BY <1>1, <1>5 DEF SwapReport, TypeOK
  <2> QED  BY <1>4, <1>5, <2>1, <2>2, <2>3, <2>4, <2>5, Assemble
<1>7. Forward'
  BY <1>1, <1>2, <1>3, <1>4, <1>5, ForwardKept DEF agentVars
<1> QED  BY <1>6, <1>7 DEF IInv

LEMMA MonitorRecvInv ==
  ASSUME IInv, NEW d \in RealmDevices, MonitorRecv(d)
  PROVE  IInv'
<1> TypeOK
  BY DEF IInv
<1> DEFINE n == Head(stream[d])
           i == n.port
           deleted == n.link = NoLink
           stamp == IF deleted THEN Now ELSE None
           link == IF deleted
                   THEN [out |-> IF report[i] = NoLink THEN NoLink ELSE report[i].out,
                         in |-> i, ct |-> Now, live |-> FALSE]
                   ELSE [out |-> n.link.out, in |-> i, ct |-> n.link.ct, live |-> TRUE]
           P == {i}
           W == WorkersWithout(P, stamp)
           C == CallsWithout(P, stamp)
           c == [NoCall EXCEPT !.pc = "resolve", !.link = link,
                               !.status = IF deleted THEN "DOWN" ELSE "UP"]
           a == <<d, "monitor">>
<1>0. /\ monitor[d] = "on" /\ stream[d] # <<>> /\ a \in Callers
      /\ stream[d] \in Seq([port : InPorts, link : Ingress \cup {NoLink}])
  BY DEF MonitorRecv, TypeOK, Callers
<1>1. /\ n \in [port : InPorts, link : Ingress \cup {NoLink}]
      /\ Tail(stream[d]) \in Seq([port : InPorts, link : Ingress \cup {NoLink}])
  <2> DEFINE S == [port : InPorts, link : Ingress \cup {NoLink}]
             s == stream[d]
  <2>1. s \in Seq(S) /\ s # <<>>
    BY <1>0
  <2> HIDE DEF S, s
  <2>2. Head(s) \in S /\ Tail(s) \in Seq(S)
    BY <2>1
  <2> QED  BY <2>2 DEF S, s
<1>2. /\ report' = [report EXCEPT ![i] = n.link]
      /\ pending' = PendingWithout(P, stamp)
      /\ worker' = W
      /\ call' = [C EXCEPT ![a] = c]
      /\ stream' = [stream EXCEPT ![d] = Tail(@)]
      /\ UNCHANGED <<agentVars, monitor, agentDevices, entity, originates, terminates, faults>>
  BY DEF MonitorRecv, topoVars
<1>3. stamp \in Past \cup {None} /\ link \in Held
  <2>1. Now \in Past
    BY NowIsPast
  <2>2. report[i] \in Ingress \cup {NoLink} /\ i \in InPorts /\ n.link \in Ingress \cup {NoLink}
    BY <1>1 DEF TypeOK
  <2> HIDE DEF n
  <2> QED  BY <2>1, <2>2 DEF Held, Ingress
<1>4. CallOK(c) /\ c.pc = "resolve"
  <2> HIDE DEF link
  <2> QED  BY <1>3 DEF CallOK, NoCall, CallPcs, Status
<1> HIDE DEF n, stamp, link, P
<1>5. /\ PendingWithout(P, stamp) \in SUBSET Held
      /\ W = [e \in RealmDevices |-> W[e]] /\ C = [b \in Callers |-> C[b]]
      /\ \A e \in RealmDevices : /\ WorkerOK(e, W[e]) /\ W[e].pc = worker[e].pc
                                 /\ W[e].seen = worker[e].seen /\ W[e].want = worker[e].want
      /\ \A b \in Callers : /\ CallOK(C[b]) /\ C[b].pc = call[b].pc
                            /\ C[b].seen = call[b].seen /\ C[b].want = call[b].want
  BY <1>3, WithoutType
<1> HIDE DEF W, C, c
<1>6. /\ \A b \in Callers : call'[b] = IF b = a THEN c ELSE C[b]
      /\ worker' = [e \in RealmDevices |-> worker'[e]] /\ call' = [b \in Callers |-> call'[b]]
  BY <1>2, <1>5
<1>7. TypeOK'
  <2>1. /\ \A b \in Callers : CallOK(call'[b])
        /\ \A e \in RealmDevices : WorkerOK(e, worker'[e])
    BY <1>2, <1>4, <1>5, <1>6
  <2>2. CallsFit(call', worker', monitor')
    <3>1. \A e \in RealmDevices : <<e, "worker">> \in Callers /\ <<e, "monitor">> \in Callers
      BY DEF Callers
    <3>2. \A e \in RealmDevices : <<e, "worker">> # a
      OBVIOUS
    <3>3. \A e \in RealmDevices : a = <<e, "monitor">> => e = d
      OBVIOUS
    <3> HIDE DEF a
    <3>4. CallsFit(call, worker, monitor)
      BY Fit
    <3> SUFFICES ASSUME NEW e \in RealmDevices
                 PROVE  /\ call'[<<e, "worker">>].pc = "none" \/ worker'[e].pc = "links"
                        /\ call'[<<e, "monitor">>].pc = "none" \/ monitor'[e] = "on"
      BY DEF CallsFit
    <3>5. /\ call'[<<e, "worker">>].pc = call[<<e, "worker">>].pc
          /\ worker'[e].pc = worker[e].pc
      BY <1>2, <1>5, <1>6, <3>1, <3>2
    <3>6. e # d => call'[<<e, "monitor">>].pc = call[<<e, "monitor">>].pc
      BY <1>5, <1>6, <3>1, <3>3
    <3> QED  BY <1>0, <1>2, <3>4, <3>5, <3>6 DEF CallsFit
  <2>3. report' \in [InPorts -> Ingress \cup {NoLink}]
    BY <1>1, <1>2 DEF TypeOK
  <2>4. stream' \in [RealmDevices -> Seq([port : InPorts, link : Ingress \cup {NoLink}])]
    BY <1>1, <1>2 DEF TypeOK
  <2>5. /\ monitor' \in [RealmDevices -> {"off", "starting", "on", "dead"}]
        /\ agentDevices' \in SUBSET Devices /\ pending' \in SUBSET Held
        /\ entity' \in [Link -> Aspect \cup {None}] /\ faults' \in 0..MaxFaults
    BY <1>2, <1>5 DEF TypeOK
  <2> HIDE DEF a
  <2> QED  BY <1>2, <1>6, <2>1, <2>2, <2>3, <2>4, <2>5, Assemble
<1>8. Forward'
  BY <1>2, <1>4, <1>5, <1>6, ForwardKept DEF agentVars
<1> QED  BY <1>7, <1>8 DEF IInv

------------------------------------------------------------------------------
(* What leaves the calls and the workers alone. *)

LEMMA QuietInv ==
  ASSUME IInv, UNCHANGED <<agentVars, report, worker, call, pending, topoVars>>,
         stream' \in [RealmDevices -> Seq([port : InPorts, link : Ingress \cup {NoLink}])],
         monitor' \in [RealmDevices -> {"off", "starting", "on", "dead"}],
         agentDevices' \in SUBSET Devices, Fault \/ UNCHANGED faults,
         \A d \in RealmDevices :
           call[<<d, "monitor">>].pc # "none" => monitor'[d] = monitor[d]
  PROVE  IInv'
<1> TypeOK
  BY DEF IInv
<1>1. CallsFit(call', worker', monitor')
  BY Fit DEF CallsFit
<1>2. TypeOK'
  BY <1>1, FaultType, Assemble DEF TypeOK, topoVars
<1>3. Forward'
  BY ForwardKept DEF agentVars
<1> QED  BY <1>2, <1>3 DEF IInv

LEMMA RegisterAgentInv ==
  ASSUME IInv, NEW d \in NeighborDevices, RegisterAgent(d)
  PROVE  IInv'
  BY QuietInv DEF RegisterAgent, IInv, TypeOK, Devices

LEMMA SubscribeInv ==
  ASSUME IInv, NEW d \in RealmDevices, Subscribe(d)
  PROVE  IInv'
<1>1. \A e \in RealmDevices : call[<<e, "monitor">>].pc # "none" => monitor'[e] = monitor[e]
  BY DEF Subscribe, IInv, TypeOK, CallIs
<1> QED  BY <1>1, QuietInv DEF Subscribe, IInv, TypeOK, reconcilerVars

LEMMA MonitorEndsInv ==
  ASSUME IInv, NEW d \in RealmDevices, MonitorEnds(d)
  PROVE  IInv'
<1>1. \A e \in RealmDevices : call[<<e, "monitor">>].pc # "none" => monitor'[e] = monitor[e]
  BY DEF MonitorEnds, MonitorBusy, IInv, TypeOK, CallIs
<1>2. stream' \in [RealmDevices -> Seq([port : InPorts, link : Ingress \cup {NoLink}])]
  <2> DEFINE S == [port : InPorts, link : Ingress \cup {NoLink}]
  <2>1. stream \in [RealmDevices -> Seq(S)] /\ stream' = [stream EXCEPT ![d] = <<>>]
    BY DEF MonitorEnds, IInv, TypeOK
  <2> HIDE DEF S
  <2>2. stream' \in [RealmDevices -> Seq(S)]
    BY <2>1
  <2> QED  BY <2>2 DEF S
<1> QED  BY <1>1, <1>2, QuietInv DEF MonitorEnds, IInv, TypeOK, reconcilerVars

------------------------------------------------------------------------------
(* The agents change, and time goes on: what was typed still is. *)

LEMMA AgentChangeInv ==
  ASSUME IInv, NEW i \in InPorts, AgentChange(i)
  PROVE  IInv'
<1> TypeOK
  BY DEF IInv
<1>1. /\ clock \in Nat /\ clock' = clock + 2
      /\ clock' \in {2 * n : n \in 0..MaxChanges}
  <2>1. PICK n \in 0..MaxChanges : clock = 2 * n
    BY DEF TypeOK
  <2>2. n + 1 \in 0..MaxChanges /\ clock + 2 = 2 * (n + 1)
    BY <2>1, LinkAssumption DEF AgentChange
  <2> QED  BY <2>1, <2>2 DEF AgentChange
<1>2. Past \subseteq Past' /\ clock' + AgentSkew[DeviceOf[i]] \in Past'
  BY <1>1, LinkAssumption DEF Past
<1>3. /\ Aspect \subseteq Aspect' /\ Ingress \subseteq Ingress' /\ Held \subseteq Held'
  BY <1>2 DEF Aspect, Ingress, Held
<1>4. UNCHANGED <<report, monitor, agentDevices, pending, worker, call, entity, originates,
                  terminates, faults>>
  BY DEF AgentChange, reconcilerVars, topoVars
<1>5. PICK link \in {NoLink} \cup [out : OutPorts, ct : {clock' + AgentSkew[DeviceOf[i]]}] :
        /\ agent' = [agent EXCEPT ![i] = link]
        /\ stream' = IF monitor[DeviceOf[i]] = "on"
                     THEN [stream EXCEPT ![DeviceOf[i]] = Append(@, [port |-> i, link |-> link])]
                     ELSE stream
  BY DEF AgentChange
<1>6. link \in Ingress' \cup {NoLink}
  BY <1>2, <1>5 DEF Ingress
<1>7. agent' \in [InPorts -> Ingress \cup {NoLink}]'
  BY <1>3, <1>5, <1>6 DEF TypeOK
<1>8. stream' \in [RealmDevices -> Seq([port : InPorts, link : Ingress \cup {NoLink}])]'
  <2> DEFINE S == [port : InPorts, link : Ingress \cup {NoLink}]
             T == [port : InPorts, link : Ingress' \cup {NoLink}]
  <2>1. S \subseteq T /\ [port |-> i, link |-> link] \in T
    BY <1>3, <1>6
  <2>2. DeviceOf[i] \in RealmDevices
    BY LinkAssumption
  <2>3. \A d \in RealmDevices : stream[d] \in Seq(S)
    BY DEF TypeOK
  <2> HIDE DEF S, T
  <2>4. \A d \in RealmDevices : stream[d] \in Seq(T)
    BY <2>1, <2>3
  <2>5. stream' \in [RealmDevices -> Seq(T)]
    BY <1>5, <2>1, <2>2, <2>4 DEF TypeOK
  <2> QED  BY <2>5 DEF T
<1>9. /\ report' \in [InPorts -> Ingress \cup {NoLink}]'
      /\ pending' \in SUBSET Held' /\ entity' \in [Link -> Aspect \cup {None}]'
  BY <1>3, <1>4 DEF TypeOK
<1>10. \A a \in Callers : CallOK(call[a])'
  BY <1>3, <1>4 DEF TypeOK, CallOK
<1>11. ASSUME NEW d \in RealmDevices
       PROVE  WorkerOK(d, worker[d])'
  <2>1. WorkerOK(d, worker[d]) /\ worker' = worker
    BY <1>4 DEF TypeOK
  <2>2. /\ [PortsOf(d) -> Ingress \cup {NoLink}] \subseteq [PortsOf(d) -> Ingress \cup {NoLink}]'
        /\ SUBSET Held \subseteq SUBSET Held'
    BY <1>3
  <2> QED  BY <1>3, <2>1, <2>2 DEF WorkerOK
<1>12. TypeOK'
  <2>1. \A d \in RealmDevices :
          /\ CallIs(<<d, "worker">>, "none")' \/ worker'[d].pc = "links"
          /\ CallIs(<<d, "monitor">>, "none")' \/ monitor'[d] = "on"
    BY <1>4 DEF TypeOK, CallIs
  <2> QED  BY <1>1, <1>4, <1>7, <1>8, <1>9, <1>10, <1>11, <2>1 DEF TypeOK
<1>13. Forward'
  BY <1>3, <1>4 DEF IInv, Forward, MarksForward, CallIs, WorkerIs
<1> QED  BY <1>12, <1>13 DEF IInv

------------------------------------------------------------------------------
(* The start and the restart. *)

LEMMA Rested ==
  /\ CallOK(NoCall) /\ NoCall.pc = "none"
  /\ \A d \in RealmDevices : WorkerOK(d, IdleWorker)
  /\ IdleWorker.pc = "idle"
<1>1. CallOK(NoCall) /\ NoCall.pc = "none"
  BY DEF CallOK, NoCall, CallPcs, Status
<1>2. \A d \in RealmDevices : WorkerOK(d, IdleWorker)
  BY DEF WorkerOK, IdleWorker, WorkerPcs
<1> QED  BY <1>1, <1>2 DEF IdleWorker

LEMMA CrashInv ==
  ASSUME IInv, Crash
  PROVE  IInv'
<1> TypeOK
  BY DEF IInv
<1>1. /\ \A a \in Callers : call'[a] = NoCall
      /\ \A d \in RealmDevices : worker'[d] = IdleWorker
      /\ worker' = [d \in RealmDevices |-> worker'[d]] /\ call' = [a \in Callers |-> call'[a]]
  BY DEF Crash
<1>2. /\ UNCHANGED <<agentVars, entity, originates, terminates>> /\ Fault
      /\ stream' \in [RealmDevices -> Seq([port : InPorts, link : Ingress \cup {NoLink}])]
      /\ report' \in [InPorts -> Ingress \cup {NoLink}]
      /\ monitor' \in [RealmDevices -> {"off", "starting", "on", "dead"}]
      /\ agentDevices' \in SUBSET Devices /\ pending' \in SUBSET Held
      /\ entity' \in [Link -> Aspect \cup {None}]
  BY DEF Crash, topoVars, TypeOK
<1>3. faults' \in 0..MaxFaults
  BY <1>2, FaultType
<1>4. CallsFit(call', worker', monitor')
  <2>1. \A e \in RealmDevices : <<e, "worker">> \in Callers /\ <<e, "monitor">> \in Callers
    BY DEF Callers
  <2> QED  BY <1>1, <2>1, Rested DEF CallsFit
<1>5. TypeOK'
  BY <1>1, <1>2, <1>3, <1>4, Rested, Assemble
<1>6. Forward'
  BY <1>1, <1>2, Rested, ForwardKept DEF agentVars
<1> QED  BY <1>5, <1>6 DEF IInv

LEMMA Starts == Init => IInv
<1> SUFFICES ASSUME Init PROVE IInv
  OBVIOUS
<1>1. clock = 0
  BY DEF Init
<1>2. agent \in [InPorts -> Ingress \cup {NoLink}]
  BY DEF Init
<1>3. clock \in {2 * n : n \in 0..MaxChanges} /\ faults \in 0..MaxFaults
  BY LinkAssumption DEF Init
<1>4. /\ \A a \in Callers : call[a] = NoCall
      /\ \A d \in RealmDevices : worker[d] = IdleWorker
      /\ worker = [d \in RealmDevices |-> worker[d]] /\ call = [a \in Callers |-> call[a]]
  BY DEF Init
<1>5. TypeOK
  <2>1. \A e \in RealmDevices : <<e, "worker">> \in Callers /\ <<e, "monitor">> \in Callers
    BY DEF Callers
  <2>2. /\ \A a \in Callers : CallOK(call[a])
        /\ \A d \in RealmDevices :
             /\ WorkerOK(d, worker[d])
             /\ CallIs(<<d, "worker">>, "none") \/ worker[d].pc = "links"
             /\ CallIs(<<d, "monitor">>, "none") \/ monitor[d] = "on"
    BY <1>4, <2>1, Rested DEF CallIs
  <2>3. /\ stream \in [RealmDevices -> Seq([port : InPorts, link : Ingress \cup {NoLink}])]
        /\ report \in [InPorts -> Ingress \cup {NoLink}]
        /\ monitor \in [RealmDevices -> {"off", "starting", "on", "dead"}]
        /\ agentDevices \in SUBSET Devices /\ pending \in SUBSET Held
        /\ entity \in [Link -> Aspect \cup {None}]
        /\ originates \in SUBSET Link /\ terminates \in SUBSET Link
    BY DEF Init
  <2> QED  BY <1>2, <1>3, <1>4, <2>2, <2>3 DEF TypeOK
<1>6. Forward
  BY <1>4, Rested DEF Forward, CallIs, WorkerIs
<1> QED  BY <1>5, <1>6 DEF IInv

------------------------------------------------------------------------------
(* The theorems. *)

LEMMA Inductive ==
  ASSUME IInv, [Next]_vars
  PROVE  IInv'
<1>1. CASE UNCHANGED vars
  <2>1. /\ Past' = Past /\ Aspect' = Aspect /\ Ingress' = Ingress /\ Held' = Held
    BY <1>1, SameTime DEF vars, agentVars
  <2>2. /\ \A a \in Callers : CallOK(call[a])' <=> CallOK(call[a])
        /\ \A d \in RealmDevices : WorkerOK(d, worker[d])' <=> WorkerOK(d, worker[d])
    BY <1>1, <2>1 DEF vars, CallOK, WorkerOK
  <2> QED
    BY <1>1, <2>1, <2>2 DEF vars, agentVars, reconcilerVars, topoVars, IInv, TypeOK, Forward,
                            MarksForward, CallIs, WorkerIs
<1>2. ASSUME NEW d \in RealmDevices, WorkerStep(d)
      PROVE  IInv'
  <2>1. <<d, "worker">> \in Callers
    BY DEF Callers
  <2> QED  BY <1>2, <2>1, QuietWorkerInv, MarkDownInv, RegisterReportInv, NextLinkInv,
              SwapReportInv, ReconcileStepInv DEF WorkerStep
<1>3. ASSUME NEW d \in RealmDevices, MonitorStep(d)
      PROVE  IInv'
  <2>1. <<d, "monitor">> \in Callers
    BY DEF Callers
  <2> QED  BY <1>3, <2>1, SubscribeInv, MonitorRecvInv, ReconcileStepInv DEF MonitorStep
<1> QED
  BY <1>1, <1>2, <1>3, MonitorEndsInv, RegisterAgentInv, AgentChangeInv, CrashInv DEF Next

\* In every reachable state the variables, the workers and the calls are well
\* formed, nothing in them is later than the clock that is furthest ahead, and a caller
\* runs only where its worker or monitor does (links_reconciler.go, links.go).
THEOREM TypeCorrect == SafeSpec => []TypeOK
<1>1. IInv /\ [Next]_vars => IInv'
  BY Inductive
<1>2. IInv => TypeOK
  BY DEF IInv
<1> QED  BY Starts, <1>1, <1>2, PTL DEF SafeSpec

\* If no agent's clock is ahead of the controller's, then whatever the workers and
\* the monitors of any number of devices do at the same time, and however often
\* they fail or the process restarts, an entity is never deleted and its time
\* never goes back: the comparison of updateLinkIfNeeded and the revision that
\* onos-topo checks are enough for that.  updateDownedIngressLink compares nothing
\* and needs the hypothesis.
THEOREM NoEntityGoesBack ==
  ASSUME ControllerSkew = MaxSkew
  PROVE  SafeSpec => LastChangeNeverGoesBack
<1> DEFINE Step == \A l \in Link : entity[l] # None =>
                     entity'[l] # None /\ entity'[l].last >= entity[l].last
<1>1. ASSUME IInv, [Next]_vars
      PROVE  Step
  <2> SUFFICES ASSUME NEW l \in Link, entity[l] # None
               PROVE  entity'[l] # None /\ entity'[l].last >= entity[l].last
    OBVIOUS
  <2> TypeOK
    BY <1>1 DEF IInv
  <2>1. entity[l] \in Aspect /\ entity[l].last \in Nat
    BY NowIsPast DEF TypeOK, Aspect
  <2>2. CASE entity'[l] = entity[l]
    BY <2>1, <2>2
  <2>3. ASSUME NEW a \in Callers, CreateLink(a)
        PROVE  entity'[l] = entity[l]
    BY <2>3 DEF CreateLink, TypeOK
  <2>4. ASSUME NEW a \in Callers, UpdateLink(a), entity'[l] # entity[l]
        PROVE  entity'[l] # None /\ entity'[l].last >= entity[l].last
    <3>1. /\ entity[l] = call[a].seen /\ entity'[l] = call[a].want
          /\ call[a].pc = "update"
      BY <2>4 DEF UpdateLink, CallIs, TypeOK
    <3>2. CallOK(call[a]) /\ call[a].want \in Aspect
      BY <3>1 DEF TypeOK, CallOK
    <3>3. call[a].seen.last < call[a].want.last
      BY <1>1, <3>1 DEF IInv, Forward, CallIs
    <3>4. call[a].want.last \in Nat /\ call[a].want # None
      BY <3>2, NowIsPast, NoneIsNoAspect DEF Aspect
    <3> QED  BY <2>1, <3>1, <3>3, <3>4
  <2>5. ASSUME NEW d \in RealmDevices, MarkDown(d), entity'[l] # entity[l]
        PROVE  entity'[l] # None /\ entity'[l].last >= entity[l].last
    <3>1. /\ entity[l] = worker[d].seen /\ entity'[l] = worker[d].want
          /\ worker[d].pc = "markDown"
      BY <2>5 DEF MarkDown, WorkerIs, TypeOK
    <3>2. worker[d].want \in Aspect
      BY <3>1, WorkerType DEF WorkerOK
    <3>3. worker[d].seen.last <= worker[d].want.last
      BY <1>1, <2>1, <3>1, NoneIsNoAspect DEF IInv, Forward, MarksForward, NoneAhead, WorkerIs
    <3>4. worker[d].want.last \in Nat /\ worker[d].want # None
      BY <3>2, NowIsPast, NoneIsNoAspect DEF Aspect
    <3> QED  BY <2>1, <3>1, <3>3, <3>4
  <2>6. ASSUME NEW a \in Callers, ReconcileStep(a)
        PROVE  CreateLink(a) \/ UpdateLink(a) \/ entity' = entity
    BY <2>6 DEF ReconcileStep, Resolve, Park, GetLink, CreateOriginates, CreateTerminates,
                CallFails, topoVars
  <2>7. ASSUME NEW d \in RealmDevices, WorkerStep(d)
        PROVE  MarkDown(d) \/ ReconcileStep(<<d, "worker">>) \/ entity' = entity
    BY <2>7 DEF WorkerStep, FetchLinks, SwapReport, RegisterReport, NextLink, QueryPorts,
                CheckPort, QueryDowned, ReadFails, DiscoverEnds, topoVars
  <2>8. ASSUME NEW d \in RealmDevices, MonitorStep(d)
        PROVE  ReconcileStep(<<d, "monitor">>) \/ entity' = entity
    BY <2>8 DEF MonitorStep, Subscribe, MonitorRecv, topoVars
  <2>9. \A d \in RealmDevices : <<d, "worker">> \in Callers /\ <<d, "monitor">> \in Callers
    BY DEF Callers
  <2>10. \/ \E d \in RealmDevices : MarkDown(d)
         \/ \E a \in Callers : ReconcileStep(a)
         \/ entity' = entity
    <3>1. ASSUME \/ \E d \in RealmDevices : MonitorEnds(d)
                 \/ \E d \in NeighborDevices : RegisterAgent(d)
                 \/ \E i \in InPorts : AgentChange(i)
                 \/ Crash
          PROVE  entity' = entity
      BY <3>1 DEF MonitorEnds, RegisterAgent, AgentChange, Crash, topoVars
    <3> QED  BY <1>1, <2>7, <2>8, <2>9, <3>1 DEF Next, vars, topoVars
  <2> QED  BY <2>2, <2>3, <2>4, <2>5, <2>6, <2>10
<1>2. IInv /\ [Next]_vars => IInv'
  BY Inductive
<1>3. IInv /\ [Next]_vars => [Step]_vars
  BY <1>1
<1> QED  BY Starts, <1>2, <1>3, PTL DEF SafeSpec, LastChangeNeverGoesBack

==============================================================================
