-------------------------- MODULE LinkTopologyProofs --------------------------
(***************************************************************************)
(* Proofs about what LinkReconciler makes of the links in onos-topo, for   *)
(* any devices, ports and bounds: that it implements TopoLinks, that,      *)
(* without failures, a link that lacks a relation is in hand, and that a   *)
(* link that has never changed is never DOWN.                              *)
(*                                                                         *)
(* Ordered adds to the invariant of LinkReconcilerProofs what the order of *)
(* the calls to onos-topo is good for: whoever is about to create a        *)
(* relation finds what it needs, and who marks a link DOWN has read it UP. *)
(* SteadyInv follows a link that never changes through the reports, the    *)
(* parked links, the workers and the calls: none of them has anything else *)
(* for its port, and a worker that looks for downed links has it.          *)
(***************************************************************************)
EXTENDS LinkReconcilerProofs

Ordered ==
  /\ \A l \in terminates : l \in originates
  /\ \A l \in originates : Exists(l)
  /\ \A a \in Callers :
       /\ CallIs(a, "create") => call[a].want.status = "UP"
       /\ call[a].pc \in {"originates", "terminates"} => Exists(IdOfCall(a))
       /\ CallIs(a, "terminates") => IdOfCall(a) \in originates
  /\ \A d \in RealmDevices :
       WorkerIs(d, "markDown") =>
         worker[d].seen # None /\ worker[d].seen.status = "UP" /\ worker[d].want.status = "DOWN"

OInv == IInv /\ Ordered

------------------------------------------------------------------------------
(* The steps that leave onos-topo alone. *)

\* The call of a goes on with the same link, or it ends or begins.
CallKept(a) ==
  /\ call'[a].pc = call[a].pc
  /\ IdOf(call'[a].link) = IdOf(call[a].link)
  /\ call'[a].want = call[a].want

CallSwitched(a) ==
  /\ call'[a].pc \in {"none", "resolve"}
  /\ CallIs(a, "none") \/ faults' > 0

MarkingKept(d) ==
  worker'[d].pc = "markDown" =>
    \/ worker[d].pc = "markDown" /\ worker'[d].seen = worker[d].seen
                                 /\ worker'[d].want = worker[d].want
    \/ worker'[d].seen # None /\ worker'[d].seen.status = "UP"
                              /\ worker'[d].want.status = "DOWN"

Aside ==
  /\ UNCHANGED topoVars
  /\ \A a \in Callers : CallKept(a) \/ CallSwitched(a)
  /\ \A d \in RealmDevices : MarkingKept(d)

\* A link that leaves the report keeps its ports.
LEMMA DetachedId ==
  ASSUME NEW x \in Held, NEW P, NEW stamp
  PROVE  IdOf(Detached(x, P, stamp)) = IdOf(x)
  BY DEF Detached, IdOf, Held

LEMMA CallsWithoutKept ==
  ASSUME TypeOK, NEW a \in Callers, NEW P, NEW stamp
  PROVE  /\ CallsWithout(P, stamp)[a].pc = call[a].pc
         /\ IdOf(CallsWithout(P, stamp)[a].link) = IdOf(call[a].link)
         /\ CallsWithout(P, stamp)[a].want = call[a].want
<1>1. CASE CallIs(a, "none")
  BY <1>1 DEF CallsWithout
<1>2. CASE ~CallIs(a, "none")
  <2>1. CallOK(call[a]) /\ call[a].link \in Held
    BY <1>2, CallType
  <2> DEFINE y == Detached(call[a].link, P, stamp)
  <2>2. IdOf(y) = IdOf(call[a].link)
    BY <2>1, DetachedId
  <2>3. CallsWithout(P, stamp)[a] = [call[a] EXCEPT !.link = y]
    BY <1>2 DEF CallsWithout
  <2> HIDE DEF y
  <2> QED  BY <2>1, <2>2, <2>3 DEF CallOK
<1> QED  BY <1>1, <1>2

LEMMA WorkersWithoutKept ==
  ASSUME TypeOK, NEW d \in RealmDevices, NEW P, NEW stamp
  PROVE  LET w == WorkersWithout(P, stamp)[d]
         IN  w.pc = worker[d].pc /\ w.seen = worker[d].seen /\ w.want = worker[d].want
<1> DEFINE T == {Detached(x, P, stamp) : x \in worker[d].todo}
<1>1. WorkersWithout(P, stamp)[d] = [worker[d] EXCEPT !.todo = T]
  BY DEF WorkersWithout
<1>2. WorkerOK(d, worker[d])
  BY WorkerType
<1> HIDE DEF T
<1> QED  BY <1>1, <1>2 DEF WorkerOK

LEMMA WorkerAside ==
  ASSUME OInv, NEW d \in RealmDevices, WorkerStep(d)
  PROVE  Aside \/ MarkDown(d) \/ ReconcileStep(<<d, "worker">>)
<1> TypeOK
  BY DEF OInv, IInv
<1>0. /\ WorkerOK(d, worker[d])
      /\ \A e \in RealmDevices : worker[e].pc \in WorkerPcs
  BY DEF TypeOK, WorkerOK
<1>1. ASSUME UNCHANGED <<topoVars, call>>,
             NEW w, worker' = [worker EXCEPT ![d] = w], w.pc # "markDown"
      PROVE  Aside
  <2>1. \A e \in RealmDevices : worker'[e] = IF e = d THEN w ELSE worker[e]
    BY <1>1 DEF TypeOK
  <2> QED  BY <1>1, <2>1 DEF Aside, CallKept, MarkingKept
<1>2. CASE FetchLinks(d)
  <2>1. [worker[d] EXCEPT !.pc = "fetched", !.got = [i \in PortsOf(d) |-> agent[i]]].pc
          # "markDown"
    BY <1>0 DEF WorkerOK
  <2> QED  BY <1>1, <1>2, <2>1 DEF FetchLinks
<1>3. CASE SwapReport(d)
  <2>1. \A a \in Callers : CallKept(a)
    BY <1>3, CallsWithoutKept DEF SwapReport, CallKept
  <2>2. \A e \in RealmDevices : MarkingKept(e)
    <3> DEFINE W == WorkersWithout(PortsOf(d), None)
    <3>1. worker' = [W EXCEPT ![d].pc = "register", ![d].got = None]
      BY <1>3 DEF SwapReport
    <3>2. W = [e \in RealmDevices |-> W[e]]
      BY DEF WorkersWithout
    <3>3. \A e \in RealmDevices :
            W[e].pc = worker[e].pc /\ W[e].seen = worker[e].seen /\ W[e].want = worker[e].want
      BY WorkersWithoutKept
    <3>4. W[d] \in [pc : WorkerPcs, got : {W[d].got}, todo : {W[d].todo}, ports : {W[d].ports},
                    port : {W[d].port}, link : {W[d].link}, seen : {W[d].seen},
                    want : {W[d].want}]
      BY <1>0 DEF WorkersWithout, WorkerOK
    <3> HIDE DEF W
    <3>5. \A e \in RealmDevices : e # d => worker'[e] = W[e]
      BY <3>1, <3>2
    <3>6. worker'[d].pc = "register"
      BY <3>1, <3>2, <3>4
    <3> QED  BY <3>3, <3>5, <3>6 DEF MarkingKept
  <2> QED  BY <1>3, <2>1, <2>2 DEF SwapReport, Aside
<1>4. CASE RegisterReport(d)
  <2>1. PICK T : worker' = [worker EXCEPT ![d].pc = "links", ![d].todo = T]
    BY <1>4 DEF RegisterReport
  <2> DEFINE w == [worker[d] EXCEPT !.pc = "links", !.todo = T]
  <2>2. w.pc # "markDown"
    BY <1>0 DEF WorkerOK
  <2>3. worker' = [worker EXCEPT ![d] = w]
    BY <2>1
  <2>4. UNCHANGED <<topoVars, call>>
    BY <1>4 DEF RegisterReport
  <2> HIDE DEF w
  <2> QED  BY <1>1, <2>2, <2>3, <2>4
<1>5. CASE NextLink(d)
  <2>1. \A a \in Callers : CallKept(a) \/ CallSwitched(a)
    BY <1>5 DEF NextLink, CallKept, CallSwitched, NoCall, CallIs, TypeOK
  <2>2. PICK x : worker' = [worker EXCEPT ![d].todo = worker[d].todo \ {x}]
    BY <1>5 DEF NextLink
  <2>3. \A e \in RealmDevices : MarkingKept(e)
    BY <1>0, <1>5, <2>2 DEF MarkingKept, WorkerOK, TypeOK, NextLink, WorkerIs
  <2> QED  BY <1>5, <2>1, <2>3 DEF NextLink, Aside
<1>6. CASE QueryPorts(d)
  <2>1. \A T : [worker[d] EXCEPT !.pc = "ports", !.ports = T].pc # "markDown"
    BY <1>0 DEF WorkerOK
  <2> QED  BY <1>1, <1>6, <2>1 DEF QueryPorts
<1>7. CASE CheckPort(d)
  <2>1. PICK i : \/ worker' = [worker EXCEPT ![d].ports = worker[d].ports \ {i},
                                             ![d].pc = "absent", ![d].port = i]
                 \/ worker' = [worker EXCEPT ![d].ports = worker[d].ports \ {i}]
    BY <1>7 DEF CheckPort
  <2>2. worker[d].pc = "ports"
    BY <1>7 DEF CheckPort, WorkerIs
  <2> DEFINE v == [worker[d] EXCEPT !.ports = worker[d].ports \ {i}, !.pc = "absent", !.port = i]
             w == [worker[d] EXCEPT !.ports = worker[d].ports \ {i}]
  <2>3. v.pc # "markDown" /\ w.pc # "markDown"
    BY <1>0, <2>2 DEF WorkerOK
  <2>4. worker' = [worker EXCEPT ![d] = v] \/ worker' = [worker EXCEPT ![d] = w]
    BY <2>1
  <2>5. UNCHANGED <<topoVars, call>>
    BY <1>7 DEF CheckPort
  <2> HIDE DEF v, w
  <2> QED  BY <1>1, <2>3, <2>4, <2>5
<1>8. CASE QueryDowned(d)
  <2>1. PICK l \in terminates :
          worker' = IF entity[l].status = "DOWN"
                    THEN [worker EXCEPT ![d].pc = "ports", ![d].port = None]
                    ELSE [worker EXCEPT ![d].pc = "markDown", ![d].port = None, ![d].link = l,
                                        ![d].seen = entity[l],
                                        ![d].want = [status |-> "DOWN", last |-> Now]]
    BY <1>8 DEF QueryDowned
  <2>2. entity[l] \in Aspect /\ entity[l] # None
    BY DEF OInv, Ordered, Exists, TypeOK
  <2>3. entity[l].status # "DOWN" => entity[l].status = "UP"
    BY <2>2 DEF Aspect, Status
  <2> DEFINE w == [worker[d] EXCEPT !.pc = "markDown", !.port = None, !.link = l,
                     !.seen = entity[l], !.want = [status |-> "DOWN", last |-> Now]]
  <2>4. CASE entity[l].status = "DOWN"
    <3> DEFINE v == [worker[d] EXCEPT !.pc = "ports", !.port = None]
    <3>1. v.pc # "markDown"
      BY <1>0 DEF WorkerOK
    <3>2. worker' = [worker EXCEPT ![d] = v]
      BY <2>1, <2>4
    <3>3. UNCHANGED <<topoVars, call>>
      BY <1>8 DEF QueryDowned
    <3> HIDE DEF v
    <3> QED  BY <1>1, <3>1, <3>2, <3>3
  <2>5. CASE entity[l].status # "DOWN"
    <3>1. w.seen = entity[l] /\ w.want.status = "DOWN"
      BY <1>0 DEF WorkerOK
    <3>2. worker' = [worker EXCEPT ![d] = w]
      BY <2>1, <2>5
    <3> HIDE DEF w
    <3>3. \A e \in RealmDevices : worker'[e] = IF e = d THEN w ELSE worker[e]
      BY <3>2 DEF TypeOK
    <3>4. \A e \in RealmDevices : MarkingKept(e)
      BY <2>2, <2>3, <2>5, <3>1, <3>3 DEF MarkingKept
    <3> QED  BY <1>8, <3>4 DEF QueryDowned, Aside, CallKept
  <2> QED  BY <2>4, <2>5
<1>9. CASE DiscoverEnds(d) \/ ReadFails(d)
  <2> DEFINE w == [worker[d] EXCEPT !.pc = "ports", !.port = None]
  <2>1. IdleWorker.pc # "markDown" /\ w.pc # "markDown"
    BY <1>0 DEF IdleWorker, WorkerOK
  <2>2. worker' = [worker EXCEPT ![d] = IdleWorker] \/ worker' = [worker EXCEPT ![d] = w]
    BY <1>9 DEF DiscoverEnds, ReadFails
  <2>3. UNCHANGED <<topoVars, call>>
    BY <1>9 DEF DiscoverEnds, ReadFails
  <2> HIDE DEF w
  <2> QED  BY <1>1, <2>1, <2>2, <2>3
<1> QED
  BY <1>2, <1>3, <1>4, <1>5, <1>6, <1>7, <1>8, <1>9 DEF WorkerStep

LEMMA MonitorAside ==
  ASSUME OInv, NEW d \in RealmDevices, MonitorStep(d)
  PROVE  Aside \/ ReconcileStep(<<d, "monitor">>)
<1> TypeOK
  BY DEF OInv, IInv
<1>1. CASE Subscribe(d)
  BY <1>1 DEF Subscribe, Aside, CallKept, MarkingKept
<1>2. CASE MonitorRecv(d)
  <2>1. PICK P, stamp, c :
          /\ worker' = WorkersWithout(P, stamp)
          /\ call' = [CallsWithout(P, stamp) EXCEPT ![<<d, "monitor">>] = c]
          /\ c.pc = "resolve"
    <3> DEFINE n == Head(stream[d])
               deleted == n.link = NoLink
               stamp == IF deleted THEN Now ELSE None
               link == IF deleted
                       THEN [out |-> IF report[n.port] = NoLink THEN NoLink
                                     ELSE report[n.port].out,
                             in |-> n.port, ct |-> Now, live |-> FALSE]
                       ELSE [out |-> n.link.out, in |-> n.port, ct |-> n.link.ct, live |-> TRUE]
               c == [NoCall EXCEPT !.pc = "resolve", !.link = link,
                                   !.status = IF deleted THEN "DOWN" ELSE "UP"]
    <3>1. c.pc = "resolve"
      BY DEF NoCall
    <3> QED  BY <1>2, <3>1 DEF MonitorRecv
  <2>2. CallsWithout(P, stamp) = [a \in Callers |-> CallsWithout(P, stamp)[a]]
    BY DEF CallsWithout
  <2>3. \A a \in Callers : CallKept(a) \/ CallSwitched(a)
    <3>1. CallIs(<<d, "monitor">>, "none") /\ <<d, "monitor">> \in Callers
      BY <1>2 DEF MonitorRecv, MonitorBusy, Callers
    <3>2. \A a \in Callers :
            call'[a] = IF a = <<d, "monitor">> THEN c ELSE CallsWithout(P, stamp)[a]
      BY <2>1, <2>2, <3>1
    <3> QED  BY <2>1, <3>1, <3>2, CallsWithoutKept DEF CallKept, CallSwitched
  <2>4. \A e \in RealmDevices : MarkingKept(e)
    BY <2>1, WorkersWithoutKept DEF MarkingKept
  <2> QED  BY <1>2, <2>3, <2>4 DEF MonitorRecv, Aside
<1> QED  BY <1>1, <1>2 DEF MonitorStep

LEMMA StepAside ==
  ASSUME OInv, [Next]_vars
  PROVE  \/ Aside
         \/ \E d \in RealmDevices : MarkDown(d)
         \/ \E a \in Callers : ReconcileStep(a)
<1>1. CASE UNCHANGED vars
  BY <1>1 DEF vars, Aside, CallKept, MarkingKept
<1>2. \A d \in RealmDevices : <<d, "worker">> \in Callers /\ <<d, "monitor">> \in Callers
  BY DEF Callers
<1>3. ASSUME NEW d \in RealmDevices, MonitorEnds(d)
      PROVE  Aside
  BY <1>3 DEF MonitorEnds, Aside, CallKept, MarkingKept
<1>4. ASSUME NEW d \in NeighborDevices, RegisterAgent(d)
      PROVE  Aside
  BY <1>4 DEF RegisterAgent, Aside, CallKept, MarkingKept
<1>5. ASSUME NEW i \in InPorts, AgentChange(i)
      PROVE  Aside
  BY <1>5 DEF AgentChange, Aside, CallKept, MarkingKept
<1>6. CASE Crash
  <2>1. faults' > 0
    BY <1>6 DEF Crash, Fault, OInv, IInv, TypeOK
  <2> QED  BY <1>6, <2>1 DEF Crash, Aside, CallSwitched, NoCall, MarkingKept, IdleWorker
<1> QED
  BY <1>1, <1>2, <1>3, <1>4, <1>5, <1>6, WorkerAside, MonitorAside DEF Next

------------------------------------------------------------------------------
(* Ordered is inductive. *)

LEMMA AsideOrdered ==
  ASSUME OInv, Aside
  PROVE  Ordered'
<1>1. UNCHANGED <<entity, originates, terminates>>
  BY DEF Aside, topoVars
<1>2. \A a \in Callers :
        /\ CallIs(a, "create")' => call'[a].want.status = "UP"
        /\ call'[a].pc \in {"originates", "terminates"} => Exists(IdOfCall(a))'
        /\ CallIs(a, "terminates")' => IdOfCall(a)' \in originates'
  <2> SUFFICES ASSUME NEW a \in Callers
               PROVE  /\ CallIs(a, "create")' => call'[a].want.status = "UP"
                      /\ call'[a].pc \in {"originates", "terminates"} => Exists(IdOfCall(a))'
                      /\ CallIs(a, "terminates")' => IdOfCall(a)' \in originates'
    OBVIOUS
  <2>1. CASE CallKept(a)
    BY <1>1, <2>1 DEF CallKept, OInv, Ordered, CallIs, Exists, IdOfCall
  <2>2. CASE CallSwitched(a)
    BY <2>2 DEF CallSwitched, CallIs
  <2> QED  BY <2>1, <2>2 DEF Aside
<1>3. \A d \in RealmDevices :
        WorkerIs(d, "markDown")' =>
          worker'[d].seen # None /\ worker'[d].seen.status = "UP"
                                 /\ worker'[d].want.status = "DOWN"
  BY DEF Aside, MarkingKept, OInv, Ordered, WorkerIs
<1> QED  BY <1>1, <1>2, <1>3 DEF OInv, Ordered, Exists

LEMMA MarkDownOrdered ==
  ASSUME OInv, NEW d \in RealmDevices, MarkDown(d)
  PROVE  /\ Ordered'
         /\ UNCHANGED <<call, originates, terminates>>
         /\ \A l \in Link : Exists(l)' <=> Exists(l)
<1> TypeOK
  BY DEF OInv, IInv
<1>1. /\ UNCHANGED <<call, originates, terminates>>
      /\ worker' = [worker EXCEPT ![d].pc = "ports", ![d].link = None, ![d].seen = None,
                                  ![d].want = None]
      /\ worker[d].pc = "markDown"
  BY DEF MarkDown, WorkerIs
<1>2. WorkerOK(d, worker[d])
  BY WorkerType
<1>3. worker[d].link \in Link /\ worker[d].want # None /\ worker[d].seen # None
  BY <1>1, <1>2, NoneIsNoAspect DEF WorkerOK, OInv, Ordered, WorkerIs
<1>4. \A l \in Link : Exists(l)' <=> Exists(l)
  <2>1. \/ entity' = entity
        \/ /\ entity' = [entity EXCEPT ![worker[d].link] = worker[d].want]
           /\ entity[worker[d].link] = worker[d].seen
    BY DEF MarkDown
  <2> QED  BY <1>3, <2>1 DEF Exists, TypeOK
<1>5. \A a \in Callers :
        call[a].pc \in {"originates", "terminates"} => IdOfCall(a) \in Link
  BY CallType DEF CallIs
<1>6. \A e \in RealmDevices : e # d => worker'[e] = worker[e]
  BY <1>1 DEF TypeOK
<1>7. worker'[d].pc = "ports"
  <2>1. worker' = [worker EXCEPT ![d] = [worker[d] EXCEPT !.pc = "ports", !.link = None,
                                                          !.seen = None, !.want = None]]
    BY <1>1
  <2>2. [worker[d] EXCEPT !.pc = "ports", !.link = None, !.seen = None, !.want = None].pc
          = "ports"
    BY <1>2 DEF WorkerOK
  <2> QED  BY <2>1, <2>2 DEF TypeOK
<1>8. originates \subseteq Link
  BY DEF TypeOK
<1>9. \A e \in RealmDevices :
        WorkerIs(e, "markDown")' =>
          worker'[e].seen # None /\ worker'[e].seen.status = "UP"
                                 /\ worker'[e].want.status = "DOWN"
  BY <1>6, <1>7 DEF OInv, Ordered, WorkerIs
<1> QED  BY <1>1, <1>4, <1>5, <1>8, <1>9 DEF OInv, Ordered, CallIs, IdOfCall

\* What a step of reconcileLink does: with the caller's own call, and with
\* onos-topo.
CallNext(a, c) == call' = [call EXCEPT ![a] = c]

LEMMA ReconcileEffect ==
  ASSUME OInv, NEW a \in Callers, ReconcileStep(a)
  PROVE  LET l == IdOfCall(a) IN
         \/ /\ UNCHANGED topoVars
            /\ call[a].pc \in {"originates", "terminates"} => faults' > 0
            /\ \E c : /\ CallNext(a, c)
                      /\ c.pc \notin {"originates", "terminates"}
                      /\ c.pc = "create" => c.want.status = "UP"
         \/ /\ CallIs(a, "create") /\ l \in Link /\ entity[l] = None
            /\ entity' = [entity EXCEPT ![l] = call[a].want]
            /\ call[a].want \in Aspect /\ call[a].want.status = "UP"
            /\ CallNext(a, [call[a] EXCEPT !.pc = "originates"])
            /\ UNCHANGED <<originates, terminates>>
         \/ /\ CallIs(a, "originates") /\ l \in Link
            /\ originates' = originates \cup {l}
            /\ CallNext(a, [call[a] EXCEPT !.pc = "terminates"])
            /\ UNCHANGED <<entity, terminates>>
         \/ /\ CallIs(a, "terminates") /\ l \in Link
            /\ terminates' = terminates \cup {l}
            /\ CallNext(a, NoCall)
            /\ UNCHANGED <<entity, originates>>
         \/ /\ CallIs(a, "update") /\ l \in Link
            /\ entity[l] = call[a].seen /\ entity[l] \in Aspect
            /\ call[a].want \in Aspect /\ entity[l].last < call[a].want.last
            /\ entity' = [entity EXCEPT ![l] = call[a].want]
            /\ CallNext(a, NoCall)
            /\ UNCHANGED <<originates, terminates>>
<1> TypeOK
  BY DEF OInv, IInv
<1> DEFINE l == IdOfCall(a)
<1>0. NoCall.pc = "none"
  BY DEF NoCall
<1>1. \A pc \in {"create", "originates", "terminates", "update"} :
        CallIs(a, pc) => CallOK(call[a]) /\ l \in Link
  BY CallType DEF CallIs
<1>2. CASE Resolve(a)
  <2>1. PICK pc \in {"get", "park"} :
          CallNext(a, NoCall) \/ CallNext(a, [call[a] EXCEPT !.pc = pc])
    BY <1>2 DEF Resolve, CallReturns, CallGoto, CallNext
  <2>2. CallOK(call[a])
    BY <1>2, CallType DEF Resolve, CallIs
  <2>3. [call[a] EXCEPT !.pc = pc].pc = pc
    BY <2>2 DEF CallOK
  <2> QED  BY <1>0, <1>2, <2>1, <2>3 DEF Resolve, CallIs
<1>3. CASE Park(a)
  BY <1>0, <1>3 DEF Park, CallReturns, CallNext, CallIs, topoVars
<1>4. CASE GetLink(a)
  <2> DEFINE w1 == [status |-> "UP", last |-> call[a].link.ct]
             w2 == [status |-> call[a].status, last |-> call[a].link.ct]
             c1 == [call[a] EXCEPT !.pc = "create", !.want = w1]
             c2 == [call[a] EXCEPT !.pc = "update", !.seen = entity[l], !.want = w2]
  <2>1. CallNext(a, c1) \/ CallNext(a, c2) \/ CallNext(a, NoCall)
    BY <1>4 DEF GetLink, CallReturns, CallNext
  <2>2. CallOK(call[a])
    BY <1>4, CallType DEF GetLink, CallIs
  <2>3. c1.pc = "create" /\ c1.want = w1 /\ w1.status = "UP" /\ c2.pc = "update"
    BY <2>2 DEF CallOK
  <2> HIDE DEF w1, w2, c1, c2
  <2> QED  BY <1>0, <1>4, <2>1, <2>3 DEF GetLink, CallIs
<1>5. CASE CreateLink(a)
  <2>1. call[a].want \in Aspect /\ call[a].want.status = "UP" /\ l \in Link
    BY <1>1, <1>5 DEF CreateLink, CallIs, CallOK, OInv, Ordered
  <2>2. CASE entity[l] = None
    BY <1>5, <2>1, <2>2 DEF CreateLink, CallGoto, CallNext
  <2>3. CASE entity[l] # None
    BY <1>0, <1>5, <2>3 DEF CreateLink, CallReturns, CallNext, CallIs, topoVars
  <2> QED  BY <2>2, <2>3
<1>6. CASE CreateOriginates(a)
  BY <1>1, <1>6 DEF CreateOriginates, CallGoto, CallNext
<1>7. CASE CreateTerminates(a)
  BY <1>1, <1>7 DEF CreateTerminates, CallReturns, CallNext
<1>8. CASE UpdateLink(a)
  <2>1. call[a].want \in Aspect /\ l \in Link /\ call[a].seen \in Aspect
          /\ call[a].seen.last < call[a].want.last
    BY <1>1, <1>8 DEF UpdateLink, CallIs, CallOK, OInv, IInv, Forward
  <2>2. CASE entity[l] = call[a].seen
    BY <1>8, <2>1, <2>2 DEF UpdateLink, CallReturns, CallNext
  <2>3. CASE entity[l] # call[a].seen
    BY <1>0, <1>8, <2>3 DEF UpdateLink, CallReturns, CallNext, CallIs, topoVars
  <2> QED  BY <2>2, <2>3
<1>9. CASE CallFails(a)
  <2>1. faults' > 0
    BY <1>9 DEF CallFails, Fault, TypeOK
  <2> QED  BY <1>0, <1>9, <2>1 DEF CallFails, CallReturns, CallNext
<1> QED
  BY <1>2, <1>3, <1>4, <1>5, <1>6, <1>7, <1>8, <1>9 DEF ReconcileStep

LEMMA ReconcileOrdered ==
  ASSUME OInv, NEW a \in Callers, ReconcileStep(a)
  PROVE  Ordered'
<1> TypeOK
  BY DEF OInv, IInv
<1> DEFINE l == IdOfCall(a)
<1>0. UNCHANGED worker
  BY DEF ReconcileStep, Resolve, Park, GetLink, CreateLink, CreateOriginates,
         CreateTerminates, UpdateLink, CallFails
<1>1. ASSUME NEW c, CallNext(a, c), c.pc = "create" => c.want.status = "UP",
             c.pc \in {"originates", "terminates"} => entity'[IdOf(c.link)] # None,
             c.pc = "terminates" => IdOf(c.link) \in originates',
             \A k \in Link : entity[k] # None => entity'[k] # None,
             originates \subseteq originates',
             \A k \in originates' : entity'[k] # None,
             \A k \in terminates' : k \in originates'
      PROVE  Ordered'
  <2>1. \A b \in Callers : call'[b] = IF b = a THEN c ELSE call[b]
    BY <1>1 DEF CallNext, TypeOK
  <2>2. \A b \in Callers :
          call[b].pc \in {"originates", "terminates"} => IdOfCall(b) \in Link
    BY CallType DEF CallIs
  <2>3. \A b \in Callers :
          /\ CallIs(b, "create")' => call'[b].want.status = "UP"
          /\ call'[b].pc \in {"originates", "terminates"} => Exists(IdOfCall(b))'
          /\ CallIs(b, "terminates")' => IdOfCall(b)' \in originates'
    BY <1>1, <2>1, <2>2 DEF OInv, Ordered, Exists, CallIs, IdOfCall
  <2> QED  BY <1>0, <1>1, <2>3 DEF OInv, Ordered, Exists, WorkerIs
<1>2. CASE /\ UNCHANGED topoVars
           /\ \E c : /\ CallNext(a, c)
                     /\ c.pc \notin {"originates", "terminates"}
                     /\ c.pc = "create" => c.want.status = "UP"
  BY <1>1, <1>2 DEF topoVars, OInv, Ordered, Exists
<1>3. CASE /\ CallIs(a, "create") /\ l \in Link /\ entity[l] = None
           /\ entity' = [entity EXCEPT ![l] = call[a].want]
           /\ call[a].want \in Aspect /\ call[a].want.status = "UP"
           /\ CallNext(a, [call[a] EXCEPT !.pc = "originates"])
           /\ UNCHANGED <<originates, terminates>>
  <2> DEFINE c == [call[a] EXCEPT !.pc = "originates"]
  <2>1. c.pc = "originates" /\ IdOf(c.link) = l
    BY <1>3, CallType DEF CallIs, CallOK, IdOfCall
  <2>2. entity'[l] # None /\ \A k \in Link : entity[k] # None => entity'[k] # None
    BY <1>3, NoneIsNoAspect DEF TypeOK
  <2>3. \A k \in originates' : entity'[k] # None
    BY <1>3, <2>2 DEF OInv, Ordered, Exists, TypeOK
  <2> HIDE DEF c, l
  <2> QED  BY <1>1, <1>3, <2>1, <2>2, <2>3 DEF c, OInv, Ordered, Exists
<1>4. CASE /\ CallIs(a, "originates") /\ l \in Link
           /\ originates' = originates \cup {l}
           /\ CallNext(a, [call[a] EXCEPT !.pc = "terminates"])
           /\ UNCHANGED <<entity, terminates>>
  <2> DEFINE c == [call[a] EXCEPT !.pc = "terminates"]
  <2>1. c.pc = "terminates" /\ IdOf(c.link) = l
    BY <1>4, CallType DEF CallIs, CallOK, IdOfCall
  <2>2. entity'[l] # None /\ \A k \in Link : entity[k] # None => entity'[k] # None
    BY <1>4 DEF Exists, OInv, Ordered, CallIs
  <2>3. \A k \in originates' : entity'[k] # None
    BY <1>4, <2>2 DEF OInv, Ordered, Exists, TypeOK
  <2>4. /\ CallNext(a, c) /\ originates \subseteq originates' /\ l \in originates'
        /\ \A k \in terminates' : k \in originates'
    BY <1>4 DEF OInv, Ordered
  <2> HIDE DEF c, l
  <2> QED  BY <1>1, <2>1, <2>2, <2>3, <2>4
<1>5. CASE /\ CallIs(a, "terminates") /\ l \in Link
           /\ terminates' = terminates \cup {l}
           /\ CallNext(a, NoCall)
           /\ UNCHANGED <<entity, originates>>
  BY <1>1, <1>5 DEF OInv, Ordered, Exists, CallIs, NoCall
<1>6. CASE /\ CallIs(a, "update") /\ l \in Link
           /\ entity[l] = call[a].seen /\ entity[l] \in Aspect
           /\ call[a].want \in Aspect
           /\ entity' = [entity EXCEPT ![l] = call[a].want]
           /\ CallNext(a, NoCall)
           /\ UNCHANGED <<originates, terminates>>
  <2>1. \A k \in Link : entity[k] # None => entity'[k] # None
    BY <1>6, NoneIsNoAspect DEF TypeOK
  <2>2. originates \subseteq Link /\ NoCall.pc = "none"
    BY DEF TypeOK, NoCall
  <2> HIDE DEF l
  <2> QED  BY <1>1, <1>6, <2>1, <2>2 DEF OInv, Ordered, Exists
<1> QED  BY <1>2, <1>3, <1>4, <1>5, <1>6, ReconcileEffect

LEMMA OrderedStep ==
  ASSUME OInv, [Next]_vars
  PROVE  OInv'
<1>1. IInv'
  BY Inductive DEF OInv
<1> QED
  BY <1>1, StepAside, AsideOrdered, MarkDownOrdered, ReconcileOrdered DEF OInv

LEMMA OrderedStarts == Init => OInv
<1> SUFFICES ASSUME Init PROVE Ordered
  BY Starts DEF OInv
<1>1. /\ \A a \in Callers : call[a] = NoCall
      /\ \A d \in RealmDevices : worker[d] = IdleWorker
      /\ originates = {} /\ terminates = {}
  BY DEF Init
<1> QED  BY <1>1, Rested DEF Ordered, CallIs, WorkerIs

------------------------------------------------------------------------------
(* The theorems. *)

LEMMA TopoStep ==
  ASSUME OInv, [Next]_vars
  PROVE  [Topo!Next]_(Topo!vars)
<1> TypeOK
  BY DEF OInv, IInv
<1>1. clock \in Nat /\ \A t \in Past : t \in 0..(2 * MaxChanges + 1 + MaxSkew)
  <2>1. PICK n \in 0..MaxChanges : clock = 2 * n
    BY DEF TypeOK
  <2> QED  BY <2>1, LinkAssumption DEF Past
<1>2. \A x \in Aspect : x \in Topo!Aspect /\ x.last \in Nat
  BY <1>1 DEF Aspect, Topo!Aspect, Status, Past
<1>3. CASE Aside
  BY <1>3 DEF Aside, topoVars, Topo!vars
<1>4. ASSUME NEW d \in RealmDevices, MarkDown(d)
      PROVE  [Topo!Next]_(Topo!vars)
  <2> DEFINE w == worker[d]
  <2>1. /\ w.link \in Link /\ w.want \in Aspect /\ w.seen # None /\ w.seen \in Aspect \cup {None}
        /\ w.seen.status = "UP" /\ w.want.status = "DOWN"
    BY <1>4, WorkerType DEF MarkDown, WorkerIs, WorkerOK, OInv, IInv, Ordered
  <2>2. CASE UNCHANGED entity
    BY <1>4, <2>2 DEF MarkDown, Topo!vars
  <2>3. CASE entity' = [entity EXCEPT ![w.link] = w.want] /\ entity[w.link] = w.seen
    <3>1. Topo!Succeeds(w.want, w.seen)
      BY <1>2, <2>1 DEF Topo!Succeeds
    <3>2. Topo!Change(w.link)
      BY <1>2, <1>4, <2>1, <2>3, <3>1 DEF Topo!Change, MarkDown
    <3> QED  BY <2>1, <3>2 DEF Topo!Next
  <2> QED  BY <1>4, <2>2, <2>3 DEF MarkDown
<1>5. ASSUME NEW a \in Callers, ReconcileStep(a)
      PROVE  [Topo!Next]_(Topo!vars)
  <2> DEFINE l == IdOfCall(a)
  <2>1. CASE UNCHANGED topoVars
    BY <2>1 DEF topoVars, Topo!vars
  <2>2. CASE /\ l \in Link /\ entity[l] = None
             /\ entity' = [entity EXCEPT ![l] = call[a].want]
             /\ call[a].want \in Aspect /\ call[a].want.status = "UP"
             /\ UNCHANGED <<originates, terminates>>
    <3>1. /\ call[a].want = [status |-> "UP", last |-> call[a].want.last]
          /\ call[a].want.last \in 0..(2 * MaxChanges + 1 + MaxSkew)
      BY <1>1, <2>2 DEF Aspect
    <3>2. Topo!Create(l)
      BY <2>2, <3>1 DEF Topo!Create
    <3> QED  BY <2>2, <3>2 DEF Topo!Next
  <2>3. CASE /\ CallIs(a, "originates") /\ l \in Link
             /\ originates' = originates \cup {l} /\ UNCHANGED <<entity, terminates>>
    <3>1. Topo!Originate(l)
      BY <2>3 DEF Topo!Originate, OInv, Ordered, CallIs, Exists
    <3> QED  BY <2>3, <3>1 DEF Topo!Next
  <2>4. CASE /\ CallIs(a, "terminates") /\ l \in Link
             /\ terminates' = terminates \cup {l} /\ UNCHANGED <<entity, originates>>
    <3>1. Topo!Terminate(l)
      BY <2>4 DEF Topo!Terminate, OInv, Ordered
    <3> QED  BY <2>4, <3>1 DEF Topo!Next
  <2>5. CASE /\ l \in Link /\ entity[l] \in Aspect /\ call[a].want \in Aspect
             /\ entity[l].last < call[a].want.last
             /\ entity' = [entity EXCEPT ![l] = call[a].want]
             /\ UNCHANGED <<originates, terminates>>
    <3>1. Topo!Succeeds(call[a].want, entity[l]) /\ entity[l] # None
      BY <1>2, <2>5, NoneIsNoAspect DEF Topo!Succeeds
    <3>2. Topo!Change(l)
      BY <1>2, <2>5, <3>1 DEF Topo!Change
    <3> QED  BY <2>5, <3>2 DEF Topo!Next
  <2> QED  BY <1>5, <2>1, <2>2, <2>3, <2>4, <2>5, ReconcileEffect
<1> QED  BY <1>3, <1>4, <1>5, StepAside

\* Whatever the workers, the monitors and the restarts do at the same time, and
\* whatever fails, onos-topo sees what TopoLinks promises: every link is created
\* UP, once, before its relations and those in order, and only what is newer than
\* what was there brings it up again, however far the clocks of the agents and
\* of the controller are apart (links_reconciler.go).
THEOREM TopologyIsOrderly == SafeSpec => ImplementsTopoLinks
<1>1. Init => Topo!Init
  BY DEF Init, Topo!Init
<1>2. OInv /\ [Next]_vars => OInv'
  BY OrderedStep
<1>3. OInv /\ [Next]_vars => [Topo!Next]_(Topo!vars)
  BY TopoStep
<1> QED  BY OrderedStarts, <1>1, <1>2, <1>3, PTL DEF SafeSpec, ImplementsTopoLinks, Topo!Spec

LEMMA HeldStep ==
  ASSUME OInv, HalfMadeLinkIsHeld, [Next]_vars, OInv'
  PROVE  HalfMadeLinkIsHeld'
<1> TypeOK
  BY DEF OInv, IInv
<1> SUFFICES ASSUME faults' = 0, NEW l \in Link, entity'[l] # None, l \notin terminates'
             PROVE  \E a \in Callers :
                      /\ call'[a].pc = IF l \in originates' THEN "terminates" ELSE "originates"
                      /\ IdOf(call'[a].link) = l
  BY DEF HalfMadeLinkIsHeld, Exists, CallIs, IdOfCall
<1>0. faults = 0
  <2>1. ASSUME NEW a \in Callers, ReconcileStep(a)
        PROVE  faults' = faults \/ Fault
    BY <2>1 DEF ReconcileStep, Resolve, Park, GetLink, CreateLink, CreateOriginates,
                CreateTerminates, UpdateLink, CallFails
  <2>2. ASSUME NEW d \in RealmDevices, WorkerStep(d)
        PROVE  faults' = faults \/ Fault
    <3>1. <<d, "worker">> \in Callers
      BY DEF Callers
    <3> QED  BY <2>1, <2>2, <3>1 DEF WorkerStep, FetchLinks, SwapReport, RegisterReport,
               NextLink, QueryPorts, CheckPort, QueryDowned, ReadFails, MarkDown, DiscoverEnds
  <2>3. ASSUME NEW d \in RealmDevices, MonitorStep(d) \/ MonitorEnds(d)
        PROVE  faults' = faults \/ Fault
    <3>1. <<d, "monitor">> \in Callers
      BY DEF Callers
    <3> QED  BY <2>1, <2>3, <3>1 DEF MonitorStep, Subscribe, MonitorRecv, MonitorEnds
  <2>4. ASSUME \/ \E d \in NeighborDevices : RegisterAgent(d)
               \/ \E i \in InPorts : AgentChange(i)
               \/ Crash
        PROVE  faults' = faults \/ Fault
    BY <2>4 DEF RegisterAgent, AgentChange, Crash
  <2>5. faults' = faults \/ Fault
    BY <2>2, <2>3, <2>4 DEF Next, vars
  <2> QED  BY <2>5 DEF Fault, TypeOK
<1>1. ASSUME entity[l] # None, l \notin terminates
      PROVE  \E a \in Callers :
               /\ call[a].pc = IF l \in originates THEN "terminates" ELSE "originates"
               /\ IdOf(call[a].link) = l
  BY <1>0, <1>1 DEF HalfMadeLinkIsHeld, Exists, CallIs, IdOfCall
<1>2. CASE Aside
  <2>1. entity[l] # None /\ l \notin terminates /\ originates' = originates
    BY <1>2 DEF Aside, topoVars
  <2>2. PICK a \in Callers :
          /\ call[a].pc = IF l \in originates THEN "terminates" ELSE "originates"
          /\ IdOf(call[a].link) = l
    BY <1>1, <2>1
  <2>3. CallKept(a)
    BY <1>2, <2>2 DEF Aside, CallSwitched, CallIs
  <2> QED  BY <2>1, <2>2, <2>3 DEF CallKept
<1>3. ASSUME NEW d \in RealmDevices, MarkDown(d)
      PROVE  \E a \in Callers :
               /\ call'[a].pc = IF l \in originates' THEN "terminates" ELSE "originates"
               /\ IdOf(call'[a].link) = l
  <2>1. UNCHANGED <<call, originates, terminates>> /\ entity[l] # None
    BY <1>3, MarkDownOrdered DEF Exists
  <2> QED  BY <1>1, <2>1
<1>4. ASSUME NEW b \in Callers, ReconcileStep(b)
      PROVE  \E a \in Callers :
               /\ call'[a].pc = IF l \in originates' THEN "terminates" ELSE "originates"
               /\ IdOf(call'[a].link) = l
  <2> DEFINE k == IdOfCall(b)
  <2>0. ASSUME NEW c, CallNext(b, c)
        PROVE  \A a \in Callers : call'[a] = IF a = b THEN c ELSE call[a]
    BY <2>0 DEF CallNext, TypeOK
  <2>1. CASE /\ UNCHANGED topoVars
             /\ call[b].pc \notin {"originates", "terminates"}
             /\ \E c : CallNext(b, c)
    <3>1. entity[l] # None /\ l \notin terminates /\ originates' = originates
      BY <2>1 DEF topoVars
    <3>2. PICK a \in Callers :
            /\ call[a].pc = IF l \in originates THEN "terminates" ELSE "originates"
            /\ IdOf(call[a].link) = l
      BY <1>1, <3>1
    <3>3. a # b
      BY <2>1, <3>2
    <3>4. call'[a] = call[a]
      BY <2>0, <2>1, <3>3
    <3> QED  BY <3>1, <3>2, <3>4
  <2>2. ASSUME NEW c, CallNext(b, c), IdOf(c.link) = k, k = l,
               c.pc = IF l \in originates' THEN "terminates" ELSE "originates"
        PROVE  \E a \in Callers :
                 /\ call'[a].pc = IF l \in originates' THEN "terminates" ELSE "originates"
                 /\ IdOf(call'[a].link) = l
    BY <2>0, <2>2
  <2>3. ASSUME k # l, \E c : CallNext(b, c), entity'[l] = entity[l],
               l \in terminates' <=> l \in terminates, l \in originates' <=> l \in originates
        PROVE  \E a \in Callers :
                 /\ call'[a].pc = IF l \in originates' THEN "terminates" ELSE "originates"
                 /\ IdOf(call'[a].link) = l
    <3>1. PICK a \in Callers :
            /\ call[a].pc = IF l \in originates THEN "terminates" ELSE "originates"
            /\ IdOf(call[a].link) = l
      BY <1>1, <2>3
    <3>2. a # b
      BY <2>3, <3>1 DEF IdOfCall
    <3>3. call'[a] = call[a]
      BY <2>0, <2>3, <3>2
    <3> QED  BY <2>3, <3>1, <3>3
  <2>4. CASE /\ CallIs(b, "create") /\ k \in Link /\ entity[k] = None
             /\ entity' = [entity EXCEPT ![k] = call[b].want]
             /\ CallNext(b, [call[b] EXCEPT !.pc = "originates"])
             /\ UNCHANGED <<originates, terminates>>
    <3>1. CASE k = l
      <4> DEFINE c == [call[b] EXCEPT !.pc = "originates"]
      <4>1. c.pc = "originates" /\ IdOf(c.link) = k
        BY <2>4, CallType DEF CallIs, CallOK, IdOfCall
      <4>2. l \notin originates'
        BY <2>4, <3>1 DEF OInv, Ordered, Exists
      <4>3. CallNext(b, c)
        BY <2>4
      <4> HIDE DEF c, k
      <4> QED  BY <2>2, <3>1, <4>1, <4>2, <4>3
    <3>2. CASE k # l
      BY <2>3, <2>4, <3>2 DEF TypeOK
    <3> QED  BY <3>1, <3>2
  <2>5. CASE /\ CallIs(b, "originates") /\ k \in Link
             /\ originates' = originates \cup {k}
             /\ CallNext(b, [call[b] EXCEPT !.pc = "terminates"])
             /\ UNCHANGED <<entity, terminates>>
    <3>1. CASE k = l
      <4> DEFINE c == [call[b] EXCEPT !.pc = "terminates"]
      <4>1. c.pc = "terminates" /\ IdOf(c.link) = k
        BY <2>5, CallType DEF CallIs, CallOK, IdOfCall
      <4>2. l \in originates' /\ CallNext(b, c)
        BY <2>5, <3>1
      <4> HIDE DEF c, k
      <4> QED  BY <2>2, <3>1, <4>1, <4>2
    <3>2. CASE k # l
      BY <2>3, <2>5, <3>2
    <3> QED  BY <3>1, <3>2
  <2>6. CASE /\ terminates' = terminates \cup {k}
             /\ CallNext(b, NoCall)
             /\ UNCHANGED <<entity, originates>>
    <3>1. k # l
      BY <2>6
    <3> QED  BY <2>3, <2>6, <3>1
  <2>7. CASE /\ CallIs(b, "update") /\ k \in Link /\ entity[k] \in Aspect
             /\ entity' = [entity EXCEPT ![k] = call[b].want]
             /\ CallNext(b, NoCall)
             /\ UNCHANGED <<originates, terminates>>
    <3>1. entity[l] # None
      BY <2>7, NoneIsNoAspect DEF TypeOK
    <3>2. PICK a \in Callers :
            /\ call[a].pc = IF l \in originates THEN "terminates" ELSE "originates"
            /\ IdOf(call[a].link) = l
      BY <1>1, <2>7, <3>1
    <3>3. a # b
      BY <2>7, <3>2 DEF CallIs
    <3>4. call'[a] = call[a]
      BY <2>0, <2>7, <3>3
    <3> QED  BY <2>7, <3>2, <3>4
  <2> QED
    BY <1>4, <2>1, <2>4, <2>5, <2>6, <2>7, ReconcileEffect
<1> QED  BY <1>2, <1>3, <1>4, StepAside

\* As long as nothing has failed, a link without one of its relations is in the
\* hands of a caller that is about to create it, however many workers and
\* monitors reconcile the same link at the same time (links_reconciler.go).
THEOREM NobodyLeavesALinkHalf == SafeSpec => []HalfMadeLinkIsHeld
<1> DEFINE Inv == OInv /\ HalfMadeLinkIsHeld
<1>1. Init => Inv
  BY OrderedStarts DEF Init, HalfMadeLinkIsHeld, Exists
<1>2. Inv /\ [Next]_vars => Inv'
  BY OrderedStep, HeldStep
<1>3. Inv => HalfMadeLinkIsHeld
  OBVIOUS
<1> QED  BY <1>1, <1>2, <1>3, PTL DEF SafeSpec

------------------------------------------------------------------------------
(* Links that have never changed. *)

\* The link into port i has never changed at its agent.
Steady(i) == agent[i] # NoLink /\ agent[i].ct = Start(DeviceOf[i])

\* If x is a link into port i, it is the steady one.
Alike(x, i) == x.in = i => x.out = agent[i].out /\ x.ct = Start(DeviceOf[i])

SteadyReport(i) ==
  /\ report[i] \in {NoLink, agent[i]}
  /\ WorkerIs(DeviceOf[i], "fetched") => worker[DeviceOf[i]].got[i] = agent[i]
  /\ worker[DeviceOf[i]].pc \notin {"idle", "fetched"} => report[i] = agent[i]

SteadyStream(i) ==
  \A d \in RealmDevices : \A k \in 1..Len(stream[d]) : stream[d][k].port # i

SteadyPending(i) == \A x \in pending : Alike(x, i)

SteadyWork(i) ==
  \A d \in RealmDevices :
    /\ \A x \in worker[d].todo : Alike(x, i)
    /\ WorkerIs(d, "absent") => worker[d].port # i
    /\ WorkerIs(d, "markDown") => worker[d].link.in # i

\* Call c creates an entity UP, the steady link with its own create time.
Made(c, i) ==
  c.want.status = "UP" /\ (c.link.in = i => c.want.last = Start(DeviceOf[i]))

SteadyCalls(i) ==
  \A a \in Callers :
    /\ CallIs(a, "none") \/ Alike(call[a].link, i)
    /\ CallIs(a, "create") => Made(call[a], i)
    /\ CallIs(a, "update") => call[a].link.in # i

SteadyEntity(i) ==
  \A l \in Link : l.in = i /\ Exists(l) =>
    /\ l.out = agent[i].out
    /\ entity[l].status = "UP" /\ entity[l].last = Start(DeviceOf[i])

SteadyIs(i) ==
  /\ SteadyReport(i) /\ SteadyStream(i) /\ SteadyPending(i) /\ SteadyWork(i)
  /\ SteadyCalls(i) /\ SteadyEntity(i)

SteadyInv == \A i \in InPorts : Steady(i) => SteadyIs(i)

SInv == IInv /\ SteadyInv

\* One worker moves on.
LEMMA SteadyWorker ==
  ASSUME TypeOK, NEW i \in InPorts, SteadyIs(i), UNCHANGED agent,
         NEW d \in RealmDevices, NEW w, worker' = [worker EXCEPT ![d] = w],
         UNCHANGED <<stream, report>>, SteadyPending(i)', SteadyCalls(i)', SteadyEntity(i)',
         \A x \in w.todo : Alike(x, i),
         w.pc = "absent" => w.port # i, w.pc = "markDown" => w.link.in # i,
         DeviceOf[i] = d =>
           /\ w.pc = "fetched" => w.got[i] = agent[i]
           /\ w.pc \notin {"idle", "fetched"} => report[i] = agent[i]
  PROVE  SteadyIs(i)'
<1>1. \A e \in RealmDevices : worker'[e] = IF e = d THEN w ELSE worker[e]
  BY DEF TypeOK
<1>2. DeviceOf[i] \in RealmDevices
  BY LinkAssumption
<1>3. SteadyReport(i)'
  BY <1>1, <1>2 DEF SteadyIs, SteadyReport, WorkerIs
<1>4. SteadyStream(i)'
  BY DEF SteadyIs, SteadyStream
<1>5. SteadyWork(i)'
  BY <1>1 DEF SteadyIs, SteadyWork, WorkerIs, Alike
<1> QED  BY <1>3, <1>4, <1>5 DEF SteadyIs

LEMMA SteadyCallsKept ==
  ASSUME NEW i, SteadyIs(i), UNCHANGED <<agent, call>>
  PROVE  SteadyCalls(i)'
  BY DEF SteadyIs, SteadyCalls, CallIs, Alike

LEMMA SteadyRestKept ==
  ASSUME NEW i, SteadyIs(i), UNCHANGED agent
  PROVE  /\ UNCHANGED pending => SteadyPending(i)'
         /\ UNCHANGED entity => SteadyEntity(i)'
  BY DEF SteadyIs, SteadyPending, SteadyEntity, Exists, Alike

LEMMA SteadyQuietWorker ==
  ASSUME TypeOK, NEW i \in InPorts, SteadyIs(i), Steady(i), NEW d \in RealmDevices,
         \/ FetchLinks(d) \/ QueryPorts(d) \/ CheckPort(d) \/ QueryDowned(d) \/ ReadFails(d)
         \/ DiscoverEnds(d)
  PROVE  SteadyIs(i)'
<1>0. /\ WorkerOK(d, worker[d]) /\ PortsOf(d) \subseteq InPorts
      /\ DeviceOf[i] = d <=> i \in PortsOf(d)
  BY WorkerType DEF PortsOf
<1>1. /\ UNCHANGED <<agent, stream, report, call, pending, entity>>
      /\ SteadyPending(i)' /\ SteadyCalls(i)' /\ SteadyEntity(i)'
  <2>1. UNCHANGED <<agent, stream, report, call, pending, entity>>
    BY DEF FetchLinks, QueryPorts, CheckPort, QueryDowned, ReadFails, DiscoverEnds,
           reconcilerVars, topoVars, agentVars
  <2> QED  BY <2>1, SteadyCallsKept, SteadyRestKept
<1>2. /\ \A x \in worker[d].todo : Alike(x, i)
      /\ DeviceOf[i] = d /\ worker[d].pc \notin {"idle", "fetched"} => report[i] = agent[i]
  BY DEF SteadyIs, SteadyWork, SteadyReport
<1>3. CASE FetchLinks(d)
  <2> DEFINE got == [j \in PortsOf(d) |-> agent[j]]
             w == [worker[d] EXCEPT !.pc = "fetched", !.got = got]
  <2>1. worker' = [worker EXCEPT ![d] = w]
    BY <1>3 DEF FetchLinks
  <2>2. w.pc = "fetched" /\ w.got = got /\ w.todo = worker[d].todo
    BY <1>0 DEF WorkerOK
  <2>3. DeviceOf[i] = d => got[i] = agent[i]
    BY <1>0
  <2> HIDE DEF w, got
  <2> QED  BY <1>1, <1>2, <2>1, <2>2, <2>3, SteadyWorker
<1>4. CASE QueryPorts(d)
  <2> DEFINE P == {j \in PortsOf(d) : \E l \in terminates : l.in = j}
             w == [worker[d] EXCEPT !.pc = "ports", !.ports = P]
  <2>1. worker' = [worker EXCEPT ![d] = w] /\ worker[d].pc = "links"
    BY <1>4 DEF QueryPorts, WorkerIs
  <2>2. w.pc = "ports" /\ w.todo = worker[d].todo
    BY <1>0 DEF WorkerOK
  <2> HIDE DEF w
  <2> QED  BY <1>1, <1>2, <2>1, <2>2, SteadyWorker
<1>5. CASE CheckPort(d)
  <2>1. PICK j \in worker[d].ports :
          worker' = IF report[j] = NoLink
                    THEN [worker EXCEPT ![d].ports = worker[d].ports \ {j}, ![d].pc = "absent",
                                        ![d].port = j]
                    ELSE [worker EXCEPT ![d].ports = worker[d].ports \ {j}]
    BY <1>5 DEF CheckPort
  <2>2. worker[d].pc = "ports" /\ j \in PortsOf(d)
    BY <1>0, <1>5 DEF CheckPort, WorkerIs, WorkerOK
  <2>3. CASE report[j] = NoLink
    <3> DEFINE w == [worker[d] EXCEPT !.ports = worker[d].ports \ {j}, !.pc = "absent",
                                      !.port = j]
    <3>1. worker' = [worker EXCEPT ![d] = w]
      BY <2>1, <2>3
    <3>2. w.pc = "absent" /\ w.port = j /\ w.todo = worker[d].todo
      BY <1>0 DEF WorkerOK
    <3>3. j # i
      BY <1>0, <1>2, <2>2, <2>3 DEF Steady
    <3> HIDE DEF w
    <3> QED  BY <1>1, <1>2, <2>2, <3>1, <3>2, <3>3, SteadyWorker
  <2>4. CASE report[j] # NoLink
    <3> DEFINE w == [worker[d] EXCEPT !.ports = worker[d].ports \ {j}]
    <3>1. worker' = [worker EXCEPT ![d] = w]
      BY <2>1, <2>4
    <3>2. w.pc = "ports" /\ w.todo = worker[d].todo
      BY <1>0, <2>2 DEF WorkerOK
    <3> HIDE DEF w
    <3> QED  BY <1>1, <1>2, <2>2, <3>1, <3>2, SteadyWorker
  <2> QED  BY <2>3, <2>4
<1>6. CASE QueryDowned(d)
  <2>1. PICK l \in {k \in terminates : k.in = worker[d].port} :
          worker' = IF entity[l].status = "DOWN"
                    THEN [worker EXCEPT ![d].pc = "ports", ![d].port = None]
                    ELSE [worker EXCEPT ![d].pc = "markDown", ![d].port = None, ![d].link = l,
                                        ![d].seen = entity[l],
                                        ![d].want = [status |-> "DOWN", last |-> Now]]
    BY <1>6 DEF QueryDowned
  <2>2. worker[d].pc = "absent"
    BY <1>6 DEF QueryDowned, WorkerIs
  <2>3. l.in # i
    BY <2>1, <2>2 DEF SteadyIs, SteadyWork, WorkerIs
  <2>4. CASE entity[l].status = "DOWN"
    <3> DEFINE w == [worker[d] EXCEPT !.pc = "ports", !.port = None]
    <3>1. worker' = [worker EXCEPT ![d] = w]
      BY <2>1, <2>4
    <3>2. w.pc = "ports" /\ w.todo = worker[d].todo
      BY <1>0 DEF WorkerOK
    <3> HIDE DEF w
    <3> QED  BY <1>1, <1>2, <2>2, <3>1, <3>2, SteadyWorker
  <2>5. CASE entity[l].status # "DOWN"
    <3> DEFINE want == [status |-> "DOWN", last |-> Now]
               w == [worker[d] EXCEPT !.pc = "markDown", !.port = None, !.link = l,
                                      !.seen = entity[l], !.want = want]
    <3>1. worker' = [worker EXCEPT ![d] = w]
      BY <2>1, <2>5
    <3> HIDE DEF want
    <3>2. w.pc = "markDown" /\ w.link = l /\ w.todo = worker[d].todo
      BY <1>0 DEF WorkerOK
    <3> HIDE DEF w
    <3> QED  BY <1>1, <1>2, <2>2, <2>3, <3>1, <3>2, SteadyWorker
  <2> QED  BY <2>4, <2>5
<1>7. ASSUME worker' = [worker EXCEPT ![d] = IdleWorker]
      PROVE  SteadyIs(i)'
  <2>1. IdleWorker.pc = "idle" /\ IdleWorker.todo = {}
    BY DEF IdleWorker
  <2> QED  BY <1>1, <1>7, <2>1, SteadyWorker
<1>8. CASE ReadFails(d) /\ worker[d].pc = "absent"
  <2> DEFINE w == [worker[d] EXCEPT !.pc = "ports", !.port = None]
  <2>1. worker' = [worker EXCEPT ![d] = w]
    BY <1>8 DEF ReadFails, WorkerIs
  <2>2. w.pc = "ports" /\ w.todo = worker[d].todo
    BY <1>0 DEF WorkerOK
  <2> HIDE DEF w
  <2> QED  BY <1>1, <1>2, <1>8, <2>1, <2>2, SteadyWorker
<1> QED  BY <1>3, <1>4, <1>5, <1>6, <1>7, <1>8 DEF DiscoverEnds, ReadFails, WorkerIs

LEMMA SteadyMarkDown ==
  ASSUME TypeOK, NEW i \in InPorts, SteadyIs(i), NEW d \in RealmDevices, MarkDown(d)
  PROVE  SteadyIs(i)'
<1>0. WorkerOK(d, worker[d]) /\ worker[d].pc = "markDown"
  BY WorkerType DEF MarkDown, WorkerIs
<1> DEFINE w == [worker[d] EXCEPT !.pc = "ports", !.link = None, !.seen = None, !.want = None]
<1>1. worker' = [worker EXCEPT ![d] = w]
  BY DEF MarkDown
<1>2. w.pc = "ports" /\ w.todo = worker[d].todo
  BY <1>0 DEF WorkerOK
<1>3. UNCHANGED <<agent, stream, report, call, pending>>
  BY DEF MarkDown, reconcilerVars, agentVars
<1>4. worker[d].link.in # i /\ worker[d].link \in Link
  BY <1>0 DEF SteadyIs, SteadyWork, WorkerIs, WorkerOK
<1>5. \A l \in Link : l.in = i => entity'[l] = entity[l]
  BY <1>4 DEF MarkDown, TypeOK
<1>6. SteadyEntity(i)'
  BY <1>3, <1>5 DEF SteadyIs, SteadyEntity, Exists
<1>7. SteadyCalls(i)' /\ SteadyPending(i)'
  BY <1>3, SteadyCallsKept, SteadyRestKept
<1>8. /\ \A x \in worker[d].todo : Alike(x, i)
      /\ DeviceOf[i] = d => report[i] = agent[i]
  BY <1>0 DEF SteadyIs, SteadyWork, SteadyReport
<1> HIDE DEF w
<1> QED  BY <1>1, <1>2, <1>3, <1>6, <1>7, <1>8, SteadyWorker

LEMMA SteadyRegister ==
  ASSUME TypeOK, NEW i \in InPorts, SteadyIs(i), Steady(i), NEW d \in RealmDevices, RegisterReport(d)
  PROVE  SteadyIs(i)'
<1> DEFINE links == {[out |-> report[j].out, in |-> j, ct |-> report[j].ct, live |-> TRUE] :
                       j \in {k \in PortsOf(d) : report[k] # NoLink}}
           resolved == {x \in links : DeviceOf[x.out] \in agentDevices \cup {d}}
           parkedHere == {x \in pending : DeviceOf[x.out] = d}
           T == resolved \cup parkedHere
           w == [worker[d] EXCEPT !.pc = "links", !.todo = T]
<1>0. WorkerOK(d, worker[d]) /\ worker[d].pc = "register"
  BY WorkerType DEF RegisterReport, WorkerIs
<1>1. /\ worker' = [worker EXCEPT ![d] = w]
      /\ pending' = (pending \ parkedHere) \cup (links \ resolved)
  BY DEF RegisterReport
<1>2. UNCHANGED <<agent, stream, report, call, entity>>
  BY DEF RegisterReport, topoVars, agentVars
<1>3. \A x \in links : Alike(x, i)
  <2> SUFFICES ASSUME NEW j \in PortsOf(d), report[j] # NoLink, j = i
               PROVE  report[j].out = agent[i].out /\ report[j].ct = Start(DeviceOf[i])
    BY DEF Alike
  <2>1. report[i] = agent[i] /\ agent[i].ct = Start(DeviceOf[i])
    BY DEF SteadyIs, SteadyReport, Steady
  <2> QED  BY <2>1
<1>3a. \A x \in pending : Alike(x, i)
  BY DEF SteadyIs, SteadyPending
<1>4. w.pc = "links" /\ w.todo = T
  <2> HIDE DEF T
  <2> QED  BY <1>0 DEF WorkerOK
<1>5. \A x \in T : Alike(x, i)
  <2> HIDE DEF links
  <2> QED  BY <1>3, <1>3a
<1>6. SteadyPending(i)'
  <2> HIDE DEF links
  <2>1. \A x \in pending' : Alike(x, i)
    BY <1>1, <1>3, <1>3a
  <2> QED  BY <1>2, <2>1 DEF SteadyPending, Alike
<1>7. SteadyCalls(i)' /\ SteadyEntity(i)'
  BY <1>2, SteadyCallsKept, SteadyRestKept
<1>8. DeviceOf[i] = d => report[i] = agent[i]
  BY <1>0 DEF SteadyIs, SteadyReport
<1> HIDE DEF w, T
<1> QED  BY <1>1, <1>2, <1>4, <1>5, <1>6, <1>7, <1>8, SteadyWorker

\* A call moves on, or begins.
LEMMA SteadyCall ==
  ASSUME TypeOK, NEW i, SteadyIs(i), UNCHANGED agent, NEW a \in Callers, NEW c,
         call' = [call EXCEPT ![a] = c],
         c.pc = "none" \/ Alike(c.link, i),
         c.pc = "create" => Made(c, i),
         c.pc = "update" => c.link.in # i
  PROVE  SteadyCalls(i)'
<1>1. \A b \in Callers : call'[b] = IF b = a THEN c ELSE call[b]
  BY DEF TypeOK
<1> QED  BY <1>1 DEF SteadyIs, SteadyCalls, CallIs, Alike

LEMMA SteadyNextLink ==
  ASSUME TypeOK, NEW i \in InPorts, SteadyIs(i), NEW d \in RealmDevices, NextLink(d)
  PROVE  SteadyIs(i)'
<1>0. WorkerOK(d, worker[d]) /\ worker[d].pc = "links" /\ <<d, "worker">> \in Callers
  BY WorkerType DEF NextLink, WorkerIs, Callers
<1>1. PICK x \in worker[d].todo :
        /\ worker' = [worker EXCEPT ![d].todo = worker[d].todo \ {x}]
        /\ call' = [call EXCEPT ![<<d, "worker">>] = [NoCall EXCEPT !.pc = "resolve", !.link = x]]
  BY DEF NextLink
<1> DEFINE w == [worker[d] EXCEPT !.todo = worker[d].todo \ {x}]
           c == [NoCall EXCEPT !.pc = "resolve", !.link = x]
<1>2. w.pc = "links" /\ w.todo = worker[d].todo \ {x}
  BY <1>0 DEF WorkerOK
<1>3. c.pc = "resolve" /\ c.link = x
  BY DEF NoCall
<1>4. worker' = [worker EXCEPT ![d] = w] /\ call' = [call EXCEPT ![<<d, "worker">>] = c]
  BY <1>1
<1> HIDE DEF w, c
<1>5. UNCHANGED <<agent, stream, report, pending, entity>>
  BY DEF NextLink, reconcilerVars, topoVars, agentVars
<1>6. \A y \in worker[d].todo : Alike(y, i)
  BY DEF SteadyIs, SteadyWork
<1>7. SteadyCalls(i)'
  BY <1>0, <1>1, <1>3, <1>4, <1>5, <1>6, SteadyCall
<1>8. DeviceOf[i] = d => report[i] = agent[i]
  BY <1>0 DEF SteadyIs, SteadyReport
<1> QED  BY <1>2, <1>4, <1>5, <1>6, <1>7, <1>8, SteadyRestKept, SteadyWorker

LEMMA SteadyReconcile ==
  ASSUME IInv, NEW i \in InPorts, SteadyIs(i), NEW a \in Callers, ReconcileStep(a)
  PROVE  SteadyIs(i)'
<1> TypeOK
  BY DEF IInv
<1>1. UNCHANGED <<agent, stream, report, worker>>
  BY DEF ReconcileStep, Resolve, Park, GetLink, CreateLink, CreateOriginates,
         CreateTerminates, UpdateLink, CallFails, agentVars
<1>2. CallIs(a, "none") \/ (CallOK(call[a]) /\ call[a].link \in Held /\ Alike(call[a].link, i))
  BY CallType DEF SteadyIs, SteadyCalls
<1>3. SteadyReport(i)' /\ SteadyStream(i)' /\ SteadyWork(i)'
  BY <1>1 DEF SteadyIs, SteadyReport, SteadyStream, SteadyWork, WorkerIs, Alike
<1>4. NoCall.pc = "none"
  BY DEF NoCall
<1>5. CASE CallReturns(a) /\ UNCHANGED <<pending, entity>>
  BY <1>1, <1>3, <1>4, <1>5, SteadyCall, SteadyRestKept DEF CallReturns, SteadyIs
<1>6. ASSUME NEW pc \in {"get", "park", "originates", "terminates"},
             CallGoto(a, pc), ~CallIs(a, "none")
      PROVE  SteadyCalls(i)'
  <2> DEFINE c == [call[a] EXCEPT !.pc = pc]
  <2>1. c.pc = pc /\ c.link = call[a].link
    BY <1>2, <1>6 DEF CallOK
  <2>2. call' = [call EXCEPT ![a] = c]
    BY <1>6 DEF CallGoto
  <2> HIDE DEF c
  <2> QED  BY <1>1, <1>2, <1>6, <2>1, <2>2, SteadyCall
<1>7. CASE Resolve(a)
  <2>1. UNCHANGED <<pending, entity>> /\ ~CallIs(a, "none")
    BY <1>7 DEF Resolve, reconcilerVars, topoVars, CallIs
  <2>2. CallReturns(a) \/ CallGoto(a, "get") \/ CallGoto(a, "park")
    BY <1>7 DEF Resolve
  <2> QED  BY <1>1, <1>3, <1>5, <1>6, <2>1, <2>2, SteadyRestKept DEF SteadyIs
<1>8. CASE Park(a)
  <2>1. CallReturns(a) /\ UNCHANGED entity /\ ~CallIs(a, "none")
    BY <1>8 DEF Park, topoVars, CallIs
  <2>2. \A x \in pending' : Alike(x, i)
    BY <1>2, <1>8, <2>1 DEF Park, SteadyIs, SteadyPending
  <2>3. SteadyPending(i)'
    BY <1>1, <2>2 DEF SteadyPending, Alike
  <2>4. SteadyCalls(i)'
    BY <1>1, <1>4, <2>1, SteadyCall DEF CallReturns
  <2> QED  BY <1>1, <1>3, <2>1, <2>3, <2>4, SteadyRestKept DEF SteadyIs
<1>9. CASE GetLink(a)
  <2> DEFINE x == entity[IdOfCall(a)]
             w1 == [status |-> "UP", last |-> call[a].link.ct]
             w2 == [status |-> call[a].status, last |-> call[a].link.ct]
             c1 == [call[a] EXCEPT !.pc = "create", !.want = w1]
             c2 == [call[a] EXCEPT !.pc = "update", !.seen = x, !.want = w2]
  <2>0. call[a].pc = "get" /\ IdOfCall(a) \in Link
    BY <1>9, CallType DEF GetLink, CallIs
  <2>1. /\ UNCHANGED <<pending, entity>>
        /\ \/ CallReturns(a)
           \/ call' = [call EXCEPT ![a] = c1]
           \/ call' = [call EXCEPT ![a] = c2] /\ x # None /\ NeedsUpdate(x, call[a].link)
    BY <1>9 DEF GetLink, reconcilerVars, topoVars
  <2>2. /\ c1.pc = "create" /\ c1.link = call[a].link /\ c1.want = w1
        /\ c2.pc = "update" /\ c2.link = call[a].link
    BY <1>2, <2>0 DEF CallOK, CallIs
  <2>2a. Made(c1, i)
    BY <1>2, <2>0, <2>2 DEF Made, Alike, CallIs
  <2>3. x # None /\ NeedsUpdate(x, call[a].link) => call[a].link.in # i
    <3> SUFFICES ASSUME x # None, call[a].link.in = i, NeedsUpdate(x, call[a].link)
                 PROVE  FALSE
      OBVIOUS
    <3>1. IdOfCall(a).in = i
      BY DEF IdOfCall, IdOf
    <3>2. x.last = Start(DeviceOf[i])
      BY <2>0, <3>1 DEF SteadyIs, SteadyEntity, Exists
    <3>3. call[a].link.ct = Start(DeviceOf[i])
      BY <1>2, <2>0 DEF Alike, CallIs
    <3>4. Start(DeviceOf[i]) \in Nat
      BY LinkAssumption DEF Start
    <3> QED  BY <3>2, <3>3, <3>4 DEF NeedsUpdate
  <2> HIDE DEF c1, c2
  <2>4. SteadyCalls(i)' \/ CallReturns(a)
    BY <1>1, <1>2, <2>0, <2>1, <2>2, <2>2a, <2>3, SteadyCall DEF CallIs
  <2> QED  BY <1>1, <1>3, <1>5, <2>1, <2>4, SteadyRestKept DEF SteadyIs
<1>10. CASE CreateLink(a)
  <2>1. UNCHANGED pending /\ ~CallIs(a, "none") /\ Made(call[a], i)
    BY <1>10 DEF CreateLink, reconcilerVars, CallIs, SteadyIs, SteadyCalls
  <2>2. CASE UNCHANGED entity /\ CallReturns(a)
    BY <1>5, <2>1, <2>2
  <2>3. CASE entity' = [entity EXCEPT ![IdOfCall(a)] = call[a].want] /\ CallGoto(a, "originates")
    <3>1. SteadyCalls(i)'
      BY <1>6, <2>1, <2>3
    <3>2. IdOfCall(a).in = i => IdOfCall(a).out = agent[i].out
      BY <1>2, <2>1 DEF IdOfCall, IdOf, Alike
    <3>3. SteadyEntity(i)'
      <4> DEFINE k == IdOfCall(a)
                 v == call[a].want
      <4>1. /\ entity' = [entity EXCEPT ![k] = v] /\ v.status = "UP"
            /\ k.in = i => k.out = agent[i].out /\ v.last = Start(DeviceOf[i])
        BY <2>1, <2>3, <3>2 DEF Made, IdOfCall, IdOf
      <4> HIDE DEF k, v
      <4>2. \A l \in Link : entity'[l] = entity[l] \/ (l = k /\ entity'[l] = v)
        BY <4>1 DEF TypeOK
      <4>3. \A l \in Link : l.in = i /\ entity'[l] # None =>
              /\ l.out = agent[i].out
              /\ entity'[l].status = "UP" /\ entity'[l].last = Start(DeviceOf[i])
        BY <4>1, <4>2 DEF SteadyIs, SteadyEntity, Exists
      <4> QED  BY <1>1, <4>3 DEF SteadyEntity, Exists
    <3> QED  BY <1>1, <1>3, <2>1, <3>1, <3>3, SteadyRestKept DEF SteadyIs
  <2> QED  BY <1>10, <2>2, <2>3 DEF CreateLink
<1>11. CASE CreateOriginates(a)
  <2>1. UNCHANGED <<pending, entity>> /\ ~CallIs(a, "none") /\ CallGoto(a, "terminates")
    BY <1>11 DEF CreateOriginates, reconcilerVars, CallIs
  <2> QED  BY <1>1, <1>3, <1>6, <2>1, SteadyRestKept DEF SteadyIs
<1>12. CASE CreateTerminates(a)
  BY <1>5, <1>12 DEF CreateTerminates, reconcilerVars
<1>13. CASE UpdateLink(a)
  <2>1. UNCHANGED pending /\ CallReturns(a) /\ call[a].link.in # i
    BY <1>13 DEF UpdateLink, reconcilerVars, SteadyIs, SteadyCalls
  <2>2. \A l \in Link : l.in = i => entity'[l] = entity[l]
    BY <1>13, <2>1 DEF UpdateLink, IdOfCall, IdOf, TypeOK
  <2>3. SteadyEntity(i)'
    BY <1>1, <2>2 DEF SteadyIs, SteadyEntity, Exists
  <2>4. SteadyCalls(i)'
    BY <1>1, <1>4, <2>1, SteadyCall DEF CallReturns
  <2> QED  BY <1>1, <1>3, <2>1, <2>3, <2>4, SteadyRestKept DEF SteadyIs
<1>14. CASE CallFails(a)
  BY <1>5, <1>14 DEF CallFails, reconcilerVars, topoVars
<1> QED
  BY <1>7, <1>8, <1>9, <1>10, <1>11, <1>12, <1>13, <1>14 DEF ReconcileStep

\* Links leave the report: those into port i are not stamped.
LEMMA DetachedAlike ==
  ASSUME NEW x \in Held, NEW i, Alike(x, i), NEW P, NEW stamp, stamp = None \/ i \notin P
  PROVE  Alike(Detached(x, P, stamp), i)
  BY DEF Alike, Detached, Held

LEMMA WithoutAlike ==
  ASSUME TypeOK, NEW i \in InPorts, SteadyIs(i), NEW P, NEW stamp, stamp = None \/ i \notin P
  PROVE  /\ \A x \in PendingWithout(P, stamp) : Alike(x, i)
         /\ \A d \in RealmDevices :
              LET w == WorkersWithout(P, stamp)[d]
              IN  /\ \A x \in w.todo : Alike(x, i)
                  /\ w.pc = worker[d].pc /\ w.port = worker[d].port
                  /\ w.link = worker[d].link /\ w.got = worker[d].got
         /\ \A a \in Callers :
              LET c == CallsWithout(P, stamp)[a]
              IN  /\ c.pc = call[a].pc /\ c.want = call[a].want
                  /\ c.pc = "none" \/ Alike(c.link, i)
                  /\ c.pc = "create" => Made(c, i)
                  /\ c.pc = "update" => c.link.in # i
<1>1. \A x \in PendingWithout(P, stamp) : Alike(x, i)
  <2>1. \A x \in pending : x \in Held /\ Alike(x, i)
    BY DEF SteadyIs, SteadyPending, TypeOK
  <2> QED  BY <2>1, DetachedAlike DEF PendingWithout
<1>2. ASSUME NEW d \in RealmDevices
      PROVE  LET w == WorkersWithout(P, stamp)[d]
             IN  /\ \A x \in w.todo : Alike(x, i)
                 /\ w.pc = worker[d].pc /\ w.port = worker[d].port
                 /\ w.link = worker[d].link /\ w.got = worker[d].got
  <2> DEFINE T == {Detached(x, P, stamp) : x \in worker[d].todo}
             w == [worker[d] EXCEPT !.todo = T]
  <2>1. WorkerOK(d, worker[d])
    BY WorkerType
  <2>2. \A x \in worker[d].todo : x \in Held /\ Alike(x, i)
    BY <2>1 DEF SteadyIs, SteadyWork, WorkerOK
  <2>3. \A x \in T : Alike(x, i)
    BY <2>2, DetachedAlike
  <2>4. WorkersWithout(P, stamp)[d] = w
    BY DEF WorkersWithout
  <2> HIDE DEF T
  <2>5. /\ w.todo = T /\ w.pc = worker[d].pc /\ w.port = worker[d].port
        /\ w.link = worker[d].link /\ w.got = worker[d].got
    BY <2>1 DEF WorkerOK
  <2> HIDE DEF w
  <2> QED  BY <2>3, <2>4, <2>5
<1>3. ASSUME NEW a \in Callers
      PROVE  LET c == CallsWithout(P, stamp)[a]
             IN  /\ c.pc = call[a].pc /\ c.want = call[a].want
                 /\ c.pc = "none" \/ Alike(c.link, i)
                 /\ c.pc = "create" => Made(c, i)
                 /\ c.pc = "update" => c.link.in # i
  <2>1. CASE CallIs(a, "none")
    BY <2>1 DEF CallsWithout, CallIs
  <2>2. CASE ~CallIs(a, "none")
    <3> DEFINE y == Detached(call[a].link, P, stamp)
               c == [call[a] EXCEPT !.link = y]
    <3>1. CallOK(call[a]) /\ call[a].link \in Held
      BY <2>2, CallType
    <3>2. /\ Alike(call[a].link, i)
          /\ call[a].pc = "create" => Made(call[a], i)
          /\ call[a].pc = "update" => call[a].link.in # i
      BY <2>2 DEF SteadyIs, SteadyCalls, CallIs
    <3>3. Alike(y, i) /\ y.in = call[a].link.in
      <4>1. y.in = call[a].link.in
        BY <3>1 DEF Detached, Held
      <4> QED  BY <3>1, <3>2, <4>1, DetachedAlike
    <3>4. CallsWithout(P, stamp)[a] = c
      BY <2>2 DEF CallsWithout
    <3> HIDE DEF y
    <3>5. c.pc = call[a].pc /\ c.want = call[a].want /\ c.link = y
      BY <3>1 DEF CallOK
    <3> HIDE DEF c
    <3> QED  BY <3>2, <3>3, <3>4, <3>5 DEF Made
  <2> QED  BY <2>1, <2>2
<1> QED  BY <1>1, <1>2, <1>3

LEMMA SteadySwapReport ==
  ASSUME TypeOK, NEW i \in InPorts, SteadyIs(i), NEW d \in RealmDevices, SwapReport(d)
  PROVE  SteadyIs(i)'
<1> DEFINE P == PortsOf(d)
           W == WorkersWithout(P, None)
           C == CallsWithout(P, None)
           w == [W[d] EXCEPT !.pc = "register", !.got = None]
<1>0. worker[d].pc = "fetched" /\ DeviceOf[i] \in RealmDevices
  BY LinkAssumption DEF SwapReport, WorkerIs
<1>1. /\ \A x \in PendingWithout(P, None) : Alike(x, i)
      /\ \A e \in RealmDevices :
           /\ \A x \in W[e].todo : Alike(x, i)
           /\ W[e].pc = worker[e].pc /\ W[e].port = worker[e].port
           /\ W[e].link = worker[e].link /\ W[e].got = worker[e].got
      /\ \A a \in Callers :
           /\ C[a].pc = call[a].pc /\ C[a].want = call[a].want
           /\ C[a].pc = "none" \/ Alike(C[a].link, i)
           /\ C[a].pc = "create" => Made(C[a], i)
           /\ C[a].pc = "update" => C[a].link.in # i
  BY WithoutAlike
<1>2. W = [e \in RealmDevices |-> W[e]] /\ WorkerOK(d, W[d])
  <2>1. W = [e \in RealmDevices |-> W[e]]
    BY DEF WorkersWithout
  <2>2. WorkerOK(d, W[d])
    BY WithoutType
  <2> QED  BY <2>1, <2>2
<1>3. /\ worker' = [W EXCEPT ![d] = w] /\ call' = C
      /\ pending' = PendingWithout(P, None)
      /\ report' = [j \in InPorts |-> IF DeviceOf[j] = d THEN worker[d].got[j] ELSE report[j]]
      /\ UNCHANGED <<agent, stream, entity>>
  BY DEF SwapReport, agentVars, topoVars
<1> HIDE DEF W, C, P
<1>4. w.pc = "register" /\ w.todo = W[d].todo
  BY <1>2 DEF WorkerOK
<1> HIDE DEF w
<1>5. \A e \in RealmDevices : worker'[e] = IF e = d THEN w ELSE W[e]
  BY <1>2, <1>3
<1>6. SteadyReport(i)'
  <2>1. DeviceOf[i] = d => report'[i] = agent[i]
    BY <1>0, <1>3 DEF SteadyIs, SteadyReport, WorkerIs
  <2>2. DeviceOf[i] # d => report'[i] = report[i]
    BY <1>3
  <2> QED  BY <1>0, <1>1, <1>3, <1>4, <1>5, <2>1, <2>2 DEF SteadyIs, SteadyReport, WorkerIs
<1>7. SteadyStream(i)' /\ SteadyEntity(i)'
  BY <1>3, SteadyRestKept DEF SteadyIs, SteadyStream
<1>8. SteadyPending(i)'
  BY <1>1, <1>3 DEF SteadyPending, Alike
<1>9. SteadyWork(i)'
  <2>1. \A e \in RealmDevices :
          /\ \A x \in worker'[e].todo : Alike(x, i)
          /\ worker'[e].pc = "absent" => worker'[e].port # i
          /\ worker'[e].pc = "markDown" => worker'[e].link.in # i
    BY <1>1, <1>4, <1>5 DEF SteadyIs, SteadyWork, WorkerIs
  <2> QED  BY <1>3, <2>1 DEF SteadyWork, WorkerIs, Alike
<1>10. SteadyCalls(i)'
  BY <1>1, <1>3 DEF SteadyIs, SteadyCalls, CallIs, Alike
<1> QED  BY <1>6, <1>7, <1>8, <1>9, <1>10 DEF SteadyIs

LEMMA SteadyMonitorRecv ==
  ASSUME TypeOK, NEW i \in InPorts, SteadyIs(i), NEW d \in RealmDevices, MonitorRecv(d)
  PROVE  SteadyIs(i)'
<1> DEFINE n == Head(stream[d])
           deleted == n.link = NoLink
           stamp == IF deleted THEN Now ELSE None
           link == IF deleted
                   THEN [out |-> IF report[n.port] = NoLink THEN NoLink ELSE report[n.port].out,
                         in |-> n.port, ct |-> Now, live |-> FALSE]
                   ELSE [out |-> n.link.out, in |-> n.port, ct |-> n.link.ct, live |-> TRUE]
           P == {n.port}
           W == WorkersWithout(P, stamp)
           C == CallsWithout(P, stamp)
           c == [NoCall EXCEPT !.pc = "resolve", !.link = link,
                               !.status = IF deleted THEN "DOWN" ELSE "UP"]
           a == <<d, "monitor">>
           S == [port : InPorts, link : Ingress \cup {NoLink}]
           q == stream[d]
<1>1. q \in Seq(S) /\ q # <<>> /\ a \in Callers
  BY DEF MonitorRecv, TypeOK, Callers
<1>2. \A k \in 1..Len(q) : q[k].port # i
  BY DEF SteadyIs, SteadyStream
<1>3. /\ report' = [report EXCEPT ![n.port] = n.link]
      /\ pending' = PendingWithout(P, stamp)
      /\ worker' = W
      /\ call' = [C EXCEPT ![a] = c]
      /\ stream' = [stream EXCEPT ![d] = Tail(q)]
      /\ UNCHANGED <<agent, entity>>
  BY DEF MonitorRecv, agentVars, topoVars
<1>4. c.pc = "resolve" /\ c.link = link
  BY DEF NoCall
<1>5. n.port # i /\ \A k \in 1..Len(Tail(q)) : Tail(q)[k].port # i
  <2> HIDE DEF S, q
  <2>1. Head(q) = q[1] /\ Len(q) \in Nat /\ Len(q) > 0
    BY <1>1
  <2>2. Len(Tail(q)) = Len(q) - 1 /\ \A k \in 1..Len(Tail(q)) : Tail(q)[k] = q[k + 1]
    BY <1>1
  <2>3. \A k \in 1..Len(Tail(q)) : k + 1 \in 1..Len(q)
    BY <2>1, <2>2
  <2>4. q[1].port # i
    BY <1>2, <2>1
  <2> QED  BY <1>2, <2>1, <2>2, <2>3, <2>4 DEF q
<1>6. link.in = n.port
  OBVIOUS
<1> HIDE DEF n, link
<1>7. /\ \A x \in PendingWithout(P, stamp) : Alike(x, i)
      /\ \A e \in RealmDevices :
           /\ \A x \in W[e].todo : Alike(x, i)
           /\ W[e].pc = worker[e].pc /\ W[e].port = worker[e].port
           /\ W[e].link = worker[e].link /\ W[e].got = worker[e].got
      /\ \A b \in Callers :
           /\ C[b].pc = call[b].pc /\ C[b].want = call[b].want
           /\ C[b].pc = "none" \/ Alike(C[b].link, i)
           /\ C[b].pc = "create" => Made(C[b], i)
           /\ C[b].pc = "update" => C[b].link.in # i
  <2>1. i \notin P
    BY <1>5
  <2> HIDE DEF P, stamp
  <2> QED  BY <2>1, WithoutAlike
<1>8. C = [b \in Callers |-> C[b]]
  BY DEF CallsWithout
<1> HIDE DEF P, stamp, W, C, c, q
<1>9. \A b \in Callers : call'[b] = IF b = a THEN c ELSE C[b]
  BY <1>3, <1>8
<1>10. SteadyReport(i)'
  <2>1. report'[i] = report[i]
    BY <1>3, <1>5 DEF TypeOK
  <2>2. DeviceOf[i] \in RealmDevices
    BY LinkAssumption
  <2> QED  BY <1>3, <1>7, <2>1, <2>2 DEF SteadyIs, SteadyReport, WorkerIs
<1>11. SteadyStream(i)'
  BY <1>3, <1>5 DEF SteadyIs, SteadyStream, TypeOK
<1>12. SteadyEntity(i)'
  BY <1>3, SteadyRestKept
<1>13. SteadyPending(i)'
  BY <1>3, <1>7 DEF SteadyPending, Alike
<1>14. SteadyWork(i)'
  BY <1>3, <1>7 DEF SteadyIs, SteadyWork, WorkerIs, Alike
<1>15. SteadyCalls(i)'
  BY <1>3, <1>4, <1>5, <1>6, <1>7, <1>9 DEF SteadyIs, SteadyCalls, CallIs, Alike
<1> QED  BY <1>10, <1>11, <1>12, <1>13, <1>14, <1>15 DEF SteadyIs

\* What leaves the discovery alone.
LEMMA SteadyQuiet ==
  ASSUME NEW i, SteadyIs(i), UNCHANGED <<report, worker, call, pending, entity>>,
         agent'[i] = agent[i], SteadyStream(i)'
  PROVE  SteadyIs(i)'
<1>1. SteadyReport(i)' /\ SteadyWork(i)'
  BY DEF SteadyIs, SteadyReport, SteadyWork, WorkerIs, Alike
<1>2. SteadyPending(i)' /\ SteadyCalls(i)' /\ SteadyEntity(i)'
  BY DEF SteadyIs, SteadyPending, SteadyCalls, SteadyEntity, CallIs, Alike, Exists
<1> QED  BY <1>1, <1>2 DEF SteadyIs

LEMMA SteadyMonitorEnds ==
  ASSUME TypeOK, NEW i \in InPorts, SteadyIs(i), NEW d \in RealmDevices, MonitorEnds(d)
  PROVE  SteadyIs(i)'
<1>1. stream' = [stream EXCEPT ![d] = <<>>]
  BY DEF MonitorEnds
<1>2. SteadyStream(i)'
  BY <1>1 DEF SteadyIs, SteadyStream, TypeOK
<1> QED  BY <1>2, SteadyQuiet DEF MonitorEnds, agentVars, reconcilerVars, topoVars

\* A link that is steady after a change was so before, and another has changed.
LEMMA SteadyAgentChange ==
  ASSUME TypeOK, SteadyInv, NEW j \in InPorts, AgentChange(j), NEW i \in InPorts, Steady(i)'
  PROVE  SteadyIs(i)'
<1>1. PICK link \in {NoLink} \cup [out : OutPorts, ct : {clock' + AgentSkew[DeviceOf[j]]}] :
        /\ link = NoLink <=> agent[j] # NoLink
        /\ agent' = [agent EXCEPT ![j] = link]
        /\ stream' = IF monitor[DeviceOf[j]] = "on"
                     THEN [stream EXCEPT ![DeviceOf[j]] =
                             Append(stream[DeviceOf[j]], [port |-> j, link |-> link])]
                     ELSE stream
  BY DEF AgentChange
<1>2. clock \in Nat /\ clock' = clock + 2 /\ Start(DeviceOf[j]) = AgentSkew[DeviceOf[j]]
      /\ AgentSkew[DeviceOf[j]] \in Nat
  <2>1. clock \in Nat
    BY LinkAssumption DEF TypeOK
  <2>2. clock' = clock + 2 /\ Start(DeviceOf[j]) = AgentSkew[DeviceOf[j]]
    BY DEF AgentChange, Start
  <2>3. AgentSkew[DeviceOf[j]] \in 0..MaxSkew /\ MaxSkew \in Nat
    BY LinkAssumption
  <2> QED  BY <2>1, <2>2, <2>3
<1>3. i # j
  <2> SUFFICES ASSUME i = j PROVE FALSE
    OBVIOUS
  <2>1. agent'[i] = link
    BY <1>1 DEF TypeOK
  <2>2. link # NoLink => link.ct = clock' + AgentSkew[DeviceOf[j]]
    BY <1>1
  <2> QED  BY <1>2, <2>1, <2>2 DEF Steady
<1>4. agent'[i] = agent[i]
  BY <1>1, <1>3 DEF TypeOK
<1>5. SteadyIs(i)
  BY <1>4 DEF Steady, SteadyInv
<1>6. SteadyStream(i)'
  <2> DEFINE S == [port : InPorts, link : Ingress \cup {NoLink}]
             n == [port |-> j, link |-> link]
  <2>1. \A e \in RealmDevices : stream[e] \in Seq(S)
    BY DEF TypeOK
  <2> HIDE DEF S
  <2>2. ASSUME NEW e \in RealmDevices, NEW k \in 1..Len(stream'[e])
        PROVE  stream'[e][k].port # i
    <3>1. CASE stream'[e] = stream[e]
      BY <1>5, <2>2, <3>1 DEF SteadyIs, SteadyStream
    <3>2. CASE stream'[e] = Append(stream[e], n)
      <4> DEFINE s == stream[e]
      <4>1. s \in Seq(S) /\ k \in 1..Len(Append(s, n)) /\ n.port = j
        BY <2>1, <2>2, <3>2
      <4>2. \A m \in 1..Len(s) : s[m].port # i
        BY <1>5 DEF SteadyIs, SteadyStream
      <4> HIDE DEF s, n
      <4>3. Append(s, n)[k] = n \/ (k \in 1..Len(s) /\ Append(s, n)[k] = s[k])
        BY <4>1
      <4>4. Append(s, n)[k].port # i
        BY <1>3, <4>1, <4>2, <4>3
      <4> QED  BY <3>2, <4>4 DEF s
    <3>3. stream'[e] = stream[e] \/ stream'[e] = Append(stream[e], n)
      BY <1>1 DEF TypeOK
    <3> QED  BY <3>1, <3>2, <3>3
  <2> QED  BY <2>2 DEF SteadyStream
<1>7. UNCHANGED <<report, worker, call, pending, entity>>
  BY DEF AgentChange, reconcilerVars, topoVars
<1> QED  BY <1>4, <1>5, <1>6, <1>7, SteadyQuiet

LEMMA SteadyCrash ==
  ASSUME TypeOK, NEW i \in InPorts, SteadyIs(i), Crash
  PROVE  SteadyIs(i)'
<1>1. /\ \A d \in RealmDevices : worker'[d] = IdleWorker /\ stream'[d] = <<>>
      /\ \A a \in Callers : call'[a] = NoCall
      /\ report'[i] = NoLink /\ pending' = {} /\ UNCHANGED <<agent, entity>>
  BY DEF Crash, agentVars, topoVars
<1>2. DeviceOf[i] \in RealmDevices
  BY LinkAssumption
<1>3. SteadyReport(i)' /\ SteadyWork(i)'
  BY <1>1, <1>2 DEF SteadyReport, SteadyWork, WorkerIs, IdleWorker
<1>4. SteadyCalls(i)' /\ SteadyPending(i)' /\ SteadyStream(i)'
  BY <1>1 DEF SteadyCalls, SteadyPending, SteadyStream, CallIs, NoCall
<1> QED  BY <1>1, <1>3, <1>4, SteadyRestKept DEF SteadyIs

LEMMA SteadyStarts == Init => SteadyInv
<1> SUFFICES ASSUME Init, NEW i \in InPorts, Steady(i) PROVE SteadyIs(i)
  BY DEF SteadyInv
<1>1. /\ \A d \in RealmDevices : worker[d] = IdleWorker /\ stream[d] = <<>>
      /\ \A a \in Callers : call[a] = NoCall
      /\ report[i] = NoLink /\ pending = {} /\ \A l \in Link : entity[l] = None
  BY DEF Init
<1>2. DeviceOf[i] \in RealmDevices
  BY LinkAssumption
<1>3. SteadyReport(i) /\ SteadyWork(i)
  BY <1>1, <1>2 DEF SteadyReport, SteadyWork, WorkerIs, IdleWorker
<1>4. SteadyCalls(i) /\ SteadyPending(i) /\ SteadyStream(i) /\ SteadyEntity(i)
  BY <1>1 DEF SteadyCalls, SteadyPending, SteadyStream, SteadyEntity, CallIs, NoCall, Exists
<1> QED  BY <1>3, <1>4 DEF SteadyIs

LEMMA SteadyStep ==
  ASSUME SInv, [Next]_vars
  PROVE  SteadyInv'
<1> TypeOK /\ IInv
  BY DEF SInv, IInv
<1> SUFFICES ASSUME NEW i \in InPorts, Steady(i)' PROVE SteadyIs(i)'
  BY DEF SteadyInv
<1>1. ASSUME NEW j \in InPorts, AgentChange(j)
      PROVE  SteadyIs(i)'
  BY <1>1, SteadyAgentChange DEF SInv
<1>2. ASSUME UNCHANGED agent
      PROVE  Steady(i) /\ SteadyIs(i)
  BY <1>2 DEF Steady, SInv, SteadyInv
<1>3. ASSUME NEW a \in Callers, ReconcileStep(a)
      PROVE  SteadyIs(i)'
  <2>1. UNCHANGED agent
    BY <1>3 DEF ReconcileStep, Resolve, Park, GetLink, CreateLink, CreateOriginates,
                CreateTerminates, UpdateLink, CallFails, agentVars
  <2> QED  BY <1>2, <1>3, <2>1, SteadyReconcile
<1>4. ASSUME NEW d \in RealmDevices, WorkerStep(d)
      PROVE  SteadyIs(i)'
  <2>1. CASE ReconcileStep(<<d, "worker">>)
    BY <1>3, <2>1 DEF Callers
  <2>2. CASE ~ReconcileStep(<<d, "worker">>)
    <3>1. UNCHANGED agent
      BY <1>4, <2>2 DEF WorkerStep, FetchLinks, SwapReport, RegisterReport, NextLink,
                        QueryPorts, CheckPort, QueryDowned, ReadFails, MarkDown, DiscoverEnds,
                        agentVars
    <3> QED  BY <1>2, <1>4, <2>2, <3>1, SteadyQuietWorker, SteadySwapReport, SteadyRegister,
                SteadyNextLink, SteadyMarkDown DEF WorkerStep
  <2> QED  BY <2>1, <2>2
<1>5. ASSUME NEW d \in RealmDevices, Subscribe(d)
      PROVE  SteadyIs(i)'
  <2>1. UNCHANGED <<agent, stream, report, worker, call, pending, entity>>
    BY <1>5 DEF Subscribe, agentVars, reconcilerVars, topoVars
  <2>2. SteadyIs(i)
    BY <1>2, <2>1
  <2>3. SteadyStream(i)'
    BY <2>1, <2>2 DEF SteadyIs, SteadyStream
  <2> QED  BY <2>1, <2>2, <2>3, SteadyQuiet
<1>6. ASSUME NEW d \in RealmDevices, MonitorStep(d) \/ MonitorEnds(d)
      PROVE  SteadyIs(i)'
  <2>1. CASE ReconcileStep(<<d, "monitor">>)
    BY <1>3, <2>1 DEF Callers
  <2>2. CASE MonitorRecv(d) \/ MonitorEnds(d)
    <3>1. UNCHANGED agent
      BY <2>2 DEF MonitorRecv, MonitorEnds, agentVars
    <3> QED  BY <1>2, <2>2, <3>1, SteadyMonitorRecv, SteadyMonitorEnds
  <2> QED  BY <1>5, <1>6, <2>1, <2>2 DEF MonitorStep
<1>7. ASSUME \/ \E d \in NeighborDevices : RegisterAgent(d)
             \/ UNCHANGED vars
      PROVE  SteadyIs(i)'
  <2>1. UNCHANGED <<agent, stream, report, worker, call, pending, entity>>
    BY <1>7 DEF RegisterAgent, agentVars, topoVars, vars, reconcilerVars
  <2>2. SteadyIs(i)
    BY <1>2, <2>1
  <2>3. SteadyStream(i)'
    BY <2>1, <2>2 DEF SteadyIs, SteadyStream
  <2> QED  BY <2>1, <2>2, <2>3, SteadyQuiet
<1>8. CASE Crash
  <2>1. UNCHANGED agent
    BY <1>8 DEF Crash, agentVars
  <2> QED  BY <1>2, <1>8, <2>1, SteadyCrash
<1> QED  BY <1>1, <1>4, <1>6, <1>7, <1>8 DEF Next

\* Whatever the workers and the monitors of any number of devices do at the same
\* time, whatever happens at the other ports, and however often a call or the
\* process fails, a link that has never changed at its agent is never DOWN in
\* onos-topo, nor is there another one into its port (links_reconciler.go,
\* links.go): a sweep that looks for downed links has this one in its report.
THEOREM SteadyLinksStayUp == SafeSpec => []SteadyLinkStaysUp
<1>1. Init => SInv
  BY Starts, SteadyStarts DEF SInv
<1>2. SInv /\ [Next]_vars => SInv'
  BY Inductive, SteadyStep DEF SInv
<1>3. SInv => SteadyLinkStaysUp
  BY DEF SInv, SteadyInv, SteadyIs, SteadyEntity, Steady, SteadyLinkStaysUp
<1> QED  BY <1>1, <1>2, <1>3, PTL DEF SafeSpec

==============================================================================
