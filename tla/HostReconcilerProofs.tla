------------------------- MODULE HostReconcilerProofs -------------------------
(***************************************************************************)
(* Proofs about HostReconciler, for any devices, hosts, ports, monitors    *)
(* and bounds: type correctness, which includes who holds which lock, and  *)
(* that, as long as nothing has failed, every host has its agent's ID and  *)
(* its relation, or a caller that is about to create it.                   *)
(*                                                                         *)
(* Named follows the agent's ID from the context to the reports and the    *)
(* calls; InHand says that whoever has created a host goes on to connect   *)
(* it.                                                                     *)
(***************************************************************************)
EXTENDS HostReconciler, TLAPS

\* What makes TypeOK inductive: a relation is only created for an entity that
\* has been created.
Created == \A a \in Callers : call[a].pc = "connection" => call[a].id \in entity

IInv == TypeOK /\ Created

\* What TypeOK says of a single device.
DeviceOK(d) ==
  /\ WorkerOK(d, worker[d])
  /\ lock = d <=> worker[d].pc \in {"connect", "agentID"}
  /\ context[d].agentID \in {d, NoId}
  /\ call[<<d, "worker">>] # NoCall => worker[d].pc = "hosts"
  /\ \A m \in MonitorsOf[d] : MonitorOK(d, monitor[d][m])
  /\ \A m, n \in MonitorsOf[d] :
       call[<<d, m>>] # NoCall =>
         monitor[d][m].pc = "on" /\ (n # m => call[<<d, n>>] = NoCall)

\* What it says of everything else.
VarsOK ==
  /\ agent \in [Hosts -> Ports \cup {None}]
  /\ changes \in 0..MaxChanges
  /\ lock \in Devices \cup {None}
  /\ context \in [Devices -> [connected : BOOLEAN, agentID : Devices \cup {NoId}]]
  /\ ctxCancel \in [Devices -> BOOLEAN]
  /\ report \in [Hosts -> Ports \cup {None}]
  /\ monitor = [d \in Devices |-> [m \in MonitorsOf[d] |-> monitor[d][m]]]
  /\ worker = [d \in Devices |-> worker[d]]
  /\ call = [a \in Callers |-> call[a]]
  /\ \A a \in Callers : CallOK(call[a])
  /\ entity \subseteq HostId
  /\ connection \subseteq {ConnectionTo(id) : id \in entity}
  /\ faults \in 0..MaxFaults

LEMMA Parts == TypeOK <=> VarsOK /\ \A d \in Devices : DeviceOK(d)
  BY DEF TypeOK, VarsOK, DeviceOK

\* The end of a step.
LEMMA Assemble ==
  ASSUME VarsOK', \A d \in Devices : DeviceOK(d)', Created'
  PROVE  IInv'
  BY DEF IInv, TypeOK, VarsOK, DeviceOK

LEMMA TheCallers ==
  ASSUME NEW d \in Devices
  PROVE  /\ <<d, "worker">> \in Callers
         /\ \A m \in MonitorsOf[d] : <<d, m>> \in Callers /\ <<d, m>> # <<d, "worker">>
<1>1. {d} \X ({"worker"} \cup MonitorsOf[d]) \subseteq Callers
  BY DEF Callers
<1>2. <<d, "worker">> \in Callers
  BY <1>1
<1>3. \A m \in MonitorsOf[d] : <<d, m>> \in Callers /\ m # "worker"
  BY <1>1, HostAssumption
<1> QED  BY <1>2, <1>3

LEMMA FaultType ==
  ASSUME TypeOK, Fault \/ UNCHANGED faults
  PROVE  faults' \in 0..MaxFaults
  BY HostAssumption DEF Fault, TypeOK

------------------------------------------------------------------------------
(* reconcileHost. *)

\* A caller that is at work moves on, or returns.
LEMMA CallMoves ==
  ASSUME IInv, NEW a \in Callers, call[a] # NoCall, NEW c, CallOK(c),
         call' = [call EXCEPT ![a] = c],
         UNCHANGED <<agentVars, contextVars, ctxCancel, report, monitor, worker>>,
         entity \subseteq entity', entity' \subseteq HostId,
         connection' \subseteq {ConnectionTo(id) : id \in entity'},
         c.pc = "connection" => c.id \in entity', Fault \/ UNCHANGED faults
  PROVE  IInv'
<1> TypeOK
  BY DEF IInv
<1>1. \A b \in Callers : call'[b] = IF b = a THEN c ELSE call[b]
  BY DEF TypeOK
<1>2. \A b \in Callers : call'[b] # NoCall => call[b] # NoCall
  BY <1>1
<1>3. ASSUME NEW d \in Devices
      PROVE  DeviceOK(d)'
  <2>1. DeviceOK(d)
    BY Parts
  <2>2. UNCHANGED <<lock, context, worker, monitor>>
    BY DEF contextVars
  <2> QED  BY <1>2, <2>1, <2>2, TheCallers DEF DeviceOK
<1>4. VarsOK'
  <2>1. \A b \in Callers : CallOK(call'[b])
    BY <1>1 DEF TypeOK
  <2>2. call' = [b \in Callers |-> call'[b]]
    BY DEF TypeOK
  <2>3. monitor' = [d \in Devices |-> [m \in MonitorsOf[d] |-> monitor'[d][m]]]
    BY DEF TypeOK
  <2>4. worker' = [d \in Devices |-> worker'[d]] /\ faults' \in 0..MaxFaults
    BY FaultType DEF TypeOK
  <2> QED  BY <2>1, <2>2, <2>3, <2>4 DEF VarsOK, TypeOK, agentVars, contextVars
<1>5. Created'
  BY <1>1 DEF IInv, Created
<1> QED  BY <1>3, <1>4, <1>5, Assemble

LEMMA CallInv ==
  ASSUME IInv, NEW a \in Callers, ReconcileStep(a) \/ CallFails(a)
  PROVE  IInv'
<1> TypeOK
  BY DEF IInv
<1>1. /\ call[a] # NoCall /\ CallOK(call[a])
      /\ call[a] \in [pc : {"get", "create", "connection"}, id : HostId]
  <2>1. call[a].pc \in {"get", "create", "connection"} /\ CallOK(call[a])
    BY DEF ReconcileStep, GetHost, CreateHost, CreateConnection, CallFails, CallIs, TypeOK
  <2> QED  BY <2>1 DEF CallOK, NoCall
<1>2. /\ CallOK(NoCall) /\ NoCall.pc = "none"
      /\ \A pc \in {"create", "connection"} : CallOK([call[a] EXCEPT !.pc = pc])
  BY <1>1 DEF CallOK, NoCall
<1>3. connection \subseteq {ConnectionTo(id) : id \in entity} /\ entity \subseteq HostId
  BY DEF TypeOK
<1>4. CASE GetHost(a)
  <2>1. call' = [call EXCEPT ![a] = NoCall] \/ call' = [call EXCEPT ![a].pc = "create"]
    BY <1>4 DEF GetHost, CallReturns, CallGoto
  <2>2. /\ UNCHANGED <<agentVars, contextVars, ctxCancel, report, monitor, worker, topoVars>>
        /\ Fault \/ UNCHANGED faults
    BY <1>4 DEF GetHost
  <2>3. [call[a] EXCEPT !.pc = "create"].pc = "create"
    BY <1>1
  <2> QED  BY <1>1, <1>2, <1>3, <2>1, <2>2, <2>3, CallMoves DEF topoVars
<1>5. CASE CreateHost(a)
  <2>1. \/ call' = [call EXCEPT ![a] = NoCall]
        \/ call' = [call EXCEPT ![a].pc = "connection"]
    BY <1>5 DEF CreateHost, CallReturns, CallGoto
  <2>2. /\ UNCHANGED <<agentVars, contextVars, ctxCancel, report, monitor, worker, connection,
                       faults>>
        /\ entity' = entity \cup {call[a].id}
    BY <1>5 DEF CreateHost
  <2>3. call[a].id \in HostId /\ [call[a] EXCEPT !.pc = "connection"].id = call[a].id
    BY <1>1
  <2> QED  BY <1>1, <1>2, <1>3, <2>1, <2>2, <2>3, CallMoves
<1>6. CASE CreateConnection(a)
  <2>1. call[a].id \in entity
    BY <1>6 DEF CreateConnection, CallIs, IInv, Created
  <2> QED  BY <1>1, <1>2, <1>3, <1>6, <2>1, CallMoves DEF CreateConnection, CallReturns
<1>7. CASE CallFails(a)
  BY <1>1, <1>2, <1>3, <1>7, CallMoves DEF CallFails, CallReturns, topoVars
<1> QED  BY <1>4, <1>5, <1>6, <1>7 DEF ReconcileStep

------------------------------------------------------------------------------
(* The workers: contexts, sweeps. *)

\* The worker of d, which calls nobody, moves on to w; the lock goes along.
LEMMA WorkerMoves ==
  ASSUME IInv, NEW d \in Devices, NEW w, WorkerOK(d, w),
         call[<<d, "worker">>] = NoCall,
         worker' = [worker EXCEPT ![d] = w],
         UNCHANGED <<agentVars, ctxCancel, report, monitor, call, topoVars>>,
         Fault \/ UNCHANGED faults,
         \/ lock' = lock /\ (lock = d <=> w.pc \in {"connect", "agentID"})
         \/ lock = None /\ lock' = d /\ w.pc \in {"connect", "agentID"}
         \/ lock = d /\ lock' = None /\ w.pc \notin {"connect", "agentID"},
         \/ context' = context
         \/ context' = [context EXCEPT ![d].connected = TRUE]
         \/ context' = [context EXCEPT ![d].agentID = d]
  PROVE  IInv'
<1> TypeOK
  BY DEF IInv
<1>1. \A e \in Devices : worker'[e] = IF e = d THEN w ELSE worker[e]
  BY DEF TypeOK
<1>2. /\ context' \in [Devices -> [connected : BOOLEAN, agentID : Devices \cup {NoId}]]
      /\ \A e \in Devices : context'[e].agentID \in {context[e].agentID, e}
  <2>1. context \in [Devices -> [connected : BOOLEAN, agentID : Devices \cup {NoId}]]
    BY DEF TypeOK
  <2>2. CASE context' = context
    BY <2>1, <2>2
  <2>3. CASE context' = [context EXCEPT ![d].connected = TRUE]
    BY <2>1, <2>3
  <2>4. CASE context' = [context EXCEPT ![d].agentID = d]
    BY <2>1, <2>4
  <2> QED  BY <2>2, <2>3, <2>4
<1>3. ASSUME NEW e \in Devices
      PROVE  DeviceOK(e)'
  <2>1. DeviceOK(e) /\ DeviceOK(d) /\ None # e /\ None # d
    BY Parts, HostAssumption
  <2>2. lock' = e <=> worker'[e].pc \in {"connect", "agentID"}
    BY <1>1, <2>1 DEF DeviceOK
  <2> QED  BY <1>1, <1>2, <2>1, <2>2 DEF DeviceOK
<1>4. VarsOK'
  <2>1. worker = [e \in Devices |-> worker[e]]
    BY DEF TypeOK
  <2>2. worker' = [e \in Devices |-> worker'[e]]
    BY <2>1
  <2>3. /\ lock' \in Devices \cup {None}
        /\ faults' \in 0..MaxFaults
    <3>1. lock' \in {lock, d, None} /\ lock \in Devices \cup {None}
      BY DEF TypeOK
    <3>2. faults' \in 0..MaxFaults
      BY FaultType
    <3> QED  BY <3>1, <3>2
  <2>4. monitor' = [e \in Devices |-> [m \in MonitorsOf[e] |-> monitor'[e][m]]]
    BY DEF TypeOK
  <2>5. call' = [b \in Callers |-> call'[b]] /\ \A b \in Callers : CallOK(call'[b])
    BY DEF TypeOK
  <2> QED  BY <1>2, <2>2, <2>3, <2>4, <2>5 DEF VarsOK, TypeOK, agentVars, topoVars
<1>5. Created'
  BY DEF IInv, Created, topoVars
<1> QED  BY <1>3, <1>4, <1>5, Assemble

LEMMA WorkerInv ==
  ASSUME IInv, NEW d \in Devices,
         \/ GetContext(d) \/ Connect(d) \/ GetAgentID(d) \/ ContextFails(d)
         \/ FetchFails(d) \/ FetchNothing(d) \/ FetchHosts(d) \/ DiscoverEnds(d)
  PROVE  IInv'
<1> TypeOK
  BY DEF IInv
<1>1. DeviceOK(d) /\ WorkerOK(d, worker[d]) /\ worker = [e \in Devices |-> worker[e]]
  BY Parts DEF DeviceOK, TypeOK
<1>2. /\ UNCHANGED <<agentVars, ctxCancel, report, monitor, call, topoVars>>
      /\ Fault \/ UNCHANGED faults
  BY DEF GetContext, Connect, GetAgentID, ContextFails, FetchFails, FetchNothing, FetchHosts,
         DiscoverEnds
<1>3. call[<<d, "worker">>] = NoCall
  <2>1. CallOK(call[<<d, "worker">>])
    BY TheCallers DEF TypeOK
  <2> QED
    BY <1>1, <2>1 DEF GetContext, Connect, GetAgentID, ContextFails, FetchFails, FetchNothing,
                      FetchHosts, DiscoverEnds, WorkerGoto, DeviceOK, CallIs, CallOK
<1> DEFINE To(pc) == [worker[d] EXCEPT !.pc = pc]
<1>4. \A pc \in {"idle", "connect", "agentID", "fetch"} :
        WorkerOK(d, To(pc)) /\ To(pc).pc = pc
  BY <1>1 DEF WorkerOK
<1>5. None # d
  BY HostAssumption
<1>6. CASE GetContext(d)
  <2>1. CASE context[d].connected
    BY <1>2, <1>3, <1>4, <1>5, <1>6, <2>1, WorkerMoves DEF GetContext, WorkerGoto
  <2>2. CASE ~context[d].connected
    BY <1>2, <1>3, <1>4, <1>6, <2>2, WorkerMoves DEF GetContext, WorkerGoto
  <2> QED  BY <2>1, <2>2
<1>7. CASE Connect(d)
  <2>1. worker' = [worker EXCEPT ![d] = To("agentID")] /\ lock = d /\ lock' = lock
    BY <1>1, <1>7 DEF Connect, WorkerGoto, DeviceOK
  <2> QED  BY <1>2, <1>3, <1>4, <1>7, <2>1, WorkerMoves DEF Connect
<1>8. CASE GetAgentID(d)
  <2>1. worker' = [worker EXCEPT ![d] = To("fetch")] /\ lock = d /\ lock' = None
    BY <1>1, <1>8 DEF GetAgentID, WorkerGoto, DeviceOK
  <2> QED  BY <1>2, <1>3, <1>4, <1>8, <2>1, WorkerMoves DEF GetAgentID
<1>9. CASE ContextFails(d)
  <2>1. worker' = [worker EXCEPT ![d] = To("idle")] /\ lock = d /\ lock' = None
    BY <1>1, <1>9 DEF ContextFails, WorkerGoto, DeviceOK
  <2> QED  BY <1>2, <1>3, <1>4, <1>9, <2>1, WorkerMoves DEF ContextFails
<1>10. CASE FetchFails(d) \/ FetchNothing(d)
  <2>1. worker' = [worker EXCEPT ![d] = To("idle")] /\ lock # d
    BY <1>1, <1>10 DEF FetchFails, FetchNothing, WorkerGoto, DeviceOK
  <2> QED  BY <1>2, <1>3, <1>4, <1>10, <2>1, WorkerMoves DEF FetchFails, FetchNothing, contextVars
<1>11. CASE FetchHosts(d)
  <2> DEFINE got == [h \in HostsOf(d) |-> agent[h]]
             w == [worker[d] EXCEPT !.pc = "swap", !.got = got]
  <2>1. worker' = [worker EXCEPT ![d] = w] /\ lock # d
    BY <1>1, <1>11 DEF FetchHosts, DeviceOK
  <2>2. got \in [HostsOf(d) -> Ports \cup {None}]
    BY DEF TypeOK, HostsOf
  <2> HIDE DEF got
  <2>3. WorkerOK(d, w) /\ w.pc = "swap"
    BY <1>1, <2>2 DEF WorkerOK
  <2> HIDE DEF w
  <2> QED  BY <1>2, <1>3, <1>11, <2>1, <2>3, WorkerMoves DEF FetchHosts, contextVars
<1>12. CASE DiscoverEnds(d)
  <2>1. worker' = [worker EXCEPT ![d] = To("idle")] /\ lock # d
    BY <1>1, <1>12 DEF DiscoverEnds, WorkerGoto, DeviceOK
  <2> QED  BY <1>2, <1>3, <1>4, <1>12, <2>1, WorkerMoves DEF DiscoverEnds, contextVars
<1> QED  BY <1>6, <1>7, <1>8, <1>9, <1>10, <1>11, <1>12

\* One monitor changes.
MonitorTo(d, n, x) == monitor' = [monitor EXCEPT ![d][n] = x]

LEMMA MonitorSet ==
  ASSUME TypeOK, NEW d \in Devices, NEW n \in MonitorsOf[d], NEW x, MonitorTo(d, n, x)
  PROVE  /\ monitor' = [e \in Devices |-> [m \in MonitorsOf[e] |-> monitor'[e][m]]]
         /\ \A e \in Devices : \A m \in MonitorsOf[e] :
              monitor'[e][m] = IF e = d /\ m = n THEN x ELSE monitor[e][m]
<1>1. /\ monitor = [e \in Devices |-> [m \in MonitorsOf[e] |-> monitor[e][m]]]
      /\ monitor' = [monitor EXCEPT ![d] = [monitor[d] EXCEPT ![n] = x]]
  BY DEF TypeOK, MonitorTo
<1>2. \A e \in Devices : monitor'[e] = IF e = d THEN [monitor[d] EXCEPT ![n] = x] ELSE monitor[e]
  BY <1>1
<1>3. \A e \in Devices : monitor'[e] = [m \in MonitorsOf[e] |-> monitor'[e][m]]
  BY <1>1, <1>2
<1>4. monitor' = [e \in Devices |-> monitor'[e]]
  BY <1>1
<1>5. \A e \in Devices : \A m \in MonitorsOf[e] :
        monitor'[e][m] = IF e = d /\ m = n THEN x ELSE monitor[e][m]
  BY <1>1, <1>2
<1> QED  BY <1>3, <1>4, <1>5

LEMMA SwapReportInv ==
  ASSUME IInv, NEW d \in Devices, SwapReport(d)
  PROVE  IInv'
<1> TypeOK
  BY DEF IInv
<1>1. DeviceOK(d) /\ WorkerOK(d, worker[d]) /\ worker[d].pc = "swap"
  BY Parts DEF DeviceOK, SwapReport
<1> DEFINE w == [IdleWorker EXCEPT !.pc = "hosts", !.todo = {h \in HostsOf(d) : report'[h] # None}]
<1>2. worker' = [worker EXCEPT ![d] = w]
  BY DEF SwapReport
<1>3. WorkerOK(d, w) /\ w.pc = "hosts"
  BY DEF WorkerOK, IdleWorker
<1> HIDE DEF w
<1>4. /\ \A e \in Devices : worker'[e] = IF e = d THEN w ELSE worker[e]
      /\ worker' = [e \in Devices |-> worker'[e]]
  <2>1. worker = [e \in Devices |-> worker[e]]
    BY DEF TypeOK
  <2> QED  BY <1>2, <2>1
<1>5. report' \in [Hosts -> Ports \cup {None}]
  <2>1. worker[d].got \in [HostsOf(d) -> Ports \cup {None}]
    BY <1>1 DEF WorkerOK
  <2> QED  BY <2>1 DEF SwapReport, HostsOf, TypeOK
<1>6. UNCHANGED <<agentVars, lock, context, ctxCancel, call, topoVars, faults>>
  BY DEF SwapReport, contextVars
\* The monitor that is started has none at work.
<1>7. /\ monitor' = [e \in Devices |-> [m \in MonitorsOf[e] |-> monitor'[e][m]]]
      /\ \A e \in Devices : \A m \in MonitorsOf[e] :
           \/ monitor'[e][m] = monitor[e][m]
           \/ monitor[e][m].pc = "off" /\ MonitorOK(e, monitor'[e][m])
  <2>0. /\ monitor = [e \in Devices |-> [m \in MonitorsOf[e] |-> monitor[e][m]]]
        /\ \A e \in Devices : \A m \in MonitorsOf[e] : MonitorOK(e, monitor[e][m])
    BY DEF TypeOK
  <2>1. CASE monitor' = monitor
    BY <2>0, <2>1
  <2>2. CASE \E n \in MonitorsOf[d] :
               /\ monitor[d][n].pc = "off"
               /\ monitor' = [monitor EXCEPT ![d][n].pc = "starting"]
    <3>1. PICK n \in MonitorsOf[d] :
               /\ monitor[d][n].pc = "off"
               /\ monitor' = [monitor EXCEPT ![d][n].pc = "starting"]
      BY <2>2
    <3> DEFINE x == [monitor[d][n] EXCEPT !.pc = "starting"]
    <3>2. MonitorOK(d, x)
      BY <2>0 DEF MonitorOK
    <3>3. MonitorTo(d, n, x)
      BY <3>1 DEF MonitorTo
    <3> HIDE DEF x
    <3>4. /\ monitor' = [e \in Devices |-> [m \in MonitorsOf[e] |-> monitor'[e][m]]]
          /\ \A e \in Devices : \A m \in MonitorsOf[e] :
               monitor'[e][m] = IF e = d /\ m = n THEN x ELSE monitor[e][m]
      BY <3>3, MonitorSet
    <3> QED  BY <3>1, <3>2, <3>4
  <2> QED  BY <2>1, <2>2 DEF SwapReport, StartMonitor
<1>8. ASSUME NEW e \in Devices
      PROVE  DeviceOK(e)'
  <2>1. DeviceOK(e)
    BY Parts
  <2>2. WorkerOK(e, worker'[e]) /\ (lock' = e <=> worker'[e].pc \in {"connect", "agentID"})
    BY <1>1, <1>3, <1>4, <1>6, <2>1 DEF DeviceOK
  <2>3. call'[<<e, "worker">>] # NoCall => worker'[e].pc = "hosts"
    BY <1>3, <1>4, <1>6, <2>1 DEF DeviceOK
  <2>4. \A m \in MonitorsOf[e] : MonitorOK(e, monitor'[e][m])
    BY <1>7, <2>1 DEF DeviceOK
  <2>5. \A m, n \in MonitorsOf[e] :
          call'[<<e, m>>] # NoCall =>
            monitor'[e][m].pc = "on" /\ (n # m => call'[<<e, n>>] = NoCall)
    BY <1>6, <1>7, <2>1 DEF DeviceOK
  <2> QED  BY <1>6, <2>1, <2>2, <2>3, <2>4, <2>5 DEF DeviceOK
<1>9. VarsOK'
  BY <1>4, <1>5, <1>6, <1>7 DEF VarsOK, TypeOK, agentVars, topoVars
<1>10. Created'
  BY <1>6 DEF IInv, Created, topoVars
<1> QED  BY <1>8, <1>9, <1>10, Assemble

\* A call under the agent ID of the context is typed.
LEMMA ReconcileType ==
  ASSUME TypeOK, NEW h \in Hosts, NEW port \in Ports \cup {Zero}
  PROVE  /\ CallOK(Reconcile(h, port)) /\ Reconcile(h, port).pc = "get"
         /\ Reconcile(h, port) # NoCall
<1>1. context[AgentOf[h]].agentID \in Devices \cup {NoId}
  BY HostAssumption DEF TypeOK
<1> QED  BY <1>1 DEF Reconcile, CallOK, HostId, NoCall

LEMMA NextHostInv ==
  ASSUME IInv, NEW d \in Devices, NextHost(d)
  PROVE  IInv'
<1> TypeOK
  BY DEF IInv
<1> DEFINE a == <<d, "worker">>
<1>1. /\ DeviceOK(d) /\ WorkerOK(d, worker[d]) /\ worker[d].pc = "hosts" /\ a \in Callers
      /\ call = [b \in Callers |-> call[b]] /\ worker = [e \in Devices |-> worker[e]]
  BY Parts, TheCallers DEF DeviceOK, NextHost, TypeOK
<1>2. PICK h \in worker[d].todo :
        /\ worker' = [worker EXCEPT ![d].todo = @ \ {h}]
        /\ call' = IF report[h] = None THEN call
                   ELSE [call EXCEPT ![a] = Reconcile(h, report[h])]
  BY DEF NextHost
<1> DEFINE w == [worker[d] EXCEPT !.todo = @ \ {h}]
           c == IF report[h] = None THEN call[a] ELSE Reconcile(h, report[h])
<1>3. WorkerOK(d, w) /\ w.pc = "hosts"
  BY <1>1 DEF WorkerOK
<1>4. CallOK(c) /\ (c.pc = "connection" => c.id \in entity)
  <2>1. h \in Hosts
    BY <1>1, <1>2 DEF WorkerOK, HostsOf
  <2>2. report[h] # None => report[h] \in Ports
    BY <2>1 DEF TypeOK
  <2>3. CallOK(call[a]) /\ (call[a].pc = "connection" => call[a].id \in entity)
    BY <1>1 DEF IInv, Created, TypeOK
  <2> HIDE DEF a
  <2> QED  BY <2>1, <2>2, <2>3, ReconcileType
<1>5. worker' = [worker EXCEPT ![d] = w] /\ call' = [call EXCEPT ![a] = c]
  BY <1>1, <1>2
<1> HIDE DEF w, c
<1>6. /\ \A e \in Devices : worker'[e] = IF e = d THEN w ELSE worker[e]
      /\ worker' = [e \in Devices |-> worker'[e]]
  BY <1>1, <1>5
<1>7. /\ \A b \in Callers : call'[b] = IF b = a THEN c ELSE call[b]
      /\ call' = [b \in Callers |-> call'[b]]
  <2> HIDE DEF a
  <2> QED  BY <1>1, <1>5
<1>8. /\ UNCHANGED <<agentVars, lock, context, ctxCancel, report, monitor, topoVars, faults>>
      /\ monitor' = [e \in Devices |-> [m \in MonitorsOf[e] |-> monitor'[e][m]]]
  BY DEF NextHost, contextVars, TypeOK
<1>9. ASSUME NEW e \in Devices
      PROVE  DeviceOK(e)'
  <2>1. DeviceOK(e)
    BY Parts
  <2>2. WorkerOK(e, worker'[e]) /\ (lock' = e <=> worker'[e].pc \in {"connect", "agentID"})
    BY <1>1, <1>3, <1>6, <1>8, <2>1 DEF DeviceOK
  <2>3. call'[<<e, "worker">>] # NoCall => worker'[e].pc = "hosts"
    <3>1. e # d => <<e, "worker">> # a /\ <<e, "worker">> \in Callers
      BY TheCallers
    <3> HIDE DEF a
    <3> QED  BY <1>3, <1>6, <1>7, <2>1, <3>1 DEF DeviceOK
  <2>4. \A m \in MonitorsOf[e] : call'[<<e, m>>] = call[<<e, m>>]
    <3>1. \A m \in MonitorsOf[e] : <<e, m>> # a /\ <<e, m>> \in Callers
      BY TheCallers, HostAssumption
    <3> HIDE DEF a
    <3> QED  BY <1>7, <3>1
  <2> QED  BY <1>8, <2>1, <2>2, <2>3, <2>4 DEF DeviceOK
<1>10. VarsOK'
  <2>1. \A b \in Callers : CallOK(call'[b])
    BY <1>4, <1>7 DEF TypeOK
  <2> QED  BY <1>6, <1>7, <1>8, <2>1 DEF VarsOK, TypeOK, agentVars, topoVars
<1>11. Created'
  BY <1>4, <1>7, <1>8 DEF IInv, Created, topoVars
<1> QED  BY <1>9, <1>10, <1>11, Assemble

------------------------------------------------------------------------------
(* The monitors. *)

LEMMA MonitorMoves ==
  ASSUME IInv, NEW d \in Devices, NEW n \in MonitorsOf[d], NEW x, MonitorOK(d, x),
         MonitorTo(d, n, x), call[<<d, n>>] = NoCall,
         UNCHANGED <<agentVars, contextVars, report, worker, call, topoVars>>,
         ctxCancel' \in [Devices -> BOOLEAN], Fault \/ UNCHANGED faults
  PROVE  IInv'
<1> TypeOK
  BY DEF IInv
<1>1. /\ monitor' = [e \in Devices |-> [m \in MonitorsOf[e] |-> monitor'[e][m]]]
      /\ \A e \in Devices : \A m \in MonitorsOf[e] :
           monitor'[e][m] = IF e = d /\ m = n THEN x ELSE monitor[e][m]
  BY MonitorSet
<1>2. ASSUME NEW e \in Devices
      PROVE  DeviceOK(e)'
  <2>1. DeviceOK(e) /\ UNCHANGED <<lock, context, worker, call>>
    BY Parts DEF contextVars
  <2>2. \A m \in MonitorsOf[e] : MonitorOK(e, monitor'[e][m])
    BY <1>1, <2>1 DEF DeviceOK
  <2>3. \A m \in MonitorsOf[e] : call[<<e, m>>] # NoCall => monitor'[e][m] = monitor[e][m]
    BY <1>1
  <2> QED  BY <2>1, <2>2, <2>3 DEF DeviceOK
<1>3. VarsOK'
  <2>1. /\ worker' = [e \in Devices |-> worker'[e]] /\ call' = [b \in Callers |-> call'[b]]
        /\ \A b \in Callers : CallOK(call'[b])
    BY DEF TypeOK
  <2>2. faults' \in 0..MaxFaults
    BY FaultType
  <2> QED  BY <1>1, <2>1, <2>2 DEF VarsOK, TypeOK, agentVars, contextVars, topoVars
<1>4. Created'
  BY DEF IInv, Created, topoVars
<1> QED  BY <1>2, <1>3, <1>4, Assemble

LEMMA CancelType ==
  ASSUME NEW f \in [Devices -> BOOLEAN], NEW d \in Devices
  PROVE  [f EXCEPT ![d] = TRUE] \in [Devices -> BOOLEAN]
OBVIOUS

LEMMA SubscribeInv ==
  ASSUME IInv, NEW d \in Devices, NEW m \in MonitorsOf[d], Subscribe(d, m) \/ MonitorEnds(d, m)
  PROVE  IInv'
<1> TypeOK
  BY DEF IInv
<1>1. DeviceOK(d) /\ MonitorOK(d, monitor[d][m])
  BY Parts DEF DeviceOK
<1>2. call[<<d, m>>] = NoCall
  <2>1. <<d, m>> \in Callers /\ CallOK(call[<<d, m>>])
    BY TheCallers DEF TypeOK
  <2> QED  BY <1>1, <2>1 DEF Subscribe, MonitorEnds, DeviceOK, CallIs, CallOK
<1> DEFINE on == [monitor[d][m] EXCEPT !.pc = "on"]
<1>3. MonitorOK(d, on) /\ MonitorOK(d, Off)
  BY <1>1 DEF MonitorOK, Off
<1>4. MonitorTo(d, m, on) \/ MonitorTo(d, m, Off)
  BY DEF Subscribe, MonitorEnds, MonitorTo
<1>5. /\ UNCHANGED <<agentVars, contextVars, report, worker, call, topoVars>>
      /\ ctxCancel' \in {[ctxCancel EXCEPT ![d] = TRUE], ctxCancel}
      /\ Fault \/ UNCHANGED faults
  BY DEF Subscribe, MonitorEnds
<1> HIDE DEF on
<1>6. ctxCancel' \in [Devices -> BOOLEAN]
  <2>1. ctxCancel \in [Devices -> BOOLEAN]
    BY DEF TypeOK
  <2> QED  BY <1>5, <2>1, CancelType
<1> QED  BY <1>2, <1>3, <1>4, <1>5, <1>6, MonitorMoves

LEMMA MonitorRecvInv ==
  ASSUME IInv, NEW d \in Devices, NEW m \in MonitorsOf[d], MonitorRecv(d, m)
  PROVE  IInv'
<1> TypeOK
  BY DEF IInv
<1> DEFINE n == Head(monitor[d][m].inbox)
           h == n.mac
           port == n.port
           held == IF port # None THEN port ELSE IF report[h] # None THEN report[h] ELSE Zero
           a == <<d, m>>
           c == Reconcile(h, held)
           x == [monitor[d][m] EXCEPT !.inbox = Tail(@)]
<1>1. /\ DeviceOK(d) /\ MonitorOK(d, monitor[d][m]) /\ monitor[d][m].pc = "on"
      /\ monitor[d][m].inbox # <<>> /\ ~ContextBusy(d) /\ a \in Callers
  BY Parts, TheCallers DEF DeviceOK, MonitorRecv
<1>2. /\ n \in [mac : HostsOf(d), port : Ports \cup {None}]
      /\ MonitorOK(d, x) /\ x.pc = "on"
  <2> DEFINE S == [mac : HostsOf(d), port : Ports \cup {None}]
             s == monitor[d][m].inbox
  <2>1. s \in Seq(S) /\ s # <<>> /\ monitor[d][m] \in [pc : {"off", "starting", "on"}, inbox : Seq(S)]
    BY <1>1 DEF MonitorOK
  <2> HIDE DEF S
  <2>2. Head(s) \in S /\ Tail(s) \in Seq(S)
    <3> HIDE DEF s
    <3> QED  BY <2>1
  <2>3. x \in [pc : {"off", "starting", "on"}, inbox : Seq(S)] /\ x.pc = "on"
    BY <1>1, <2>1, <2>2
  <2> QED  BY <2>2, <2>3 DEF S, MonitorOK
<1>3. h \in Hosts /\ port \in Ports \cup {None} /\ held \in Ports \cup {Zero} /\ h \in HostsOf(d)
  <2>1. h \in Hosts /\ port \in Ports \cup {None} /\ h \in HostsOf(d)
    BY <1>2 DEF HostsOf
  <2>2. report[h] \in Ports \cup {None}
    BY <2>1 DEF TypeOK
  <2> HIDE DEF n, h
  <2> QED  BY <2>1, <2>2
<1>4. /\ report' = [report EXCEPT ![h] = port] /\ call' = [call EXCEPT ![a] = c]
      /\ MonitorTo(d, m, x)
      /\ UNCHANGED <<agentVars, contextVars, ctxCancel, topoVars, faults>>
      /\ \E more \in IF worker[d].pc = "hosts" /\ port # None THEN {{}, {h}} ELSE {{}} :
           worker' = [worker EXCEPT ![d].todo = @ \cup more]
  BY DEF MonitorRecv, MonitorTo
<1> HIDE DEF n, h, port, held, x
<1>5. CallOK(c) /\ c.pc = "get"
  BY <1>3, ReconcileType
<1>6. /\ monitor' = [e \in Devices |-> [k \in MonitorsOf[e] |-> monitor'[e][k]]]
      /\ \A e \in Devices : \A k \in MonitorsOf[e] :
           monitor'[e][k] = IF e = d /\ k = m THEN x ELSE monitor[e][k]
  BY <1>4, MonitorSet
<1>7. PICK more \in {{}, {h}} : worker' = [worker EXCEPT ![d].todo = @ \cup more]
  BY <1>4
<1>8. /\ worker' = [e \in Devices |-> worker'[e]]
      /\ \A e \in Devices : WorkerOK(e, worker'[e]) /\ worker'[e].pc = worker[e].pc
  <2> DEFINE w == [worker[d] EXCEPT !.todo = @ \cup more]
  <2>1. WorkerOK(d, worker[d]) /\ worker = [e \in Devices |-> worker[e]]
    BY <1>1 DEF DeviceOK, TypeOK
  <2>2. WorkerOK(d, w) /\ w.pc = worker[d].pc
    BY <1>3, <1>7, <2>1 DEF WorkerOK
  <2>3. worker' = [worker EXCEPT ![d] = w]
    BY <1>7
  <2>4. \A e \in Devices : WorkerOK(e, worker[e])
    BY DEF TypeOK
  <2> HIDE DEF w
  <2> QED  BY <2>1, <2>2, <2>3, <2>4
<1> HIDE DEF c
<1>9. /\ \A b \in Callers : call'[b] = IF b = a THEN c ELSE call[b]
      /\ call' = [b \in Callers |-> call'[b]]
  <2>1. call = [b \in Callers |-> call[b]]
    BY DEF TypeOK
  <2> HIDE DEF a
  <2> QED  BY <1>4, <2>1
<1>10. ASSUME NEW e \in Devices
       PROVE  DeviceOK(e)'
  <2>1. DeviceOK(e) /\ UNCHANGED <<lock, context>>
    BY <1>4, Parts DEF contextVars
  <2>2. call'[<<e, "worker">>] = call[<<e, "worker">>]
    BY <1>9, TheCallers
  <2>3. \A k \in MonitorsOf[e] : MonitorOK(e, monitor'[e][k])
    BY <1>2, <1>6, <2>1 DEF DeviceOK
  <2>4. ASSUME NEW j \in MonitorsOf[e], NEW k \in MonitorsOf[e], call'[<<e, j>>] # NoCall
        PROVE  monitor'[e][j].pc = "on" /\ (k # j => call'[<<e, k>>] = NoCall)
    <3>1. <<e, j>> \in Callers /\ <<e, k>> \in Callers
      BY TheCallers
    <3>2. CASE e = d
      <4>1. \A i \in MonitorsOf[d] : call[<<d, i>>] = NoCall
        BY <1>1 DEF ContextBusy
      <4>2. j = m
        BY <1>9, <2>4, <3>1, <3>2, <4>1
      <4> QED  BY <1>2, <1>6, <1>9, <3>1, <3>2, <4>1, <4>2
    <3>3. CASE e # d
      BY <1>6, <1>9, <2>1, <2>4, <3>1, <3>3 DEF DeviceOK
    <3> QED  BY <3>2, <3>3
  <2> QED  BY <1>8, <2>1, <2>2, <2>3, <2>4 DEF DeviceOK
<1>11. VarsOK'
  <2>1. \A b \in Callers : CallOK(call'[b])
    BY <1>5, <1>9 DEF TypeOK
  <2>2. report' \in [Hosts -> Ports \cup {None}]
    BY <1>3, <1>4 DEF TypeOK
  <2> QED
    BY <1>4, <1>6, <1>8, <1>9, <2>1, <2>2 DEF VarsOK, TypeOK, agentVars, contextVars, topoVars
<1>12. Created'
  BY <1>4, <1>5, <1>9 DEF IInv, Created, topoVars
<1> QED  BY <1>10, <1>11, <1>12, Assemble

------------------------------------------------------------------------------
(* The agents, the start and the restart. *)

LEMMA AgentChangeInv ==
  ASSUME IInv, NEW h \in Hosts, AgentChange(h)
  PROVE  IInv'
<1> TypeOK
  BY DEF IInv
<1> DEFINE d == AgentOf[h]
<1>0. d \in Devices /\ h \in HostsOf(d)
  BY HostAssumption DEF HostsOf
<1>1. PICK port \in Ports \cup {None} :
        /\ agent' = [agent EXCEPT ![h] = port]
        /\ monitor' = [monitor EXCEPT ![d] =
             [m \in MonitorsOf[d] |-> Told(monitor[d][m], [mac |-> h, port |-> port])]]
  BY DEF AgentChange
<1> DEFINE v == [mac |-> h, port |-> port]
           x(m) == Told(monitor[d][m], v)
<1>2. \A m \in MonitorsOf[d] : MonitorOK(d, x(m)) /\ x(m).pc = monitor[d][m].pc
  <2> SUFFICES ASSUME NEW m \in MonitorsOf[d]
               PROVE  MonitorOK(d, x(m)) /\ x(m).pc = monitor[d][m].pc
    OBVIOUS
  <2> DEFINE S == [mac : HostsOf(d), port : Ports \cup {None}]
             y == monitor[d][m]
  <2>1. y \in [pc : {"off", "starting", "on"}, inbox : Seq(S)] /\ v \in S
    BY <1>0, <1>1 DEF TypeOK, MonitorOK
  <2> HIDE DEF S, v
  <2>2. Told(y, v) \in [pc : {"off", "starting", "on"}, inbox : Seq(S)] /\ Told(y, v).pc = y.pc
    <3> HIDE DEF y
    <3>1. Append(y.inbox, v) \in Seq(S)
      BY <2>1
    <3> QED  BY <2>1, <3>1 DEF Told
  <2> QED  BY <2>2 DEF S, MonitorOK
<1>3. /\ monitor = [e \in Devices |-> [m \in MonitorsOf[e] |-> monitor[e][m]]]
      /\ monitor' = [monitor EXCEPT ![d] = [m \in MonitorsOf[d] |-> x(m)]]
  <2>1. monitor' = [monitor EXCEPT ![d] = [m \in MonitorsOf[d] |-> x(m)]]
    BY <1>1
  <2> HIDE DEF x
  <2> QED  BY <2>1 DEF TypeOK
<1> HIDE DEF d, x
<1>4. /\ monitor' = [e \in Devices |-> [m \in MonitorsOf[e] |-> monitor'[e][m]]]
      /\ \A e \in Devices : \A m \in MonitorsOf[e] :
           monitor'[e][m] = IF e = d THEN x(m) ELSE monitor[e][m]
  <2>1. \A e \in Devices : monitor'[e] = IF e = d THEN [m \in MonitorsOf[d] |-> x(m)] ELSE monitor[e]
    BY <1>3
  <2>2. \A e \in Devices : monitor'[e] = [m \in MonitorsOf[e] |-> monitor'[e][m]]
    BY <1>3, <2>1
  <2>3. monitor' = [e \in Devices |-> monitor'[e]]
    BY <1>3
  <2> QED  BY <1>3, <2>1, <2>2, <2>3
<1>5. UNCHANGED <<lock, context, ctxCancel, report, worker, call, topoVars, faults>>
  BY DEF AgentChange, contextVars
<1>6. ASSUME NEW e \in Devices
      PROVE  DeviceOK(e)'
  <2>1. DeviceOK(e)
    BY Parts
  <2>2. \A m \in MonitorsOf[e] :
          MonitorOK(e, monitor'[e][m]) /\ monitor'[e][m].pc = monitor[e][m].pc
    BY <1>2, <1>4, <2>1 DEF DeviceOK
  <2> QED  BY <1>5, <2>1, <2>2 DEF DeviceOK
<1>7. VarsOK'
  <2>1. agent' \in [Hosts -> Ports \cup {None}]
    BY <1>1 DEF TypeOK
  <2>2. changes' \in 0..MaxChanges
    <3>1. changes < MaxChanges /\ changes' = changes + 1
      BY DEF AgentChange
    <3> QED  BY <3>1, HostAssumption DEF TypeOK
  <2>3. /\ worker' = [e \in Devices |-> worker'[e]] /\ call' = [b \in Callers |-> call'[b]]
        /\ \A b \in Callers : CallOK(call'[b])
    BY <1>5 DEF TypeOK
  <2> QED  BY <1>4, <1>5, <2>1, <2>2, <2>3 DEF VarsOK, TypeOK, topoVars
<1>8. Created'
  BY <1>5 DEF IInv, Created, topoVars
<1> QED  BY <1>6, <1>7, <1>8, Assemble

\* The process at its start, whatever the agents and onos-topo hold.
AtStart ==
  /\ lock = None
  /\ context = [d \in Devices |-> NoContext]
  /\ ctxCancel = [d \in Devices |-> FALSE]
  /\ report = [h \in Hosts |-> None]
  /\ monitor = [d \in Devices |-> [m \in MonitorsOf[d] |-> Off]]
  /\ worker = [d \in Devices |-> IdleWorker]
  /\ call = [a \in Callers |-> NoCall]

LEMMA StartType ==
  ASSUME AtStart,
         agent \in [Hosts -> Ports \cup {None}], changes \in 0..MaxChanges,
         entity \subseteq HostId, connection \subseteq {ConnectionTo(id) : id \in entity},
         faults \in 0..MaxFaults
  PROVE  IInv
<1>1. \A a \in Callers : call[a] = NoCall /\ CallOK(call[a])
  BY DEF AtStart, CallOK
<1>2. ASSUME NEW d \in Devices
      PROVE  DeviceOK(d)
  <2>1. WorkerOK(d, worker[d]) /\ worker[d].pc = "idle"
    BY DEF AtStart, WorkerOK, IdleWorker
  <2>2. \A m \in MonitorsOf[d] : MonitorOK(d, monitor[d][m])
    BY DEF AtStart, MonitorOK, Off
  <2>3. context[d].agentID = NoId /\ lock = None /\ None # d
    BY HostAssumption DEF AtStart, NoContext
  <2> QED  BY <1>1, <2>1, <2>2, <2>3, TheCallers DEF DeviceOK
<1>3. VarsOK
  <2>1. context \in [Devices -> [connected : BOOLEAN, agentID : Devices \cup {NoId}]]
    BY DEF AtStart, NoContext
  <2>2. monitor = [d \in Devices |-> [m \in MonitorsOf[d] |-> monitor[d][m]]]
    <3>1. \A d \in Devices : monitor[d] = [m \in MonitorsOf[d] |-> Off]
      BY DEF AtStart
    <3>2. \A d \in Devices : [m \in MonitorsOf[d] |-> monitor[d][m]] = [m \in MonitorsOf[d] |-> Off]
      BY <3>1
    <3> QED  BY <3>2 DEF AtStart
  <2> QED  BY <1>1, <2>1, <2>2 DEF AtStart, VarsOK
<1>4. Created
  BY <1>1 DEF Created, NoCall
<1> QED  BY <1>2, <1>3, <1>4, Parts DEF IInv

LEMMA Starts == Init => IInv
<1>1. 0 \in 0..MaxChanges /\ 0 \in 0..MaxFaults
  BY HostAssumption
<1> QED  BY <1>1, StartType DEF Init, AtStart

LEMMA CrashInv ==
  ASSUME IInv, Crash
  PROVE  IInv'
<1>1. AtStart'
  BY DEF AtStart, Crash
<1>2. /\ agent' \in [Hosts -> Ports \cup {None}] /\ changes' \in 0..MaxChanges
      /\ entity' \subseteq HostId /\ connection' \subseteq {ConnectionTo(id) : id \in entity'}
      /\ faults' \in 0..MaxFaults
  <2>1. faults' \in 0..MaxFaults
    BY FaultType DEF Crash, IInv
  <2> QED  BY <2>1 DEF Crash, IInv, TypeOK, agentVars, topoVars
<1>3. (/\ AtStart
       /\ agent \in [Hosts -> Ports \cup {None}] /\ changes \in 0..MaxChanges
       /\ entity \subseteq HostId /\ connection \subseteq {ConnectionTo(id) : id \in entity}
       /\ faults \in 0..MaxFaults
       => IInv)'
  BY StartType, PTL
<1> QED  BY <1>1, <1>2, <1>3

LEMMA Inductive ==
  ASSUME IInv, [Next]_vars
  PROVE  IInv'
<1>1. CASE UNCHANGED vars
  <2>1. UNCHANGED <<agent, changes, lock, context, ctxCancel, report, monitor, worker, call,
                    entity, connection, faults>>
    BY <1>1 DEF vars, agentVars, contextVars, topoVars
  <2>2. ASSUME NEW d \in Devices
        PROVE  DeviceOK(d)'
    <3>1. DeviceOK(d)
      BY Parts DEF IInv
    <3> QED  BY <2>1, <3>1 DEF DeviceOK
  <2>3. VarsOK'
    BY <2>1, Parts DEF IInv, VarsOK
  <2>4. Created'
    BY <2>1 DEF IInv, Created
  <2> QED  BY <2>2, <2>3, <2>4, Assemble
<1>2. ASSUME NEW d \in Devices, WorkerStep(d)
      PROVE  IInv'
  BY <1>2, TheCallers, WorkerInv, SwapReportInv, NextHostInv, CallInv DEF WorkerStep
<1>3. ASSUME NEW d \in Devices, NEW m \in MonitorsOf[d], MonitorStep(d, m)
      PROVE  IInv'
  BY <1>3, TheCallers, SubscribeInv, MonitorRecvInv, CallInv DEF MonitorStep
<1> QED
  BY <1>1, <1>2, <1>3, WorkerInv, SubscribeInv, CallInv, AgentChangeInv, CrashInv DEF Next

------------------------------------------------------------------------------
(* The theorems. *)

\* In every reachable state the lock of all contexts is held exactly by the
\* worker that connects or asks for an ID, at most one monitor of a device
\* reconciles at a time, workers reconcile only while they sweep, and only
\* hosts that exist have a relation, which starts at the bare number of their
\* port (hosts.go, hosts_reconciler.go).
THEOREM TypeCorrect == SafeSpec => []TypeOK
<1>1. IInv /\ [Next]_vars => IInv'
  BY Inductive
<1>2. IInv => TypeOK
  BY DEF IInv
<1> QED  BY Starts, <1>1, <1>2, PTL DEF SafeSpec

\* Everybody who may reconcile does so under the agent's ID, and so do they who
\* reconcile.
Named ==
  /\ \A d \in Devices :
       /\ context[d].connected /\ lock # d => context[d].agentID = d
       /\ worker[d].pc \in {"fetch", "swap", "hosts"} => context[d].agentID = d
       /\ \A m \in MonitorsOf[d] : monitor[d][m].pc # "off" => context[d].agentID = d
  /\ \A a \in Callers : call[a] # NoCall => call[a].id.agent = AgentOf[call[a].id.mac]
  /\ \A id \in entity : id.agent = AgentOf[id.mac]

\* Whoever is about to connect an entity that has been created has it in hand.
InHand ==
  \A id \in entity :
    ConnectionTo(id) \in connection \/ \E a \in Callers : call[a] = [pc |-> "connection", id |-> id]

\* A fault shows.
LEMMA NoFault ==
  ASSUME TypeOK, faults' = 0
  PROVE  ~Fault
  BY HostAssumption DEF Fault, TypeOK

LEMMA FaultsAdd ==
  ASSUME [Next]_vars
  PROVE  Fault \/ UNCHANGED faults
<1>1. ASSUME NEW a \in Callers, ReconcileStep(a) \/ CallFails(a)
      PROVE  Fault \/ UNCHANGED faults
  BY <1>1 DEF ReconcileStep, GetHost, CreateHost, CreateConnection, CallFails
<1>2. ASSUME NEW d \in Devices, GetContext(d) \/ WorkerStep(d) \/ ContextFails(d) \/ FetchFails(d)
      PROVE  Fault \/ UNCHANGED faults
  <2>1. CASE ReconcileStep(<<d, "worker">>)
    BY <1>1, <2>1, TheCallers
  <2>2. CASE ~ReconcileStep(<<d, "worker">>)
    BY <1>2, <2>2 DEF WorkerStep, GetContext, Connect, GetAgentID, ContextFails, FetchFails,
                      FetchNothing, FetchHosts, SwapReport, NextHost, DiscoverEnds
  <2> QED  BY <2>1, <2>2
<1>3. ASSUME NEW d \in Devices, NEW m \in MonitorsOf[d], MonitorStep(d, m) \/ MonitorEnds(d, m)
      PROVE  Fault \/ UNCHANGED faults
  BY <1>1, <1>3, TheCallers DEF MonitorStep, Subscribe, MonitorRecv, MonitorEnds
<1>4. ASSUME (\E h \in Hosts : AgentChange(h)) \/ Crash \/ UNCHANGED vars
      PROVE  Fault \/ UNCHANGED faults
  BY <1>4 DEF AgentChange, Crash, vars
<1> QED  BY <1>1, <1>2, <1>3, <1>4 DEF Next

LEMMA NamedStays ==
  ASSUME IInv, Named, [Next]_vars, faults' = 0
  PROVE  Named'
<1> TypeOK /\ \A d \in Devices : DeviceOK(d)
  BY Parts DEF IInv
<1>0. ~Fault /\ None \notin Devices /\ NoId \notin Devices
  BY HostAssumption, NoFault
\* Nothing but the calls and the entities changes.
<1>1. ASSUME NEW a \in Callers, ReconcileStep(a)
      PROVE  Named'
  <2>1. /\ UNCHANGED <<lock, context, worker, monitor>>
        /\ \A b \in Callers : call'[b] # NoCall => call[b] # NoCall /\ call'[b].id = call[b].id
        /\ \A id \in entity' : id \in entity \/ (call[a] # NoCall /\ id = call[a].id)
    <3>1. call[a] # NoCall /\ call[a] \in [pc : {"get", "create", "connection"}, id : HostId]
      <4>1. call[a].pc \in {"get", "create", "connection"} /\ CallOK(call[a])
        BY <1>1 DEF ReconcileStep, GetHost, CreateHost, CreateConnection, CallIs, TypeOK
      <4> QED  BY <4>1 DEF CallOK, NoCall
    <3>2. \/ call' = [call EXCEPT ![a] = NoCall]
          \/ call' = [call EXCEPT ![a].pc = "create"]
          \/ call' = [call EXCEPT ![a].pc = "connection"]
      BY <1>1 DEF ReconcileStep, GetHost, CreateHost, CreateConnection, CallReturns, CallGoto
    <3>3. call = [b \in Callers |-> call[b]]
      BY DEF TypeOK
    <3>4. \A b \in Callers : call'[b] # NoCall => call[b] # NoCall /\ call'[b].id = call[b].id
      BY <3>1, <3>2, <3>3
    <3>5. UNCHANGED <<lock, context, worker, monitor>>
      BY <1>1 DEF ReconcileStep, GetHost, CreateHost, CreateConnection, contextVars
    <3>6. entity' = entity \/ entity' = entity \cup {call[a].id}
      BY <1>1 DEF ReconcileStep, GetHost, CreateHost, CreateConnection, topoVars
    <3> QED  BY <3>1, <3>4, <3>5, <3>6
  <2> QED  BY <2>1 DEF Named
\* Nothing but one worker and its context does.
<1>2. ASSUME NEW d \in Devices,
             \/ GetContext(d) \/ Connect(d) \/ GetAgentID(d) \/ FetchNothing(d) \/ FetchHosts(d)
             \/ DiscoverEnds(d)
      PROVE  Named'
  <2>1. UNCHANGED <<monitor, call, entity>>
    BY <1>2 DEF GetContext, Connect, GetAgentID, FetchNothing, FetchHosts, DiscoverEnds, topoVars
  <2>2. worker = [e \in Devices |-> worker[e]]
    BY DEF TypeOK
  <2>3. WorkerOK(d, worker[d]) /\ (lock = d <=> worker[d].pc \in {"connect", "agentID"})
    BY DEF DeviceOK
  <2>4. \A e \in Devices : e # d => worker'[e] = worker[e]
    BY <1>2, <2>2 DEF GetContext, Connect, GetAgentID, FetchNothing, FetchHosts, DiscoverEnds,
                           WorkerGoto
  <2>5. CASE GetContext(d)
    <3>1. context' = context /\ worker'[d].pc = IF context[d].connected THEN "fetch" ELSE "connect"
      BY <2>2, <2>3, <2>5 DEF GetContext, WorkerGoto, WorkerOK
    <3>2. lock = None /\ lock' = IF context[d].connected THEN None ELSE d
      BY <2>5 DEF GetContext
    <3> QED  BY <1>0, <2>1, <2>4, <3>1, <3>2 DEF Named
  <2>6. CASE Connect(d)
    <3>1. lock = d /\ lock' = lock /\ worker'[d].pc = "agentID"
      BY <2>2, <2>3, <2>6 DEF Connect, WorkerGoto, WorkerOK
    <3>2. \A e \in Devices : /\ e # d => context'[e] = context[e]
                             /\ context'[e].agentID = context[e].agentID
      BY <2>6 DEF Connect, TypeOK
    <3> QED  BY <2>1, <2>4, <3>1, <3>2 DEF Named
  <2>7. CASE GetAgentID(d)
    <3>1. lock = d /\ lock' = None /\ worker'[d].pc = "fetch"
      BY <2>2, <2>3, <2>7 DEF GetAgentID, WorkerGoto, WorkerOK
    <3>2. \A e \in Devices : context'[e] = IF e = d THEN [context[d] EXCEPT !.agentID = d]
                                                    ELSE context[e]
      BY <2>7 DEF GetAgentID, TypeOK
    <3>3. context'[d].agentID = d
      BY <3>2 DEF TypeOK
    <3> QED  BY <2>1, <2>4, <3>1, <3>2, <3>3 DEF Named
  <2>8. CASE FetchHosts(d)
    <3>1. UNCHANGED <<lock, context>> /\ worker[d].pc = "fetch"
      BY <2>8 DEF FetchHosts, contextVars
    <3> QED  BY <2>1, <2>4, <3>1 DEF Named
  <2>9. CASE DiscoverEnds(d) \/ FetchNothing(d)
    <3>1. UNCHANGED <<lock, context>> /\ worker[d].pc \in {"fetch", "hosts"}
      BY <2>9 DEF DiscoverEnds, FetchNothing, WorkerGoto, contextVars
    <3> QED  BY <2>1, <2>4, <3>1 DEF Named
  <2> QED  BY <1>2, <2>5, <2>6, <2>7, <2>8, <2>9
\* A new call is made under the ID of the context.
<1>3. ASSUME NEW h \in Hosts, NEW port, context[AgentOf[h]].agentID = AgentOf[h]
      PROVE  Reconcile(h, port).id.agent = AgentOf[Reconcile(h, port).id.mac]
  BY <1>3 DEF Reconcile
<1>4. ASSUME NEW d \in Devices, SwapReport(d)
      PROVE  Named'
  <2>1. UNCHANGED <<lock, context, call, entity>> /\ worker[d].pc = "swap"
    BY <1>4 DEF SwapReport, contextVars, topoVars
  <2>2. \A e \in Devices : e # d => worker'[e] = worker[e] /\ monitor'[e] = monitor[e]
    BY <1>4 DEF SwapReport, StartMonitor, TypeOK
  <2> QED  BY <2>1, <2>2 DEF Named
<1>5. ASSUME NEW d \in Devices, NextHost(d)
      PROVE  Named'
  <2> DEFINE a == <<d, "worker">>
  <2>1. UNCHANGED <<lock, context, monitor, entity>> /\ worker[d].pc = "hosts"
    BY <1>5 DEF NextHost, contextVars, topoVars
  <2>2. PICK h \in worker[d].todo :
          /\ worker' = [worker EXCEPT ![d].todo = @ \ {h}]
          /\ call' = IF report[h] = None THEN call
                     ELSE [call EXCEPT ![a] = Reconcile(h, report[h])]
    BY <1>5 DEF NextHost
  <2>3. h \in Hosts /\ AgentOf[h] = d
    <3>1. WorkerOK(d, worker[d])
      BY DEF DeviceOK
    <3>2. worker[d].todo \subseteq HostsOf(d)
      BY <3>1 DEF WorkerOK
    <3> QED  BY <2>2, <3>2 DEF HostsOf
  <2> DEFINE c == Reconcile(h, report[h])
  <2>4. c.id.agent = AgentOf[c.id.mac]
    BY <1>3, <2>1, <2>3 DEF Named
  <2>5. \A b \in Callers : call'[b] \in {call[b], c}
    <3> HIDE DEF a
    <3> QED  BY <2>2 DEF TypeOK
  <2> HIDE DEF c
  <2>6. \A e \in Devices : e # d => worker'[e] = worker[e]
    BY <2>2 DEF TypeOK
  <2> QED  BY <2>1, <2>4, <2>5, <2>6 DEF Named
<1>6. ASSUME NEW d \in Devices, NEW m \in MonitorsOf[d], Subscribe(d, m)
      PROVE  Named'
  <2>1. UNCHANGED <<lock, context, worker, call, entity>> /\ monitor[d][m].pc # "off"
    BY <1>6 DEF Subscribe, contextVars, topoVars
  <2>2. MonitorTo(d, m, [monitor[d][m] EXCEPT !.pc = "on"])
    BY <1>0, <1>6 DEF Subscribe, MonitorTo
  <2>3. \A e \in Devices : \A k \in MonitorsOf[e] :
          monitor'[e][k] = IF e = d /\ k = m THEN [monitor[d][m] EXCEPT !.pc = "on"]
                                             ELSE monitor[e][k]
    BY <2>2, MonitorSet
  <2> QED  BY <2>1, <2>3 DEF Named
<1>7. ASSUME NEW d \in Devices, NEW m \in MonitorsOf[d], MonitorRecv(d, m)
      PROVE  Named'
  <2> DEFINE n == Head(monitor[d][m].inbox)
             held == IF n.port # None THEN n.port
                     ELSE IF report[n.mac] # None THEN report[n.mac] ELSE Zero
             a == <<d, m>>
             x == [monitor[d][m] EXCEPT !.inbox = Tail(@)]
  <2>1. /\ UNCHANGED <<lock, context, entity>> /\ monitor[d][m].pc = "on"
        /\ monitor[d][m].inbox # <<>>
        /\ call' = [call EXCEPT ![a] = Reconcile(n.mac, held)] /\ MonitorTo(d, m, x)
        /\ \E more : worker' = [worker EXCEPT ![d].todo = @ \cup more]
    BY <1>7 DEF MonitorRecv, MonitorTo, contextVars, topoVars
  <2>2. n.mac \in Hosts /\ AgentOf[n.mac] = d
    <3>1. MonitorOK(d, monitor[d][m])
      BY DEF DeviceOK
    <3> DEFINE S == [mac : HostsOf(d), port : Ports \cup {None}]
               s == monitor[d][m].inbox
    <3>2. s \in Seq(S) /\ s # <<>>
      BY <2>1, <3>1 DEF MonitorOK
    <3> HIDE DEF S, s
    <3>3. Head(s) \in S
      BY <3>2
    <3> QED  BY <3>3 DEF S, s, HostsOf
  <2> DEFINE c == Reconcile(n.mac, held)
  <2>3. c.id.agent = AgentOf[c.id.mac]
    <3> HIDE DEF n, held
    <3> QED  BY <1>3, <2>1, <2>2 DEF Named
  <2> HIDE DEF n, held
  <2>4. \A b \in Callers : call'[b] \in {call[b], c}
    <3> HIDE DEF a
    <3> QED  BY <2>1 DEF TypeOK
  <2> HIDE DEF c
  <2>5. \A e \in Devices : worker'[e].pc = worker[e].pc
    <3>1. /\ worker = [e \in Devices |-> worker[e]] /\ WorkerOK(d, worker[d])
      BY DEF TypeOK
    <3> QED  BY <2>1, <3>1 DEF WorkerOK
  <2>6. \A e \in Devices : \A k \in MonitorsOf[e] : monitor'[e][k].pc = monitor[e][k].pc
    <3>1. MonitorOK(d, monitor[d][m])
      BY DEF DeviceOK
    <3>2. x.pc = monitor[d][m].pc
      BY <3>1 DEF MonitorOK
    <3> HIDE DEF x
    <3> QED  BY <2>1, <3>2, MonitorSet
  <2> QED  BY <2>1, <2>3, <2>4, <2>5, <2>6 DEF Named
<1>8. ASSUME NEW h \in Hosts, AgentChange(h)
      PROVE  Named'
  <2>1. UNCHANGED <<lock, context, worker, call, entity>>
    BY <1>8 DEF AgentChange, contextVars, topoVars
  <2>2. PICK port : monitor' = [monitor EXCEPT ![AgentOf[h]] =
          [m \in MonitorsOf[AgentOf[h]] |->
             Told(monitor[AgentOf[h]][m], [mac |-> h, port |-> port])]]
    BY <1>8 DEF AgentChange
  <2>3. \A e \in Devices : \A m \in MonitorsOf[e] :
          monitor'[e][m].pc # "off" => monitor[e][m].pc # "off"
    BY <2>2, HostAssumption DEF Told, TypeOK
  <2> QED  BY <2>1, <2>3 DEF Named
<1>9. CASE UNCHANGED vars
  BY <1>9 DEF vars, contextVars, topoVars, Named
<1>10. ASSUME NEW d \in Devices, WorkerStep(d)
       PROVE  Named'
  BY <1>1, <1>2, <1>4, <1>5, <1>10, TheCallers DEF WorkerStep
<1>11. ASSUME NEW d \in Devices, NEW m \in MonitorsOf[d], MonitorStep(d, m)
       PROVE  Named'
  BY <1>1, <1>6, <1>7, <1>11, TheCallers DEF MonitorStep
<1>12. ~Crash /\ \A d \in Devices : ~ContextFails(d) /\ ~FetchFails(d)
  BY <1>0 DEF Crash, ContextFails, FetchFails
<1>13. /\ \A a \in Callers : ~CallFails(a)
       /\ \A d \in Devices : \A m \in MonitorsOf[d] : ~MonitorEnds(d, m)
  BY <1>0 DEF CallFails, MonitorEnds
<1> QED  BY <1>2, <1>8, <1>9, <1>10, <1>11, <1>12, <1>13 DEF Next

\* Only the caller that has an entity in hand connects it, or drops it in a
\* failure; nobody who does not call has one.
LEMMA InHandStays ==
  ASSUME IInv, InHand, [Next]_vars, faults' = 0
  PROVE  InHand'
<1> TypeOK /\ ~Fault
  BY NoFault DEF IInv
<1>1. ASSUME NEW a \in Callers, ReconcileStep(a)
      PROVE  InHand'
  <2> DEFINE id == call[a].id
  <2>1. /\ call[a].pc \in {"get", "create", "connection"}
        /\ call[a] \in [pc : {"get", "create", "connection"}, id : HostId]
    <3>1. call[a].pc \in {"get", "create", "connection"} /\ CallOK(call[a])
      BY <1>1 DEF ReconcileStep, GetHost, CreateHost, CreateConnection, CallIs, TypeOK
    <3> QED  BY <3>1 DEF CallOK, NoCall
  <2>2. call = [b \in Callers |-> call[b]]
    BY DEF TypeOK
  <2>3. CASE GetHost(a)
    <3>1. UNCHANGED <<entity, connection>> /\ call[a].pc = "get"
      BY <2>3 DEF GetHost, CallIs, topoVars
    <3>2. \A b \in Callers : b # a => call'[b] = call[b]
      BY <2>2, <2>3 DEF GetHost, CallReturns, CallGoto
    <3> QED  BY <3>1, <3>2 DEF InHand
  <2>4. CASE CreateHost(a)
    <3>1. /\ call[a].pc = "create" /\ connection' = connection /\ entity' = entity \cup {id}
          /\ \A b \in Callers : b # a => call'[b] = call[b]
      BY <2>2, <2>4 DEF CreateHost, CallIs, CallReturns, CallGoto
    <3>2. id \in entity \/ call'[a] = [pc |-> "connection", id |-> id]
      BY <2>1, <2>2, <2>4 DEF CreateHost, CallGoto
    <3> HIDE DEF id
    <3> QED  BY <3>1, <3>2 DEF InHand
  <2>5. CASE CreateConnection(a)
    <3>1. /\ entity' = entity /\ connection' = connection \cup {ConnectionTo(id)}
          /\ \A b \in Callers : b # a => call'[b] = call[b]
      BY <2>2, <2>5 DEF CreateConnection, CallReturns
    <3>2. \A j : call[a] = [pc |-> "connection", id |-> j] => j = id
      OBVIOUS
    <3> HIDE DEF id
    <3> QED  BY <3>1, <3>2 DEF InHand
  <2> QED  BY <1>1, <2>3, <2>4, <2>5 DEF ReconcileStep
<1>2. ASSUME UNCHANGED <<entity, connection>>,
             \A a \in Callers : call[a].pc = "connection" => call'[a] = call[a]
      PROVE  InHand'
  BY <1>2 DEF InHand
<1>3. ASSUME NEW a, NEW c, call[a] = NoCall, call' = [call EXCEPT ![a] = c]
      PROVE  \A b \in Callers : call[b].pc = "connection" => call'[b] = call[b]
  BY <1>3 DEF NoCall, TypeOK
<1>4. ASSUME NEW d \in Devices,
             \/ GetContext(d) \/ Connect(d) \/ GetAgentID(d) \/ FetchNothing(d) \/ FetchHosts(d)
             \/ SwapReport(d) \/ DiscoverEnds(d)
      PROVE  InHand'
  <2>1. UNCHANGED <<call, entity, connection>>
    BY <1>4 DEF GetContext, Connect, GetAgentID, FetchNothing, FetchHosts, SwapReport,
                DiscoverEnds, topoVars
  <2> QED  BY <1>2, <2>1
<1>5. ASSUME NEW d \in Devices, NextHost(d)
      PROVE  InHand'
  <2> DEFINE a == <<d, "worker">>
  <2>1. UNCHANGED <<entity, connection>>
    BY <1>5 DEF NextHost, topoVars
  <2>2. call[a] = NoCall
    <3>1. CallOK(call[a]) /\ call[a].pc = "none"
      BY <1>5, TheCallers DEF NextHost, CallIs, TypeOK
    <3> QED  BY <3>1 DEF CallOK
  <2>3. call' = call \/ \E c : call' = [call EXCEPT ![a] = c]
    BY <1>5 DEF NextHost
  <2> HIDE DEF a
  <2> QED  BY <1>2, <1>3, <2>1, <2>2, <2>3
<1>6. ASSUME NEW d \in Devices, NEW m \in MonitorsOf[d], Subscribe(d, m)
      PROVE  InHand'
  BY <1>2, <1>6 DEF Subscribe, topoVars
<1>7. ASSUME NEW d \in Devices, NEW m \in MonitorsOf[d], MonitorRecv(d, m)
      PROVE  InHand'
  <2> DEFINE a == <<d, m>>
  <2>1. /\ UNCHANGED <<entity, connection>> /\ call[a] = NoCall
        /\ \E c : call' = [call EXCEPT ![a] = c]
    BY <1>7 DEF MonitorRecv, ContextBusy, topoVars
  <2> HIDE DEF a
  <2> QED  BY <1>2, <1>3, <2>1
<1>8. ASSUME NEW h \in Hosts, AgentChange(h)
      PROVE  InHand'
  BY <1>2, <1>8 DEF AgentChange, topoVars
<1>9. CASE UNCHANGED vars
  BY <1>2, <1>9 DEF vars, topoVars
<1>10. ASSUME NEW d \in Devices, WorkerStep(d)
       PROVE  InHand'
  BY <1>1, <1>4, <1>5, <1>10, TheCallers DEF WorkerStep
<1>11. ASSUME NEW d \in Devices, NEW m \in MonitorsOf[d], MonitorStep(d, m)
       PROVE  InHand'
  BY <1>1, <1>6, <1>7, <1>11, TheCallers DEF MonitorStep
<1>12. ~Crash /\ \A d \in Devices : ~ContextFails(d) /\ ~FetchFails(d)
  BY DEF Crash, ContextFails, FetchFails
<1>13. /\ \A a \in Callers : ~CallFails(a)
       /\ \A d \in Devices : \A m \in MonitorsOf[d] : ~MonitorEnds(d, m)
  BY DEF CallFails, MonitorEnds
<1> QED  BY <1>4, <1>8, <1>9, <1>10, <1>11, <1>12, <1>13 DEF Next

\* As long as nothing has failed every host entity bears the ID of the agent
\* that sees the host, and has its relation or is in the hands of the caller that
\* is about to create it, whatever number of workers and monitors reconcile the
\* same host at the same time (getHostContext, reconcileHost).  It takes a
\* failure to have an agent asked for its ID in vain, and only that leads to
\* the nameless hosts that the run hosts_agent finds.
THEOREM FaultlessHostsAreWhole == SafeSpec => []FaultlessHostIsWhole
<1> DEFINE Whole == faults = 0 => Named /\ InHand
<1>1. Init => Whole
  <2> SUFFICES ASSUME Init PROVE Named /\ InHand
    OBVIOUS
  <2>1. \A d \in Devices : \A m \in MonitorsOf[d] : monitor[d][m].pc = "off"
    BY DEF Init, Off
  <2> QED  BY <2>1 DEF Init, Named, InHand, NoContext, IdleWorker
<1>2. IInv /\ Whole /\ [Next]_vars => (IInv /\ Whole)'
  <2> SUFFICES ASSUME IInv, Whole, [Next]_vars, faults' = 0
               PROVE  (Named /\ InHand)'
    BY Inductive
  <2>1. faults = 0
    <3>1. ~Fault
      BY NoFault DEF IInv
    <3>2. Fault \/ UNCHANGED faults
      BY FaultsAdd
    <3> QED  BY <3>1, <3>2
  <2> QED  BY <2>1, NamedStays, InHandStays
<1>3. Whole => FaultlessHostIsWhole
  BY DEF Named, InHand, FaultlessHostIsWhole
<1> QED  BY Starts, <1>1, <1>2, <1>3, PTL DEF SafeSpec

==============================================================================
