---------------------------- MODULE HostReconciler ----------------------------
(***************************************************************************)
(* Host discovery: the host reconciler                                     *)
(* (pkg/controller/hosts_reconciler.go), the contexts of the host agents,  *)
(* their gNMI reports and monitors (pkg/southbound/hosts.go), and the host *)
(* entities in onos-topo.                                                  *)
(*                                                                         *)
(* A sweep of a device, run by one worker at a time (module Workers),      *)
(* first gets the context of its agent, under the one lock of all          *)
(* contexts: if there is no connection yet it is made, and the agent asked *)
(* for its ID, with the lock held.  It then stores the agent's hosts as    *)
(* the current report and reconciles them one by one, while the device's   *)
(* monitors, with the context's own lock held, apply notifications to the  *)
(* same report and reconcile as well.  Hosts are created, never removed.   *)
(*                                                                         *)
(* Addresses and times of hosts are left out; no code compares them.       *)
(*                                                                         *)
(* External: the agents, as the port that each host is seen at; and        *)
(* onos-topo, which refuses to create what exists.  A failed call, a       *)
(* broken subscription and a crash of the process each use up a fault.     *)
(***************************************************************************)
EXTENDS Naturals, Sequences

CONSTANTS
  Devices,     \* the devices of the realm, each with an agent of its own ID
  Hosts,       \* the MAC addresses the agents may see
  AgentOf,     \* the device whose agent may see each of them
  AnswersEmpty,\* the devices whose agents answer, with a notification, when
               \* they see no host; the others answer with none
  Ports,       \* port numbers
  Zero,        \* the port of a host that was made up
  NoId,        \* the empty agent ID
  None,        \* no port, nobody
  MonitorsOf,  \* as many monitors as each device can have at the same time
  MaxChanges,  \* bound on the changes at the agents
  MaxFaults    \* bound on the failures

ASSUME HostAssumption ==
  /\ AgentOf \in [Hosts -> Devices] /\ AnswersEmpty \subseteq Devices
  /\ DOMAIN MonitorsOf = Devices /\ \A d \in Devices : "worker" \notin MonitorsOf[d]
  /\ Zero \notin Ports /\ NoId \notin Devices /\ None \notin Ports \cup {Zero} \cup Devices
  /\ MaxChanges \in Nat /\ MaxFaults \in Nat

VARIABLES
  \* the agents
  agent,      \* the port each host is seen at, or None
  changes,    \* the number of changes so far
  \* pkg/southbound
  lock,       \* the device whose worker holds the lock of all contexts
  context,    \* the connection and the agent ID of each context
  ctxCancel,  \* does the context know how to end a monitor?
  report,     \* the hosts in the current reports
  monitor,    \* the monitors of each device
  \* pkg/controller
  worker,     \* DiscoverHosts, as the device's worker runs it
  call,       \* reconcileHost, as workers and monitors run it
  \* onos-topo
  entity,     \* the host entities
  connection, \* the connection relations, from a port to a host
  faults

agentVars == <<agent, changes>>
contextVars == <<lock, context>>
topoVars == <<entity, connection>>
vars == <<agentVars, contextVars, ctxCancel, report, monitor, worker, call, topoVars, faults>>

HostsOf(d) == {h \in Hosts : AgentOf[h] = d}
HostId == [agent : Devices \cup {NoId}, port : Ports \cup {Zero}, mac : Hosts]

\* The relation of a host.  It does not start at the port, whose entity is
\* called "<device>/<number>", but at the bare number of the port.
ConnectionTo(id) == [source |-> id.port, target |-> id]

Callers == UNION {{d} \X ({"worker"} \cup MonitorsOf[d]) : d \in Devices}
NoCall == [pc |-> "none", id |-> None]
NoContext == [connected |-> FALSE, agentID |-> NoId]
IdleWorker == [pc |-> "idle", got |-> None, todo |-> {}]
Off == [pc |-> "off", inbox |-> <<>>]

\* The context's lock is held by a monitor that reconciles.
ContextBusy(d) == \E m \in MonitorsOf[d] : call[<<d, m>>] # NoCall

WorkerOK(d, w) ==
  /\ w \in [pc : {"idle", "connect", "agentID", "fetch", "swap", "hosts"},
            got : [HostsOf(d) -> Ports \cup {None}] \cup {None}, todo : SUBSET HostsOf(d)]
  /\ w.pc = "swap" => w.got \in [HostsOf(d) -> Ports \cup {None}]

MonitorOK(d, x) ==
  x \in [pc : {"off", "starting", "on"}, inbox : Seq([mac : HostsOf(d), port : Ports \cup {None}])]

CallOK(c) == c = NoCall \/ c \in [pc : {"get", "create", "connection"}, id : HostId]

TypeOK ==
  /\ agent \in [Hosts -> Ports \cup {None}]
  /\ changes \in 0..MaxChanges
  /\ lock \in Devices \cup {None}
  /\ context \in [Devices -> [connected : BOOLEAN, agentID : Devices \cup {NoId}]]
  /\ ctxCancel \in [Devices -> BOOLEAN]
  /\ report \in [Hosts -> Ports \cup {None}]
  /\ monitor = [d \in Devices |-> [m \in MonitorsOf[d] |-> monitor[d][m]]]
  /\ worker = [d \in Devices |-> worker[d]]
  /\ call = [a \in Callers |-> call[a]]
  /\ \A a \in Callers : CallOK(call[a])
  /\ \A d \in Devices :
       /\ WorkerOK(d, worker[d])
       /\ lock = d <=> worker[d].pc \in {"connect", "agentID"}
       /\ context[d].agentID \in {d, NoId}
       /\ call[<<d, "worker">>] # NoCall => worker[d].pc = "hosts"
       /\ \A m \in MonitorsOf[d] : MonitorOK(d, monitor[d][m])
       /\ \A m, n \in MonitorsOf[d] :
            call[<<d, m>>] # NoCall =>
              monitor[d][m].pc = "on" /\ (n # m => call[<<d, n>>] = NoCall)
  /\ entity \subseteq HostId
  /\ connection \subseteq {ConnectionTo(id) : id \in entity}
  /\ faults \in 0..MaxFaults

\* A controller that has just started, and agents that see some of the hosts.
Init ==
  /\ agent \in [Hosts -> Ports \cup {None}]
  /\ changes = 0
  /\ lock = None
  /\ context = [d \in Devices |-> NoContext]
  /\ ctxCancel = [d \in Devices |-> FALSE]
  /\ report = [h \in Hosts |-> None]
  /\ monitor = [d \in Devices |-> [m \in MonitorsOf[d] |-> Off]]
  /\ worker = [d \in Devices |-> IdleWorker]
  /\ call = [a \in Callers |-> NoCall]
  /\ entity = {}
  /\ connection = {}
  /\ faults = 0

Fault == faults < MaxFaults /\ faults' = faults + 1

------------------------------------------------------------------------------
(* reconcileHost, as caller a runs it. *)

CallIs(a, pc) == call[a].pc = pc
CallGoto(a, pc) == call' = [call EXCEPT ![a].pc = pc]
CallReturns(a) == call' = [call EXCEPT ![a] = NoCall]

\* The call for host h at this port, under the agent ID of the context.
Reconcile(h, port) ==
  [pc |-> "get", id |-> [agent |-> context[AgentOf[h]].agentID, port |-> port, mac |-> h]]

\* Nothing to do if the host can be had; otherwise it is created, also if the
\* call has failed.
GetHost(a) ==
  /\ CallIs(a, "get")
  /\ IF call[a].id \in entity
     THEN (CallReturns(a) /\ UNCHANGED faults) \/ (CallGoto(a, "create") /\ Fault)
     ELSE CallGoto(a, "create") /\ UNCHANGED faults
  /\ UNCHANGED <<agentVars, contextVars, ctxCancel, report, monitor, worker, topoVars>>

\* Mutant of CreateHost: the host's relation is left out.
CreateHostOnly(a) ==
  /\ CallIs(a, "create")
  /\ entity' = entity \cup {call[a].id}
  /\ CallReturns(a)
  /\ UNCHANGED <<agentVars, contextVars, ctxCancel, report, monitor, worker, connection, faults>>

\* createHost: the entity and then its relation; what fails ends it.
CreateHost(a) ==
  /\ CallIs(a, "create")
  /\ IF call[a].id \in entity THEN CallReturns(a) ELSE CallGoto(a, "connection")
  /\ entity' = entity \cup {call[a].id}
  /\ UNCHANGED <<agentVars, contextVars, ctxCancel, report, monitor, worker, connection, faults>>

CreateConnection(a) ==
  /\ CallIs(a, "connection")
  /\ connection' = connection \cup {ConnectionTo(call[a].id)}
  /\ CallReturns(a)
  /\ UNCHANGED <<agentVars, contextVars, ctxCancel, report, monitor, worker, entity, faults>>

CallFails(a) ==
  /\ call[a].pc \in {"create", "connection"}
  /\ Fault
  /\ CallReturns(a)
  /\ UNCHANGED <<agentVars, contextVars, ctxCancel, report, monitor, worker, topoVars>>

ReconcileStep(a) == GetHost(a) \/ CreateHost(a) \/ CreateConnection(a)

------------------------------------------------------------------------------
(* getHostContext, under the lock of all contexts. *)

WorkerGoto(d, from, to) ==
  /\ worker[d].pc = from
  /\ worker' = [worker EXCEPT ![d].pc = to]

\* Whoever has no connection yet makes one with the lock held.
GetContext(d) ==
  /\ lock = None
  /\ WorkerGoto(d, "idle", IF context[d].connected THEN "fetch" ELSE "connect")
  /\ lock' = IF context[d].connected THEN None ELSE d
  /\ UNCHANGED <<agentVars, context, ctxCancel, report, monitor, call, topoVars, faults>>

Connect(d) ==
  /\ WorkerGoto(d, "connect", "agentID")
  /\ context' = [context EXCEPT ![d].connected = TRUE]
  /\ UNCHANGED <<agentVars, lock, ctxCancel, report, monitor, call, topoVars, faults>>

GetAgentID(d) ==
  /\ WorkerGoto(d, "agentID", "fetch")
  /\ context' = [context EXCEPT ![d].agentID = d]
  /\ lock' = None
  /\ UNCHANGED <<agentVars, ctxCancel, report, monitor, call, topoVars, faults>>

\* Mutant of ContextFails: the lock is not given back.
ContextFailsLocked(d) ==
  /\ \E pc \in {"connect", "agentID"} : WorkerGoto(d, pc, "idle")
  /\ Fault
  /\ UNCHANGED <<agentVars, contextVars, ctxCancel, report, monitor, call, topoVars>>

\* Either fails: the sweep is over.  A connection that was made is kept.
ContextFails(d) ==
  /\ \E pc \in {"connect", "agentID"} : WorkerGoto(d, pc, "idle")
  /\ Fault
  /\ lock' = None
  /\ UNCHANGED <<agentVars, context, ctxCancel, report, monitor, call, topoVars>>

------------------------------------------------------------------------------
(* GetHosts and DiscoverHosts, as the worker of device d runs them. *)

\* The agent cannot be asked: the sweep is over.
FetchFails(d) ==
  /\ WorkerGoto(d, "fetch", "idle")
  /\ Fault
  /\ UNCHANGED <<agentVars, contextVars, ctxCancel, report, monitor, call, topoVars>>

\* Does the agent answer with a notification?
Answers(d) == d \in AnswersEmpty \/ \E h \in HostsOf(d) : agent[h] # None

\* It answers without a notification: so is it, with the report left as it is.
FetchNothing(d) ==
  /\ ~Answers(d)
  /\ WorkerGoto(d, "fetch", "idle")
  /\ UNCHANGED <<agentVars, contextVars, ctxCancel, report, monitor, call, topoVars, faults>>

\* Ask the agent for its hosts.
FetchHosts(d) ==
  /\ worker[d].pc = "fetch" /\ Answers(d)
  /\ worker' = [worker EXCEPT ![d].pc = "swap", ![d].got = [h \in HostsOf(d) |-> agent[h]]]
  /\ UNCHANGED <<agentVars, contextVars, ctxCancel, report, monitor, call, topoVars, faults>>

\* startMonitor: another one is started as long as none has set ctxCancel.  The
\* bound of the model: who finds all its monitors at work waits for one of them.
StartMonitor(d) ==
  IF ctxCancel[d] THEN UNCHANGED monitor
  ELSE \E m \in MonitorsOf[d] :
         /\ monitor[d][m].pc = "off"
         /\ m = CHOOSE n \in MonitorsOf[d] : monitor[d][n].pc = "off"
         /\ monitor' = [monitor EXCEPT ![d][m].pc = "starting"]

\* Mutant of SwapReport: the answer is added to the current report.
MergeReport(d) ==
  /\ worker[d].pc = "swap"
  /\ ~ContextBusy(d)
  /\ report' = [h \in Hosts |-> IF AgentOf[h] = d /\ worker[d].got[h] # None
                                THEN worker[d].got[h] ELSE report[h]]
  /\ StartMonitor(d)
  /\ worker' = [worker EXCEPT ![d] = [IdleWorker EXCEPT !.pc = "hosts",
                  !.todo = {h \in HostsOf(d) : report'[h] # None}]]
  /\ UNCHANGED <<agentVars, contextVars, ctxCancel, call, topoVars, faults>>

\* Make the answer the current report, and see that there is a monitor.
SwapReport(d) ==
  /\ worker[d].pc = "swap"
  /\ ~ContextBusy(d)
  /\ report' = [h \in Hosts |-> IF AgentOf[h] = d THEN worker[d].got[h] ELSE report[h]]
  /\ StartMonitor(d)
  /\ worker' = [worker EXCEPT ![d] = [IdleWorker EXCEPT !.pc = "hosts",
                  !.todo = {h \in HostsOf(d) : report'[h] # None}]]
  /\ UNCHANGED <<agentVars, contextVars, ctxCancel, call, topoVars, faults>>

\* The next host that is still in the report, in any order.
NextHost(d) ==
  /\ worker[d].pc = "hosts" /\ CallIs(<<d, "worker">>, "none")
  /\ \E h \in worker[d].todo :
       /\ worker' = [worker EXCEPT ![d].todo = @ \ {h}]
       /\ call' = IF report[h] = None THEN call
                  ELSE [call EXCEPT ![<<d, "worker">>] = Reconcile(h, report[h])]
  /\ UNCHANGED <<agentVars, contextVars, ctxCancel, report, monitor, topoVars, faults>>

DiscoverEnds(d) ==
  /\ worker[d].todo = {} /\ CallIs(<<d, "worker">>, "none")
  /\ WorkerGoto(d, "hosts", "idle")
  /\ UNCHANGED <<agentVars, contextVars, ctxCancel, report, monitor, call, topoVars, faults>>

WorkerStep(d) ==
  \/ Connect(d) \/ GetAgentID(d) \/ FetchNothing(d) \/ FetchHosts(d) \/ SwapReport(d)
  \/ NextHost(d) \/ DiscoverEnds(d) \/ ReconcileStep(<<d, "worker">>)

------------------------------------------------------------------------------
(* monitorHostChanges, as monitor m of device d runs it. *)

\* The monitor itself sets ctxCancel, whether it can subscribe or not.
Subscribe(d, m) ==
  /\ monitor[d][m].pc = "starting"
  /\ ctxCancel' = [ctxCancel EXCEPT ![d] = TRUE]
  /\ \/ monitor' = [monitor EXCEPT ![d][m].pc = "on"] /\ UNCHANGED faults
     \/ monitor' = [monitor EXCEPT ![d][m] = Off] /\ Fault
  /\ UNCHANGED <<agentVars, contextVars, report, worker, call, topoVars>>

\* Its stream breaks; nobody starts another one.
MonitorEnds(d, m) ==
  /\ monitor[d][m].pc = "on" /\ CallIs(<<d, m>>, "none")
  /\ Fault
  /\ monitor' = [monitor EXCEPT ![d][m] = Off]
  /\ UNCHANGED <<agentVars, contextVars, ctxCancel, report, worker, call, topoVars>>

\* processHostResponse: the report is updated and the host reconciled, also one
\* that was deleted; that of a deleted host that is not in the report is made
\* up.  The worker may or may not come across an addition.
MonitorRecv(d, m) ==
  /\ monitor[d][m].pc = "on" /\ ~ContextBusy(d)
  /\ monitor[d][m].inbox # <<>>
  /\ LET h == Head(monitor[d][m].inbox).mac
         port == Head(monitor[d][m].inbox).port
         held == IF port # None THEN port ELSE IF report[h] # None THEN report[h] ELSE Zero
     IN
     /\ report' = [report EXCEPT ![h] = port]
     /\ call' = [call EXCEPT ![<<d, m>>] = Reconcile(h, held)]
     /\ \E more \in IF worker[d].pc = "hosts" /\ port # None THEN {{}, {h}} ELSE {{}} :
          worker' = [worker EXCEPT ![d].todo = @ \cup more]
  /\ monitor' = [monitor EXCEPT ![d][m].inbox = Tail(@)]
  /\ UNCHANGED <<agentVars, contextVars, ctxCancel, topoVars, faults>>

MonitorStep(d, m) == Subscribe(d, m) \/ MonitorRecv(d, m) \/ ReconcileStep(<<d, m>>)

------------------------------------------------------------------------------
(* The agents, and the end of the process. *)

\* Monitor x, if it has subscribed, is told of n.
Told(x, n) == IF x.pc = "on" THEN [x EXCEPT !.inbox = Append(@, n)] ELSE x

\* A host appears, leaves or moves to another port; the subscribers are told.
AgentChange(h) ==
  /\ changes < MaxChanges
  /\ changes' = changes + 1
  /\ \E port \in (Ports \cup {None}) \ {agent[h]} :
       /\ agent' = [agent EXCEPT ![h] = port]
       /\ monitor' = [monitor EXCEPT ![AgentOf[h]] =
            [m \in MonitorsOf[AgentOf[h]] |->
               Told(monitor[AgentOf[h]][m], [mac |-> h, port |-> port])]]
  /\ UNCHANGED <<contextVars, ctxCancel, report, worker, call, topoVars, faults>>

\* The process ends, also because the runtime detects the use of a report by a
\* worker and a monitor at once, and is started again.
Crash ==
  /\ Fault
  /\ lock' = None
  /\ context' = [d \in Devices |-> NoContext]
  /\ ctxCancel' = [d \in Devices |-> FALSE]
  /\ report' = [h \in Hosts |-> None]
  /\ monitor' = [d \in Devices |-> [m \in MonitorsOf[d] |-> Off]]
  /\ worker' = [d \in Devices |-> IdleWorker]
  /\ call' = [a \in Callers |-> NoCall]
  /\ UNCHANGED <<agentVars, topoVars>>

Next ==
  \/ \E d \in Devices :
       \/ GetContext(d) \/ WorkerStep(d) \/ ContextFails(d) \/ FetchFails(d)
       \/ \E m \in MonitorsOf[d] : MonitorStep(d, m) \/ MonitorEnds(d, m)
  \/ \E a \in Callers : CallFails(a)
  \/ \E h \in Hosts : AgentChange(h)
  \/ Crash

\* Workers sweep again and again and monitors run.  A Go mutex lets everybody
\* in that waits for it, however often others take it.
Fairness ==
  \A d \in Devices :
    /\ SF_vars(GetContext(d)) /\ WF_vars(WorkerStep(d))
    /\ \A m \in MonitorsOf[d] : WF_vars(MonitorStep(d, m))

SafeSpec == Init /\ [][Next]_vars
Spec == SafeSpec /\ Fairness

------------------------------------------------------------------------------
(* Properties. *)

\* The agent of d was not asked for its ID with success when the connection
\* was made, and never will be.
Nameless(d) == context[d].connected /\ context[d].agentID = NoId /\ lock # d

\* A host that stays where it is has an entity in the end, under its agent's
\* ID unless that could not be had: a sweep that fails while others wait for
\* the lock, lost notifications and a restart only delay it.
ReportedHostExists ==
  \A h \in Hosts, p \in Ports :
    LET d == AgentOf[h] IN
    <>[](agent[h] = p) /\ []<>~Nameless(d)
      => <>([agent |-> d, port |-> p, mac |-> h] \in entity)

\* Without failures every host entity bears the ID of the agent that sees the
\* host, and has its relation or is in the hands of the one caller that is about
\* to create it, whichever workers and monitors reconcile the host at the same
\* time: nobody looks at an entity again that exists (reconcileHost).
FaultlessHostIsWhole ==
  faults = 0 =>
    \A id \in entity :
      /\ id.agent = AgentOf[id.mac]
      /\ \/ ConnectionTo(id) \in connection
         \/ \E a \in Callers : call[a] = [pc |-> "connection", id |-> id]

\* The report settles at what the agent sees: no sweep or monitor that is late
\* brings back a host that is gone or hides one that is there for good.  Only
\* an agent that answers with no notification when its last host has gone
\* leaves that host in the report, if no monitor has been told.
ReportSettles ==
  \A h \in Hosts, p \in Ports \cup {None} :
    p # None \/ AgentOf[h] \in AnswersEmpty =>
      (<>[](agent[h] = p) => <>[](report[h] = p))

\* Every host has an agent's ID: "Connect to the host agent gNMI server and get
\* its agent ID and a map of hosts".  The code does not do this: an agent whose
\* ID could not be had once is never asked again, but its hosts are.
HostsHaveAgent == \A id \in entity : id.agent # NoId

==============================================================================
