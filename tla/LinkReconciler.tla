---------------------------- MODULE LinkReconciler ----------------------------
(***************************************************************************)
(* Ingress link discovery: the link reconciler                             *)
(* (pkg/controller/links_reconciler.go), its gNMI reports and monitors     *)
(* (pkg/southbound/links.go), and the link entities in onos-topo.          *)
(*                                                                         *)
(* A device of the realm is discovered by one worker at a time (module     *)
(* Workers) and, once that has succeeded, by a monitor goroutine that      *)
(* applies link notifications as they come.  Both run reconcileLink, which *)
(* reads and writes onos-topo in several calls; so may the worker of the   *)
(* device at the other end of the link.  A link whose egress device is not *)
(* registered is parked in pendingLinks.                                   *)
(*                                                                         *)
(* A device and its agent ID are one here, and the entities of the ports   *)
(* are there already.                                                          *)
(*                                                                         *)
(* Time is a counter: the n-th change at the agents happens at time 2n,    *)
(* and what follows it at 2n + 1.  An agent stamps a link with its own     *)
(* clock (create-time), the controller a deletion with its own             *)
(* (time.Now): nothing synchronizes them, and each is ahead of time by     *)
(* some constant, of up to MaxSkew.                                        *)
(*                                                                         *)
(* External: the agents, as the link each port receives from, and          *)
(* onos-topo, which refuses to create what exists and to update an entity  *)
(* that was changed after it was read.  A failed call, a broken            *)
(* subscription and a crash of the process each use up a fault.            *)
(***************************************************************************)
EXTENDS Naturals, Sequences

CONSTANTS
  RealmDevices,     \* the devices whose links are discovered
  NeighborDevices,  \* the devices of the neighbor realm, only registered
  OutPorts,         \* the ports links start from
  InPorts,          \* the ports of realm devices that links end at
  DeviceOf,         \* the device of each port
  NoLink, None,     \* no link; no entity or snapshot
  AgentSkew,        \* how much the clock of each device's agent is ahead
  ControllerSkew,   \* how much the controller's clock is ahead
  MaxSkew,          \* bound on both
  Hasty,            \* changes that come at any moment; later ones wait for rest
  MaxChanges,       \* bound on the changes at the agents
  MaxFaults         \* bound on the failures

ASSUME LinkAssumption ==
  /\ DeviceOf \in [OutPorts \cup InPorts -> RealmDevices \cup NeighborDevices]
  /\ \A i \in InPorts : DeviceOf[i] \in RealmDevices
  /\ None \notin [status : {"UP", "DOWN"}, last : Nat]
  /\ AgentSkew \in [RealmDevices -> 0..MaxSkew]
  /\ ControllerSkew \in 0..MaxSkew /\ MaxSkew \in Nat
  /\ Hasty \in Nat /\ MaxChanges \in Nat /\ MaxFaults \in Nat

Devices == RealmDevices \cup NeighborDevices
Link == [out : OutPorts, in : InPorts]           \* the ID of a link entity

VARIABLES
  \* the agents
  agent,        \* the link each port receives from
  clock,        \* the time of the last change
  stream,       \* each device's notifications under way to its monitor
  \* pkg/southbound: one agent context for each device of the realm
  report,       \* the links in the current report, by ingress port
  monitor,      \* the link monitor: off, starting, on or dead
  \* pkg/controller
  agentDevices, \* the devices whose agent ID is registered
  pending,      \* pendingLinks
  worker,       \* DiscoverLinks, as the device's worker runs it
  call,         \* reconcileLink, as workers and monitors run it
  \* onos-topo
  entity, originates, terminates,
  faults

agentVars == <<agent, clock>>
reconcilerVars == <<agentDevices, pending>>
topoVars == <<entity, originates, terminates>>
vars == <<agentVars, stream, report, monitor, reconcilerVars, worker, call,
          topoVars, faults>>

\* What the controller's clock shows, the time that the agent of a device gave
\* the links it started with, and the times that anything may bear.
Now == clock + 1 + ControllerSkew
Start(d) == AgentSkew[d]
Past == 0..(clock + 1 + MaxSkew)

Status == {"UP", "DOWN"}
Aspect == [status : Status, last : Past]         \* the Link aspect of an entity
Ingress == [out : OutPorts, ct : Past]           \* a link as a port reports it

\* A southbound.Link as the reconciler holds it.  It is a pointer: while live,
\* it is the object in the current report of its ingress device.  NoLink as
\* egress port stands for the empty egress device of a deleted unknown link.
Held == [out : OutPorts \cup {NoLink}, in : InPorts, ct : Past, live : BOOLEAN]

PortsOf(d) == {i \in InPorts : DeviceOf[i] = d}
IdOf(x) == [out |-> x.out, in |-> x.in]

\* Who runs reconcileLink: a device's worker or its monitor.
Callers == RealmDevices \X {"worker", "monitor"}
NoCall == [pc |-> "none", link |-> None, status |-> "UP", seen |-> None, want |-> None]
IdleWorker == [pc |-> "idle", got |-> None, todo |-> {}, ports |-> {}, port |-> None,
               link |-> None, seen |-> None, want |-> None]

WorkerPcs == {"idle", "fetched", "register", "links", "ports", "absent", "markDown"}
CallPcs == {"none", "resolve", "park", "get", "create", "originates", "terminates", "update"}

CallIs(a, pc) == call[a].pc = pc

CallOK(c) ==
  /\ c \in [pc : CallPcs, link : Held \cup {None}, status : Status,
            seen : Aspect \cup {None}, want : Aspect \cup {None}]
  /\ c.pc # "none" => c.link \in Held
  /\ c.pc \notin {"none", "resolve", "park"} => c.link.out # NoLink
  /\ c.pc \in {"create", "update"} => c.want \in Aspect

WorkerOK(d, w) ==
  /\ w \in [pc : WorkerPcs, got : [PortsOf(d) -> Ingress \cup {NoLink}] \cup {None},
            todo : SUBSET Held, ports : SUBSET PortsOf(d), port : PortsOf(d) \cup {None},
            link : Link \cup {None}, seen : Aspect \cup {None}, want : Aspect \cup {None}]
  /\ w.pc = "fetched" => w.got \in [PortsOf(d) -> Ingress \cup {NoLink}]
  /\ w.pc = "markDown" => w.link \in Link /\ w.want \in Aspect

TypeOK ==
  /\ agent \in [InPorts -> Ingress \cup {NoLink}]
  /\ clock \in {2 * n : n \in 0..MaxChanges}
  /\ stream \in [RealmDevices -> Seq([port : InPorts, link : Ingress \cup {NoLink}])]
  /\ report \in [InPorts -> Ingress \cup {NoLink}]
  /\ monitor \in [RealmDevices -> {"off", "starting", "on", "dead"}]
  /\ agentDevices \in SUBSET Devices
  /\ pending \in SUBSET Held
  /\ worker = [d \in RealmDevices |-> worker[d]]
  /\ call = [a \in Callers |-> call[a]]
  /\ \A a \in Callers : CallOK(call[a])
  /\ \A d \in RealmDevices :
       /\ WorkerOK(d, worker[d])
       /\ CallIs(<<d, "worker">>, "none") \/ worker[d].pc = "links"
       /\ CallIs(<<d, "monitor">>, "none") \/ monitor[d] = "on"
  /\ entity \in [Link -> Aspect \cup {None}]
  /\ originates \in SUBSET Link
  /\ terminates \in SUBSET Link
  /\ faults \in 0..MaxFaults

\* A controller that has just started; some links are up at the agents.
Init ==
  /\ clock = 0
  /\ agent \in [InPorts -> Ingress \cup {NoLink}]
  /\ \A i \in InPorts : agent[i] # NoLink => agent[i].ct = Start(DeviceOf[i])
  /\ \A i, j \in InPorts :
       i # j /\ agent[i] # NoLink /\ agent[j] # NoLink => agent[i].out # agent[j].out
  /\ stream = [d \in RealmDevices |-> <<>>]
  /\ report = [i \in InPorts |-> NoLink]
  /\ monitor = [d \in RealmDevices |-> "off"]
  /\ agentDevices = {}
  /\ pending = {}
  /\ worker = [d \in RealmDevices |-> IdleWorker]
  /\ call = [a \in Callers |-> NoCall]
  /\ entity = [l \in Link |-> None]
  /\ originates = {}
  /\ terminates = {}
  /\ faults = 0

Fault == faults < MaxFaults /\ faults' = faults + 1

------------------------------------------------------------------------------
(* reconcileLink(link, status), as caller a runs it. *)

CallGoto(a, pc) == call' = [call EXCEPT ![a].pc = pc]
CallReturns(a) == call' = [call EXCEPT ![a] = NoCall]
IdOfCall(a) == IdOf(call[a].link)

\* Is the egress device of x registered?  A link without one never is.
Resolved(x) == x.out # NoLink /\ DeviceOf[x.out] \in agentDevices

\* resolveDevices, under the reconciler's lock.
Resolve(a) ==
  /\ CallIs(a, "resolve")
  /\ IF DeviceOf[call[a].link.in] \notin agentDevices THEN CallReturns(a)
     ELSE CallGoto(a, IF Resolved(call[a].link) THEN "get" ELSE "park")
  /\ UNCHANGED <<agentVars, stream, report, monitor, reconcilerVars, worker, topoVars, faults>>

\* addToPendingLinks, under the lock again.  What is parked under the empty
\* device ID is left out: nothing ever reads it.
Park(a) ==
  /\ CallIs(a, "park")
  /\ pending' = IF call[a].link.out = NoLink THEN pending ELSE pending \cup {call[a].link}
  /\ CallReturns(a)
  /\ UNCHANGED <<agentVars, stream, report, monitor, agentDevices, worker, topoVars, faults>>

\* Mutants of NeedsUpdate: any difference counts, and the comparison swapped.
Differs(x, link) == x.last # link.ct
IsNewer(x, link) == x.last > link.ct

\* updateLinkIfNeeded: is what has been read older than the link?
NeedsUpdate(x, link) == x.last < link.ct

\* Get the entity: create it if it cannot be had, update it if it is older.
GetLink(a) ==
  LET c == call[a]
      x == entity[IdOfCall(a)]
  IN
  /\ CallIs(a, "get")
  /\ \/ /\ x = None
        /\ call' = [call EXCEPT ![a].pc = "create",
                                ![a].want = [status |-> "UP", last |-> c.link.ct]]
        /\ UNCHANGED faults
     \/ /\ x # None
        /\ Fault
        /\ call' = [call EXCEPT ![a].pc = "create",
                                ![a].want = [status |-> "UP", last |-> c.link.ct]]
     \/ /\ x # None
        /\ IF NeedsUpdate(x, c.link)
           THEN call' = [call EXCEPT ![a].pc = "update", ![a].seen = x,
                                     ![a].want = [status |-> c.status, last |-> c.link.ct]]
           ELSE CallReturns(a)
        /\ UNCHANGED faults
  /\ UNCHANGED <<agentVars, stream, report, monitor, reconcilerVars, worker, topoVars>>

\* createLink: the entity and its two relations, one call each; whatever fails
\* ends it, and what exists already makes the call fail.
CreateLink(a) ==
  /\ CallIs(a, "create")
  /\ IF entity[IdOfCall(a)] = None
     THEN /\ entity' = [entity EXCEPT ![IdOfCall(a)] = call[a].want]
          /\ CallGoto(a, "originates")
     ELSE /\ CallReturns(a)
          /\ UNCHANGED entity
  /\ UNCHANGED <<agentVars, stream, report, monitor, reconcilerVars, worker,
                 originates, terminates, faults>>

\* Mutant of CreateOriginates: an entity with one relation will do.
CreateOriginatesOnly(a) ==
  /\ CallIs(a, "originates")
  /\ originates' = originates \cup {IdOfCall(a)}
  /\ CallReturns(a)
  /\ UNCHANGED <<agentVars, stream, report, monitor, reconcilerVars, worker,
                 entity, terminates, faults>>

CreateOriginates(a) ==
  /\ CallIs(a, "originates")
  /\ originates' = originates \cup {IdOfCall(a)}
  /\ CallGoto(a, "terminates")
  /\ UNCHANGED <<agentVars, stream, report, monitor, reconcilerVars, worker,
                 entity, terminates, faults>>

CreateTerminates(a) ==
  /\ CallIs(a, "terminates")
  /\ terminates' = terminates \cup {IdOfCall(a)}
  /\ CallReturns(a)
  /\ UNCHANGED <<agentVars, stream, report, monitor, reconcilerVars, worker,
                 entity, originates, faults>>

\* Update the entity, unless it has changed since it was read.
UpdateLink(a) ==
  /\ CallIs(a, "update")
  /\ entity' = IF entity[IdOfCall(a)] = call[a].seen
               THEN [entity EXCEPT ![IdOfCall(a)] = call[a].want]
               ELSE entity
  /\ CallReturns(a)
  /\ UNCHANGED <<agentVars, stream, report, monitor, reconcilerVars, worker,
                 originates, terminates, faults>>

\* A create or an update fails: reconcileLink gives up.
CallFails(a) ==
  /\ call[a].pc \in {"create", "originates", "terminates", "update"}
  /\ Fault
  /\ CallReturns(a)
  /\ UNCHANGED <<agentVars, stream, report, monitor, reconcilerVars, worker, topoVars>>

ReconcileStep(a) ==
  \/ Resolve(a) \/ Park(a) \/ GetLink(a) \/ CreateLink(a) \/ CreateOriginates(a)
  \/ CreateTerminates(a) \/ UpdateLink(a) \/ CallFails(a)

------------------------------------------------------------------------------
(* Pointers.  The links of ports P leave the current report, by a new report,  *)
(* a new link or a deletion; a deletion stamps the link that it deletes, which *)
(* all who hold the link see.                                                  *)

Detached(x, P, stamp) ==
  IF x.live /\ x.in \in P
  THEN [x EXCEPT !.live = FALSE, !.ct = IF stamp = None THEN @ ELSE stamp]
  ELSE x

PendingWithout(P, stamp) == {Detached(x, P, stamp) : x \in pending}

WorkersWithout(P, stamp) ==
  [d \in RealmDevices |->
    [worker[d] EXCEPT !.todo = {Detached(x, P, stamp) : x \in @}]]

CallsWithout(P, stamp) ==
  [a \in Callers |->
    IF CallIs(a, "none") THEN call[a]
    ELSE [call[a] EXCEPT !.link = Detached(@, P, stamp)]]

------------------------------------------------------------------------------
(* DiscoverLinks(d), as the worker of device d runs it. *)

WorkerIs(d, pc) == worker[d].pc = pc
MonitorBusy(d) == ~CallIs(<<d, "monitor">>, "none")

\* GetIngressLinks: ask the agent for its links.  If that fails, so does
\* DiscoverLinks, with nothing changed.
FetchLinks(d) ==
  /\ WorkerIs(d, "idle")
  /\ worker' = [worker EXCEPT ![d].pc = "fetched",
                              ![d].got = [i \in PortsOf(d) |-> agent[i]]]
  /\ UNCHANGED <<agentVars, stream, report, monitor, reconcilerVars, call, topoVars, faults>>

\* GetIngressLinks: make the answer the current report, under the context's
\* lock, which the monitor holds during its callbacks, and start the monitor
\* if it has never been started.
SwapReport(d) ==
  /\ WorkerIs(d, "fetched")
  /\ ~MonitorBusy(d)
  /\ report' = [i \in InPorts |-> IF DeviceOf[i] = d THEN worker[d].got[i] ELSE report[i]]
  /\ monitor' = [monitor EXCEPT ![d] = IF @ = "off" THEN "starting" ELSE @]
  /\ pending' = PendingWithout(PortsOf(d), None)
  /\ worker' = [WorkersWithout(PortsOf(d), None) EXCEPT ![d].pc = "register", ![d].got = None]
  /\ call' = CallsWithout(PortsOf(d), None)
  /\ UNCHANGED <<agentVars, stream, agentDevices, topoVars, faults>>

\* Mutant of RegisterReport: what is parked for d stays parked.
RegisterReportOnly(d) ==
  LET links == {[out |-> report[i].out, in |-> i, ct |-> report[i].ct, live |-> TRUE] :
                  i \in {j \in PortsOf(d) : report[j] # NoLink}}
      resolved == {x \in links : DeviceOf[x.out] \in agentDevices \cup {d}}
  IN
  /\ WorkerIs(d, "register")
  /\ agentDevices' = agentDevices \cup {d}
  /\ worker' = [worker EXCEPT ![d].pc = "links", ![d].todo = resolved]
  /\ pending' = pending \cup (links \ resolved)
  /\ UNCHANGED <<agentVars, stream, report, monitor, call, topoVars, faults>>

\* registerReport, under the reconciler's lock: register d, park the links
\* that are not resolved, and take on the links parked for d.
RegisterReport(d) ==
  LET links == {[out |-> report[i].out, in |-> i, ct |-> report[i].ct, live |-> TRUE] :
                  i \in {j \in PortsOf(d) : report[j] # NoLink}}
      resolved == {x \in links : DeviceOf[x.out] \in agentDevices \cup {d}}
      parkedHere == {x \in pending : DeviceOf[x.out] = d}
  IN
  /\ WorkerIs(d, "register")
  /\ agentDevices' = agentDevices \cup {d}
  /\ worker' = [worker EXCEPT ![d].pc = "links", ![d].todo = resolved \cup parkedHere]
  /\ pending' = (pending \ parkedHere) \cup (links \ resolved)
  /\ UNCHANGED <<agentVars, stream, report, monitor, call, topoVars, faults>>

\* Reconcile the next link, in any order.
NextLink(d) ==
  /\ WorkerIs(d, "links")
  /\ CallIs(<<d, "worker">>, "none")
  /\ \E x \in worker[d].todo :
       /\ worker' = [worker EXCEPT ![d].todo = @ \ {x}]
       /\ call' = [call EXCEPT ![<<d, "worker">>] =
                     [NoCall EXCEPT !.pc = "resolve", !.link = x]]
  /\ UNCHANGED <<agentVars, stream, report, monitor, reconcilerVars, topoVars, faults>>

\* Mutant of QueryPorts: the links are reconciled in the background.
QueryPortsAtOnce(d) ==
  /\ WorkerIs(d, "links")
  /\ worker[d].todo = {}
  /\ worker' = [worker EXCEPT ![d].pc = "ports",
                              ![d].ports = {i \in PortsOf(d) : \E l \in terminates : l.in = i}]
  /\ UNCHANGED <<agentVars, stream, report, monitor, reconcilerVars, call, topoVars, faults>>

\* updateDownedLinks: query the ports of d that are the source of a relation.
QueryPorts(d) ==
  /\ WorkerIs(d, "links")
  /\ CallIs(<<d, "worker">>, "none") /\ worker[d].todo = {}
  /\ worker' = [worker EXCEPT ![d].pc = "ports",
                              ![d].ports = {i \in PortsOf(d) : \E l \in terminates : l.in = i}]
  /\ UNCHANGED <<agentVars, stream, report, monitor, reconcilerVars, call, topoVars, faults>>

\* Mutant of CheckPort: the report is not looked at.
CheckPortBlindly(d) ==
  /\ WorkerIs(d, "ports")
  /\ \E i \in worker[d].ports :
       worker' = [worker EXCEPT ![d].ports = @ \ {i}, ![d].pc = "absent", ![d].port = i]
  /\ UNCHANGED <<agentVars, stream, report, monitor, reconcilerVars, call, topoVars, faults>>

\* The next port, in any order: nothing to do if the report has a link for it.
CheckPort(d) ==
  /\ WorkerIs(d, "ports")
  /\ \E i \in worker[d].ports :
       worker' = IF report[i] = NoLink
                 THEN [worker EXCEPT ![d].ports = @ \ {i}, ![d].pc = "absent", ![d].port = i]
                 ELSE [worker EXCEPT ![d].ports = @ \ {i}]
  /\ UNCHANGED <<agentVars, stream, report, monitor, reconcilerVars, call, topoVars, faults>>

\* The next port cannot be read, which ends the sweep, or neither can its link,
\* which leaves the port.
ReadFails(d) ==
  /\ \/ /\ WorkerIs(d, "ports")
        /\ worker' = [worker EXCEPT ![d] = IdleWorker]
     \/ /\ WorkerIs(d, "absent")
        /\ worker' = [worker EXCEPT ![d].pc = "ports", ![d].port = None]
  /\ Fault
  /\ UNCHANGED <<agentVars, stream, report, monitor, reconcilerVars, call, topoVars>>

\* updateDownedIngressLink: the first link that terminates at the port.
QueryDowned(d) ==
  /\ WorkerIs(d, "absent")
  /\ \E l \in {k \in terminates : k.in = worker[d].port} :
       worker' = IF entity[l].status = "DOWN"
                 THEN [worker EXCEPT ![d].pc = "ports", ![d].port = None]
                 ELSE [worker EXCEPT ![d].pc = "markDown", ![d].port = None, ![d].link = l,
                                     ![d].seen = entity[l],
                                     ![d].want = [status |-> "DOWN", last |-> Now]]
  /\ UNCHANGED <<agentVars, stream, report, monitor, reconcilerVars, call, topoVars, faults>>

\* Mutant of MarkDown: the entity is left alone.
MarkNothing(d) ==
  /\ WorkerIs(d, "markDown")
  /\ worker' = [worker EXCEPT ![d].pc = "ports", ![d].link = None, ![d].seen = None,
                              ![d].want = None]
  /\ UNCHANGED <<agentVars, stream, report, monitor, reconcilerVars, call, topoVars, faults>>

\* Mark it DOWN, unless it has changed since or the update fails.
MarkDown(d) ==
  /\ WorkerIs(d, "markDown")
  /\ worker' = [worker EXCEPT ![d].pc = "ports", ![d].link = None, ![d].seen = None,
                              ![d].want = None]
  /\ \/ /\ entity' = IF entity[worker[d].link] = worker[d].seen
                     THEN [entity EXCEPT ![worker[d].link] = worker[d].want]
                     ELSE entity
        /\ UNCHANGED faults
     \/ Fault /\ UNCHANGED entity
  /\ UNCHANGED <<agentVars, stream, report, monitor, reconcilerVars, call,
                 originates, terminates>>

DiscoverEnds(d) ==
  /\ WorkerIs(d, "ports") /\ worker[d].ports = {}
  /\ worker' = [worker EXCEPT ![d] = IdleWorker]
  /\ UNCHANGED <<agentVars, stream, report, monitor, reconcilerVars, call, topoVars, faults>>

WorkerStep(d) ==
  \/ FetchLinks(d) \/ SwapReport(d) \/ RegisterReport(d) \/ NextLink(d)
  \/ QueryPorts(d) \/ CheckPort(d) \/ QueryDowned(d) \/ ReadFails(d)
  \/ MarkDown(d) \/ DiscoverEnds(d) \/ ReconcileStep(<<d, "worker">>)

\* RegisterAgent(d), as a worker of the neighbor realm runs it.
RegisterAgent(d) ==
  /\ d \notin agentDevices
  /\ agentDevices' = agentDevices \cup {d}
  /\ UNCHANGED <<agentVars, stream, report, monitor, pending, worker, call, topoVars, faults>>

------------------------------------------------------------------------------
(* The link monitor of device d. *)

\* monitorLinkChanges subscribes; nobody restarts a monitor that has ended.
Subscribe(d) ==
  /\ monitor[d] = "starting"
  /\ monitor' = [monitor EXCEPT ![d] = "on"]
  /\ UNCHANGED <<agentVars, stream, report, reconcilerVars, worker, call, topoVars, faults>>

MonitorEnds(d) ==
  /\ monitor[d] \in {"starting", "on"}
  /\ ~MonitorBusy(d)
  /\ Fault
  /\ monitor' = [monitor EXCEPT ![d] = "dead"]
  /\ stream' = [stream EXCEPT ![d] = <<>>]
  /\ UNCHANGED <<agentVars, report, reconcilerVars, worker, call, topoVars>>

\* processLinkResponse: the report is updated and, with the context still
\* locked, LinkAdded or LinkDeleted reconciles the link.
MonitorRecv(d) ==
  /\ monitor[d] = "on"
  /\ ~MonitorBusy(d)
  /\ stream[d] # <<>>
  /\ LET n == Head(stream[d])
         i == n.port
         deleted == n.link = NoLink
         stamp == IF deleted THEN Now ELSE None
         link == IF deleted
                 THEN [out |-> IF report[i] = NoLink THEN NoLink ELSE report[i].out,
                       in |-> i, ct |-> Now, live |-> FALSE]
                 ELSE [out |-> n.link.out, in |-> i, ct |-> n.link.ct, live |-> TRUE]
     IN
     /\ report' = [report EXCEPT ![i] = n.link]
     /\ pending' = PendingWithout({i}, stamp)
     /\ worker' = WorkersWithout({i}, stamp)
     /\ call' = [CallsWithout({i}, stamp) EXCEPT
                   ![<<d, "monitor">>] = [NoCall EXCEPT
                     !.pc = "resolve", !.link = link,
                     !.status = IF deleted THEN "DOWN" ELSE "UP"]]
  /\ stream' = [stream EXCEPT ![d] = Tail(@)]
  /\ UNCHANGED <<agentVars, monitor, agentDevices, topoVars, faults>>

MonitorStep(d) == Subscribe(d) \/ MonitorRecv(d) \/ ReconcileStep(<<d, "monitor">>)

------------------------------------------------------------------------------
(* The agents, and the end of the process. *)

AtRest ==
  /\ \A d \in RealmDevices :
       WorkerIs(d, "idle") /\ stream[d] = <<>> /\ monitor[d] # "starting"
  /\ \A a \in Callers : CallIs(a, "none")

\* The link into port i comes up, anew or from another egress port, or goes down.
\* Agents that change only while discovery is at rest have Hasty = 0.
AgentChange(i) ==
  /\ clock < 2 * MaxChanges
  /\ clock >= 2 * Hasty => AtRest
  /\ clock' = clock + 2
  /\ \E link \in {NoLink} \cup [out : OutPorts, ct : {clock' + AgentSkew[DeviceOf[i]]}] :
       /\ link = NoLink <=> agent[i] # NoLink
       /\ \A j \in InPorts : link # NoLink /\ agent[j] # NoLink => agent[j].out # link.out
       /\ agent' = [agent EXCEPT ![i] = link]
       /\ stream' = IF monitor[DeviceOf[i]] = "on"
                    THEN [stream EXCEPT ![DeviceOf[i]] = Append(@, [port |-> i, link |-> link])]
                    ELSE stream
  /\ UNCHANGED <<report, monitor, reconcilerVars, worker, call, topoVars, faults>>

\* The process ends, also because a failed query of updateDownedLinks leaves it
\* with no stream to read from, and is started again.
Crash ==
  /\ Fault
  /\ stream' = [d \in RealmDevices |-> <<>>]
  /\ report' = [i \in InPorts |-> NoLink]
  /\ monitor' = [d \in RealmDevices |-> "off"]
  /\ agentDevices' = {}
  /\ pending' = {}
  /\ worker' = [d \in RealmDevices |-> IdleWorker]
  /\ call' = [a \in Callers |-> NoCall]
  /\ UNCHANGED <<agentVars, topoVars>>

Next ==
  \/ \E d \in RealmDevices : WorkerStep(d) \/ MonitorStep(d) \/ MonitorEnds(d)
  \/ \E d \in NeighborDevices : RegisterAgent(d)
  \/ \E i \in InPorts : AgentChange(i)
  \/ Crash

\* The workers sweep again and again, the monitors run, and the neighbors are
\* registered in the end.
Fairness ==
  /\ \A d \in RealmDevices : WF_vars(WorkerStep(d)) /\ WF_vars(MonitorStep(d))
  /\ \A d \in NeighborDevices : WF_vars(RegisterAgent(d))

SafeSpec == Init /\ [][Next]_vars
Spec == SafeSpec /\ Fairness

------------------------------------------------------------------------------
(* Properties. *)

\* What whoever reads onos-topo relies on, whatever the clocks show: links are
\* never deleted, have their relations in order, and change for something newer
\* or from UP to DOWN, although workers, monitors and restarts write them at the
\* same time: whoever is late gives up.
Topo == INSTANCE TopoLinks WITH Times <- 0..(2 * MaxChanges + 1 + MaxSkew)
ImplementsTopoLinks == Topo!Spec

\* Neither the workers, the monitors nor a restart take an entity back in time or
\* delete it.  With an agent's clock ahead of the controller's the sweep does: it
\* stamps what it marks DOWN without a look at the stamp that is there.
LastChangeNeverGoesBack ==
  [][\A l \in Link : entity[l] # None =>
       entity'[l] # None /\ entity'[l].last >= entity[l].last]_vars

\* Does the agent of port l.in report link l?
Reports(l) == agent[l.in] # NoLink /\ agent[l.in].out = l.out

\* Does onos-topo have link l, with this status?
Exists(l) == entity[l] # None
Is(l, status) == Exists(l) /\ entity[l].status = status

\* A link that stays down at its agent is DOWN in the end, provided that the
\* terminates relation, by which it is found, has been created.
AbsentLinkGoesDown ==
  \A l \in Link :
    <>[](agent[l.in] = NoLink /\ l \in terminates)
      => <>[]Is(l, "DOWN")

\* What is parked for a device of the realm is taken on in the end.
ParkedIsTakenOn ==
  \A d \in RealmDevices :
    []<>(\A x \in pending : DeviceOf[x.out] # d)

\* A link that stays up at its agent is UP in the end: "... and that the link
\* entity was marked" UP, once the port is enabled again (test/basic).  The code
\* does not do this if the loss is stamped later than the link's create time,
\* because it was processed that late or because the clocks differ.
ReportedLinkIsUp ==
  \A l \in Link :
    <>[]Reports(l) => <>[]Is(l, "UP")

\* Has link l been marked DOWN at a time that its create time does not surpass?
Overtaken(l) ==
  Is(l, "DOWN") /\ agent[l.in] # NoLink /\ entity[l].last >= agent[l.in].ct

\* Only such a stamp keeps a link DOWN that stays up at its agent, and nothing
\* keeps it from being there: no late or lost notification, no race of the callers
\* that reconcile it, no parking, dead monitor, failure or restart.
RisenLinkIsUp ==
  \A l \in Link :
    <>[](Reports(l) /\ ~Overtaken(l)) => <>[]Is(l, "UP")

\* Without failures a link entity has both of its relations in the end,
\* whichever of the callers that reconcile the link has created it: "create port
\* -> link originates/terminates relations if needed" (README).
RelationsExist ==
  []<>(faults = 0 =>
         \A l \in Link : Exists(l) => l \in originates /\ l \in terminates)

\* Without failures a link that lacks a relation is in the hands of the caller
\* that is about to create it.  Whoever finds the entity leaves it at that
\* (reconcileLink): if nobody had it in hand, it would lack the relation for ever.
HalfMadeLinkIsHeld ==
  faults = 0 =>
    \A l \in Link : Exists(l) /\ l \notin terminates =>
      \E a \in Callers :
        /\ CallIs(a, IF l \in originates THEN "terminates" ELSE "originates")
        /\ IdOfCall(a) = l

\* Of a port whose link has never changed, onos-topo has no other link and never
\* says that it is DOWN, whatever happens at the other ports, and although every
\* link leaves the report of a process that is started again: the sweep that
\* looks for downed links always has a report with this one.
SteadyLinkStaysUp ==
  \A i \in InPorts : agent[i] # NoLink /\ agent[i].ct = Start(DeviceOf[i]) =>
    \A l \in Link : l.in = i /\ Exists(l) => l.out = agent[i].out /\ entity[l].status = "UP"

\* A link into a port that stays connected to another one is DOWN in the end:
\* "any topology link entities [go] to down state if they don't have a
\* counterpart in the southbound links report".  The code does not do this: a
\* deletion of a link that onos-topo does not have yet creates it as UP, and no
\* sweep looks at a port that has another link.
ReplacedLinkGoesDown ==
  \A l \in Link :
    <>[](~Reports(l) /\ agent[l.in] # NoLink /\ l \in terminates)
      => <>[]Is(l, "DOWN")

==============================================================================
