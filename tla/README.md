# A verification project for topo-discovery

topo-discovery keeps the topology database *onos-topo* in step with the devices of an SDN
realm.  It sweeps and watches onos-topo for the devices of its realm, asks each of them over
gNMI for its ports, ingress links and hosts, creates and updates the corresponding entities
and relations in onos-topo, and keeps streams open on which the devices report changes.
This directory holds TLA+ modules translated from `pkg/`, the TLC configurations that check
them on small instances, and proofs for TLAPS.  `PROJECT.json` lists the runs, the code each
definition models, a mutation of the code that each checked property catches, what the runs
found, and the hazards the properties are for.

## 1. Inventory

### 1.1 Parts, state and operations

| Part | Code | State | Operations |
|---|---|---|---|
| Job queues and workers | `controller/discovery.go` 86-149, `controller/controller.go` 60-106 | two buffered channels, the map `workingOn` | send, close, `discover`, `discoverNeighbor` |
| Controller lifecycle | `controller/controller.go`, `controller/discovery.go` 14-84 | `state` under a lock, the run goroutine, the watch goroutines | `Start`, `Stop`, `run`, `setState`, `setStateIf`, sweeps, `monitorRealm` |
| Link reconciler | `controller/links_reconciler.go`, `southbound/links.go` | `agentDevices`, `deviceAgents`, `pendingLinks`; per device the current link report and its monitor | `DiscoverLinks`, `RegisterAgent`, `LinkAdded`, `LinkDeleted` |
| Port reconciler | `controller/ports_reconciler.go`, `southbound/ports.go` | per device the port list and its monitor | `DiscoverPorts`, `HandlePortStatus` |
| Host reconciler | `controller/hosts_reconciler.go`, `southbound/hosts.go` | per device a context with a connection, the agent's ID, the host report and its monitors; one lock of all contexts | `DiscoverHosts`, `HostAdded`, `HostDeleted` |
| Agent contexts | `southbound/*.go` | a map of contexts with a lock; each with a connection, an agent ID, a monitor's `ctxCancel` | `getAgentContext`, `getHostContext`, `getDeviceContext`, `startMonitor`, `stopMonitor` |
| Bootstrap service | `northbound/`, `controller/assets.go` | none of its own; it writes onos-topo and reads `state` | `AddPod`, `AddRack`, `AddSwitch`, `AddServerIPU` |
| Manager, command | `manager/`, `cmd/` | none | start and stop |
| onos-topo, devices | external | entities, relations; ports, links, hosts | create, get, update, query, watch; get, subscribe |

### 1.2 Interactions

* The run goroutine and one goroutine for each watch *send* snapshots of entities on the
  channel of their realm; the workers of that realm receive them.  All workers share
  `workingOn`.  `Stop` runs in another goroutine: it sets `state` and closes the channels.
* A worker of the realm *calls* the port, link and host reconcilers one after the other; a
  worker of the neighbor realm only calls `RegisterAgent`.  The reconcilers call the device
  and onos-topo; between two of these calls no lock is held.
* The monitors, which the reconcilers' southbound parts start, *call back* into the
  reconcilers (`HandlePortStatus`, `LinkAdded`, ...), with their context locked.
* A link has two ends: the workers of both devices and a monitor may reconcile the same link
  entity at the same time.  Its egress device need not be known yet; then it is parked in
  `pendingLinks` until that device is.
* The bootstrap service runs each request in a goroutine of its own and writes to onos-topo the
  entities that the sweeps and watches then find.  Of the controller it only reads `state`.

### 1.3 What is hard, and what makes each part correct

* **Workers.** Receiving and claiming an object are two steps, and so are the end of the work
  and the next claim.  Correct: one worker for an object at a time, no claim that outlives
  its work, nothing that was queued is lost, and closed channels drain.
* **Controller.** Three kinds of goroutine read and write `state`, each access under the lock
  but each decision after it.  Correct: a worker never runs without the reconcilers, every
  change is discovered in the end, neighbors included, a broken watch and a stop are noticed and
  not undone, someone receives while the state is Monitoring, and reconnections leave no second watch at work.
* **Links.** Reports that are stale when they are stored, two clocks that nothing synchronizes (the agent's
  stamp of an addition, the controller's stamp of a deletion), several calls to onos-topo that may fail
  or be cut off, lost notifications.  Correct: links change for something newer or go DOWN and get their relations in
  order (`TopoLinks`), nobody lets go of a link that lacks a relation unless a call failed, a link that never changed is
  never DOWN, and every entity settles at what the agent reports, with its relations, as far as the stamps let it.
* **Ports.** The same questions, a map that the sweep and the monitors share without a lock, and
  the restart of a monitor while the earlier one is still calling back.  Correct: entities settle at the device's
  state, those of ports that are gone go, no sweep deletes a port that it was told of, and
  only a failure leaves a port without its relation.
* **Hosts.** An agent ID that is not asked for again, two monitors at work in one context, deletions of
  unknown hosts.  Correct: a host gets its entity under the agent's ID, and its relation, and if nothing
  fails no caller leaves one without the other.
* **Agent contexts.** A lock held over a connection attempt; a monitor that itself records how
  to cancel it.  Correct: every way out gives the lock back, and one device does not keep the others out for ever.
* **Bootstrap.** Several creations in a row, each of which may fail and none of which is taken
  back; two requests for the same ID.  Correct: success means that all of it is there, and what is there
  fits together, so that a sweep that comes upon it half done does no harm; what is half there
  is in the hands of a request, unless a call failed.

## 2. Plan

Written, in this order:

| Module | Role |
|---|---|
| `DiscoverySessions` | abstract specification: the discovery of a device is a sequence of sessions that do not overlap |
| `Workers` | queues and workers; implements `DiscoverySessions` |
| `Controller` | lifecycle, sweeps, watches and `Stop` over the variables of `Workers` (`Pool == INSTANCE Workers`) |
| `TopoLinks` | abstract specification: what a reader of onos-topo may rely on about links and their relations |
| `LinkReconciler` | `DiscoverLinks`, `RegisterAgent`, `LinkAdded`, `LinkDeleted`, the southbound report and monitor, crashes; implements `TopoLinks` |
| `PortReconciler` | `DiscoverPorts`, `HandlePortStatus`, the unlocked map of ports and the monitors' starts and restarts |
| `HostReconciler` | `DiscoverHosts`, `HostAdded`, `HostDeleted`, the contexts with their common lock, the monitors |
| `Assets` | the requests of the bootstrap service, call by call |
| `WorkersProofs`, `ControllerProofs`, `LinkReconcilerProofs`, `PortReconcilerProofs`, `HostReconcilerProofs`, `AssetsProofs` | the theorems about each of them |
| `LinkTopologyProofs` | what is built on `LinkReconcilerProofs`: `LinkReconciler` implements `TopoLinks`, half-made and steady links |
| `MCWorkers`, `MCController`, `MCLinkReconciler`, `MCPortReconciler`, `MCHostReconciler`, `MCAssets` | the instances TLC checks |

Left, the most important first:

1. In `LinkReconciler`, the handshake of the agent contexts: an agent ID that is asked for again, and
   the nil listener of a context that `RegisterAgent` created (`southbound/links.go:114`).
2. Two switches that `Assets` adds, found by `Controller` and discovered by the reconcilers: a composition
   that would join `AddedIsFound`, `RealmChangesAreDiscovered` and `RisenLinkIsUp`.
3. A larger `ports` instance if it comes within reach.

## 3. The modules and the code

**`Workers`.** `queue` and `closed` are the channels, `pc` and `item` the stacks of the worker
goroutines, `workingOn` the keys of the map (its values are never read).  `Receive` and `Exit`
are the `range` loop; `Claim` and `Drop` the critical section of `discover` and
`discoverNeighbor`; `Release` the second one.  Calls of the reconcilers are phases, one step
each, since what they do touches none of this state.

**`Controller`.** `run` and `sweep` are the stack of the run goroutine, `watches` the
goroutines of `monitorRealm` with their streams, in the order in which they were started,
`stopper` that of `Stop`.  Each read or write of `state` is one action, because each takes the
lock for itself.  A send on a full channel blocks; on a closed one it panics (`panicked`).  `connected`
says that the client and the reconcilers were created.  External: onos-topo's entities (`topo`), queries
that return a snapshot, watches that replay what is there and then deliver in order.

**`LinkReconciler`.** `agent` is what each ingress port of a device receives from, `stream` the
notifications on their way, `report` and `monitor` the agent contexts; `worker[d]` is the stack of
`DiscoverLinks`, `call[a]` that of `reconcileLink` for each who may run it.  Every call to a
device or to onos-topo and every critical section is one action; an error in the middle of an answer ends what it ends in
the code (`ReadFails`).  The n-th change happens at time 2n, and what follows it at 2n + 1; the agents stamp what they report with
their clocks (`AgentSkew`), the controller a deletion with its own (`Now`, `ControllerSkew`).  A southbound link is a
pointer into the report: `Held.live` says whether it is still the one in the report, so that
the stamp of a deletion (`links.go` 271-292) reaches whoever holds it.  External: onos-topo refuses to create
what exists and to update what has changed since it was read.

**`TopoLinks`.** Its variables are the part of `LinkReconciler`'s state that is in onos-topo: `entity`, `originates`,
`terminates`.  The refinement is the identity on them (`Topo`), with the readings of all the clocks for `Times`; all the rest,
reports, streams, parked links, workers, monitors and crashes, is what the abstract specification hides.

**`PortReconciler`.** `ports` is the map in the device's context, which the sweep replaces and then
iterates over, and into which monitors write with no lock: a port in it is one and the same object for the
sweep and the monitors until the map is replaced (`live`).  `worker` is the stack of `DiscoverPorts`,
`monitor[m]` that of `monitorPortStatus` and of the `HandlePortStatus` it calls, `ctxCancel` the monitor that
the context would cancel: a monitor sets it when it runs, not when it is started.  A snapshot of an entity is
`fresh` until somebody writes the entity, since onos-topo compares revisions.  A status for a name that is not in
the map makes up a port with number 0 (`Zero`); whether an iteration that is under way comes across it is open, as Go
leaves it open (`more`).

**`HostReconciler`.** `lock` is the lock of all contexts, held from `GetContext` over `Connect` to
`GetAgentID` if the context has no connection yet, and else only for a look; `context` holds what
it protects.  `report`, `monitor` and `ctxCancel` are the context's own; its lock is held by a monitor from the receipt
of a notification to the end of the reconciliation (`ContextBusy`), and by a worker only while it stores a report.
`worker[d]` is the stack of `DiscoverHosts` and `GetHosts`, `call[a]` that of `reconcileHost`.  A host entity is known by
`HostId`, the three parts of its ID.  Its connection is the relation that the code creates (`ConnectionTo`), from the bare number
of the port; the entity of a port has another ID, the device's and the number (`ports_reconciler.go:51`).  An agent that sees no host
answers with an empty notification or with none (`AnswersEmpty`); the latter is an error that leaves the report as it is
(`FetchNothing`).  A deletion of a host that is not in the report makes one up at port `Zero`.

**`Assets`.** `pc[c]` is the call that the request of client `c` is at, or the last answer it was given.  `AddAsset` is
the order of the calls for each kind of asset, `CreateEntity` and `CreateRelation` what each call does, `Object` and `Ipu` the
aspects and labels that are written.  `ready` is `state = Monitoring`, which `Controller` models and which may change at any
moment here.  `Found` is the filter of the sweeps; the label they look for is configured (`RealmLabel`: the realm, the pod or
the rack of the management information).

## 4. Runs

| Run | Instance | States | Shows |
|---|---|---|---|
| `workers` | 2 objects, 2 realm workers, 1 neighbor worker, channels of 2 | 81,000 | all the properties of `Workers`, and that it implements `DiscoverySessions` |
| `controller` | 1 object, 2 workers, channel of 1, 2 revisions, 1 fault | 477,000 | reconcilers exist before they are used; one watch at work at most; changes are discovered whatever the workers drop; broken watches are noticed; a stop is noticed and kept |
| `controller_neighbor` | 1 neighbor object, 1 neighbor worker, 2 revisions, 1 fault | 437,000 | with two watches and two channels, a neighbor that is there to stay is registered |
| `controller_watched` | as `controller`, 1 worker | violation | Monitoring with nobody who receives |
| `controller_stopped` | as `controller_watched`, 1 revision, no fault | violation | the run loop goes on after Stop |
| `links` | 2 devices of the realm, 1 link, 2 changes, the first at any moment, 1 fault, the agents' clocks ahead | 460,000 | `LinkReconciler` implements `TopoLinks`; half-made links are in hand; a link that never changed is never DOWN; a reported link is UP unless its loss is stamped later, and without faults gets its relations; an absent one goes DOWN; parked links are taken on |
| `links_up` | 2 changes at any moment, equal clocks, no fault | violation | a link that came up again stays DOWN |
| `links_replaced` | two egress ports for one ingress port, 2 changes at rest, no fault | violation | the old link of a moved cable stays UP |
| `ports` | 1 device, 1 port, up to 3 monitors at work, 2 changes, 1 fault | 416,000 | port entities settle at the device's state, those of ports that are gone or made up go, listed ones are kept, only failures cost a relation |
| `hosts` | 2 devices, 1 host, 2 monitors for its agent, 2 changes, 2 faults | 327,000 | hosts get their entities and connections, and are whole or in hand while nothing fails; the report settles, no device is kept out of the contexts |
| `hosts_agent` | as `hosts`, 1 change, 1 fault | violation | hosts under an empty agent ID |
| `assets` | 1 pod, 1 rack, 1 switch, 1 server in two places, 5 clients, 1 fault | 96,000 | success means complete; assets are placed as labelled; no IPU without server; half-added assets are in hand; what was added is found, by the pod as realm label |

### 4.1 What the violations say

* `MonitoringIsWatched`: the goroutine that receives is started before `setState(Monitoring)`; if
  it is faster, it ends and only the 30-second sweep is left.
* `StopStops`: `setState` does not look at the state it replaces.  A `Stop` during a dial (`controller.go:169`) or while a watch is
  opened (`discovery.go:65`, `:79`) may be overwritten, and in the initial sweep it always is: a sweep that sees the state ends
  without an error (`discovery.go:29`, `:44`), and `runInitialDiscoverySweep` sets Initialized.  The controller then runs on, with its channels
  closed, until it has something to send, which panics.  `StopIsNoticed` is about every other moment: nobody undoes the stop then, and the run loop ends.
* `ReportedLinkIsUp`: an addition bears the agent's time and a deletion the time at which the
  controller handles it.  Down and up again in quick succession: the deletion is stamped later than the
  addition, which `updateLinkIfNeeded` then takes for old.  The run has equal clocks, which makes haste necessary; it is not if the controller's
  clock is ahead by more than the time for which the link is down: with `Hasty = 0` and `ControllerSkew = 2` TLC finds the
  property violated as well, with equal clocks and `Hasty = 0` it holds.  `RisenLinkIsUp` says that such stamps are the only obstacle, for any clocks.
  And a change at one port, hasty or not, harms no other: a link that never changed is never DOWN (`SteadyLinksStayUp`, section 5).
* `ReplacedLinkGoesDown`: `updateDownedLinks` skips every port for which there is a link in
  the report, whichever it is; and `reconcileLink` creates a link it does not find as UP, also when it was called
  for a deletion.  A link that is lost before its egress device is registered, into a port that is then connected elsewhere,
  stays UP although nothing fails and nothing is in haste.
* `HostsHaveAgent`: the connection is stored before the agent is asked for its ID, and a context with a connection
  counts as complete.  `FaultlessHostsAreWhole` (section 5) says that this is the only way to lose the ID.

What the models also contain, in states that the properties above leave out:

* `Stop` closes the channels and cannot wait for their senders: a send on a closed channel (`discovery.go:31`, `:72`) panics and ends
  the process.
* With a neighbor realm a connection can be lost for ever: the realm's watch breaks and sets Disconnected just before the second
  `setState(Monitoring)` (`discovery.go:79`), and nothing else tells the run loop.  So `BrokenWatchIsNoticed`
  is about controllers without a neighbor realm; TLC finds it violated if `ConnectionLost` leaves that condition out.
* An agent's clock that is ahead of the controller's lets a sweep take an entity back in time: it stamps what it marks DOWN
  without a look at the stamp that is there (`links_reconciler.go:287`).  `TopoLinks` allows that, and
  `LastChangeNeverGoesBack` (section 5) needs a clock that is not behind.
* The relation of a host starts at the bare number of its port (`hosts_reconciler.go:95`), which is the ID of no port entity.  onos-topo
  is taken to accept it.  `FaultlessHostIsWhole` says that a host gets this relation, not that it leads to a port.
* The report of an agent that sees no host any more and answers without a notification (`hosts.go:85`) keeps its last host, if
  no monitor was told that it left, which takes no more than a change between the answer and the subscription.  `ReportSettles`
  is therefore about agents in `AnswersEmpty` where it is about a host that left.
* Entity and relations are several calls, and whoever finds the entity does not look for the relations
  (`links_reconciler.go:122`, `ports_reconciler.go:123`, `hosts_reconciler.go:95`): what a failure or a crash cut off is never made up for.
  So `RelationsExist` speaks of runs without faults, `AbsentLinkGoesDown` of links with their
  `terminates` relation, `PortSettles` and `RemovedPortGoes` of ports that are not `Unrelated`.  That nothing but a failure does this, however the callers
  interleave, is what `HalfMadeLinkIsHeld`, `StrandedByFailures` (a port for each failure at most), `FaultlessHostIsWhole` and
  `HalfAddedIsHeld` say.
* A request that failed half-way and is repeated fails at the entity that exists (`assets.go:37`, `:65`): an asset that one fault
  cut off stays half added, which is why `AskedIsAdded` speaks of runs without faults.  The ID of an IPU is derived from its server's; a switch that is
  asked for under such an ID makes the server fail after its entity was created (`assets.go:71`), without any fault.  `HalfAddedIsHeld` is
  about clients that keep clear of these IDs (`IdsAreApart`).
* `queryFilter` (`discovery.go:47`) asks for `StratumAgents` and `LocalAgents`, while the repository's `README.md:41` names
  `StratumAgents` alone for ports: a switch with only one kind of endpoint is not swept.  `AddedIsFound` is about assets with both.

### 4.2 Bounds

* `QueueDepth` (128 in the code) is 1 or 2, so that channels are often full; the properties do not depend on it, and
  the theorems hold for every depth.
* `MaxVersion`, `MaxChanges`: changes of an entity, of an agent's links, ports or hosts.  Two versions give
  an old and a new snapshot; one change at an arbitrary moment already races with every step of a
  sweep and a monitor, and two give down and up again.
* `Hasty`, `MaxSkew`: in `links` the first change comes at any moment, the second once discovery is at rest, and the agents' clocks are
  ahead of the controller's by one change (2), which is enough for a deletion to be stamped earlier than what it deletes.  TLC has also checked all
  properties of `links` with the controller's clock ahead by as much (438,000 states).
* `MaxFaults`: failed calls, broken streams, lost answers, crashes.  One of them at any moment (two in `hosts`); the system's
  answer to each is to try again, from the same states.  TLC has also checked `OneWatchAtWork` with three faults (481,000 states), and
  `SteadyLinkStaysUp` with its inductive invariant for two ports and two egress ports of two devices of the realm, with one change
  at any moment and one fault (6.4 million states); the theorems cover every number.
* `controller` has two workers, so that one of them drops what the other is working on an earlier revision of: `RealmChangesAreDiscovered`
  is about what a later sweep makes of that.  `controller_stopped` and `controller_watched` show with less what they show.
* `controller_neighbor` has one neighbor worker, so that no event of the neighbor is dropped for another worker's sake; drops
  are in `workers`, where `QueuedIsWorkedOn` says that a dropped object is being worked on.
* `BrokenWatchesHaveEnded` (`Controller`): dialing takes longer than a goroutine of a broken
  stream takes to end.  Otherwise such goroutines pile up and each may end a later
  connection.  `OneWatchAtWork` rests on it as far as broken streams are concerned.  It bounds the states, and it is a statement about timing that the code does not enforce.
* `StartsInTime` (`PortReconciler`): a monitor that is overtaken by the next sweep before it has set
  `ctxCancel` can never be cancelled.  The model lets that happen to one monitor at a time; without the bound such
  monitors pile up.  Three `Monitors` are one of those, one that has been cancelled and still works, and its successor.
  One port is enough for the restarts: its going and coming changes the number of ports.  A port that a monitor adds to the
  map while the sweep iterates over it takes two ports: the theorem `ListedIsKept` covers every number of them, and TLC has checked two
  without faults (954,000 states, longer than these runs are meant to take).
* `MonitorsOf` (`HostReconciler`): two monitors of one agent, the number two sweeps start before the first
  has set `ctxCancel`.  The second device has no hosts; it is there to compete for the lock.
  The agent of the first answers with an empty notification when its host has left, that of the second with none; TLC has also checked
  one change and one fault with all agents of either sort (78,000 and 10,000 states).
* One ingress port, and two egress ports where a cable is moved.  That a change at one port does not harm another is the theorem
  `SteadyLinksStayUp`, and TLC's instance above with two ports.  `AbsentLinkGoesDown` is checked with one
  egress port: with several `terminates` relations of one port the code
  marks the first of them only, which is what `links_replaced` is about.
* `assets`: every kind of asset, and one server asked for in two places, which is where requests for one ID can mix.

### 4.3 Fairness

* The goroutines run (weak fairness of the run loop, of each watch, of each worker and of the closing
  part of `Stop`): the Go scheduler is preemptive, and every call they make is assumed to return (below).
* A blocked sender is let in (strong fairness of `WatchSend`): a Go channel serves its senders
  first come, first served, so the run loop's sweeps cannot keep a watch out forever.
* A worker that waits for the lock of the contexts gets it (strong fairness of `GetContext`): a Go mutex hands itself to
  whoever has waited for too long.  `ReportedHostExists` needs this: the other device may fail and retry for ever.
* `LinkReconciler`, `PortReconciler`, `HostReconciler`: workers sweep again and again, because the controller queues every device
  every 30 seconds (`RealmChangesAreDiscovered`, `QueuedIsWorkedOn`); monitors run; neighbors are
  registered (`NeighborIsRegistered`).
* `Assets`: requests are served, and clients repeat what failed.
* Every call returns in the end, with an answer or an error.  This is an assumption about onos-topo, the agents and the network: the code's contexts
  are only ever cancelled (`controller.go:165`) and have no deadline.  For `grpc.DialContext` it
  means that onos-topo can be reached; without it, a stopped controller that still dials would never notice.  For
  the calls made with the lock of all contexts held (`hosts.go:105`) it means that the agent answers or breaks the connection; one that does neither
  keeps the hosts of every other device from being discovered, and `ReportedHostExists` would not hold.
* Nothing else is assumed of `Stop`'s caller, onos-topo's changes, the devices or of failures.

`CHECK_DEADLOCK FALSE`: a controller that has stopped or panicked, and workers whose channel was
closed and drained, stop for good.  Liveness properties say that they do not stop early.  The reconcilers and `Assets` never
stop; there, too, the liveness properties say more than the absence of a deadlock would.

## 5. Proofs

Every theorem holds for all values of the constants that satisfy the named assumption of the module: finite or not, any
number of objects, workers, devices, ports, clients, any capacity and any bound on changes and faults.

| Module | Theorems | Inductive invariant | Obligations |
|---|---|---|---|
| `WorkersProofs` | `TypeCorrect`, `MutualExclusion`, `ClaimsAreExact`, `WorkersImplementSessions` | `TypeOK /\ NoStaleClaim /\ OneWorkerPerObject` | 346 |
| `ControllerProofs` | `TypeCorrect`, `ControllerExcludes`, `ReconcilersFirst`, `OneWatch`, `StopCannotBeUndone` | `TypeOK /\ SendsEntities /\ ConnectedFirst`, `OneAtWork` without a neighbor realm, `SweepsSomewhere` | 738 |
| `LinkReconcilerProofs` | `TypeCorrect`, `NoEntityGoesBack` | `TypeOK /\ Forward` | 894 |
| `LinkTopologyProofs` | `TopologyIsOrderly`, `NobodyLeavesALinkHalf`, `SteadyLinksStayUp` | the same with `Ordered`, with `HalfMadeLinkIsHeld`, with `SteadyInv` | 1459 |
| `PortReconcilerProofs` | `TypeCorrect`, `ListedIsKept`, `StrandedOnlyByFailures` | `TypeOK /\ Used`, `TypeOK /\ Fresh /\ StrandedByFailures` | 1243 |
| `HostReconcilerProofs` | `TypeCorrect`, `FaultlessHostsAreWhole` | `TypeOK /\ Created`, and `Named /\ InHand` while nothing fails | 1089 |
| `AssetsProofs` | `TypeCorrect`, `SuccessMeansComplete`, `PlacementFollowsLabels`, `NoLooseIpu`, `AddedMatchesFilter`, `NobodyLeavesHalf` | `TypeOK /\ Progress /\ PlacedAsLabelled /\ IpuHasServer /\ Owned` | 439 |

* **Workers.** Mutual exclusion is not inductive.  That a claim excludes everybody else follows from `NoStaleClaim`
  (whoever is busy has its ID in `workingOn`); that a release leaves `workingOn` exact
  follows from mutual exclusion (nobody else relied on the ID that is deleted).  For the
  refinement, `SessionOf(o)` is the phase of the worker of `o`: mutual exclusion makes it
  unique, so a step of a busy worker changes one session, as `Successor` allows, and any other step is a stutter.
* **Controller.** Its actions use those of `Workers` for all that they do to queues and workers, and what a sweep or a
  watch is about to send is an entity (`SendsEntities`); so every step is one of `Workers` or a stutter (a lemma), and the theorems about `Workers` hold of the controller (`ControllerExcludes`).  `ReconcilersFirst` needs
  `ConnectedFirst`: as long as no dial has succeeded, the run loop has not come to a sweep, there is no watch, and the queues and the hands of the workers are empty.
  `OneWatch` needs to know where the run loop and the state may be while a watch is at work (`RunsBeside`): if its stream is whole,
  the state cannot be Disconnected and the run loop cannot dial, since nobody else takes Monitoring back; if it is broken, the dial waits for it.
  `StopCannotBeUndone` needs that whoever is in a sweep was sent there by the initial or the periodic one (`SweepsSomewhere`): the rest of a
  periodic sweep leads back to `monitorTopologyChanges`, which looks at the state.
* **Links.** `Forward`: whoever is about to write an entity holds a snapshot that is older than what it
  writes, or UP where it writes DOWN.  onos-topo only accepts the write if the entity is still that snapshot, so that the entity moves forward or
  goes down.  `NoEntityGoesBack` has the hypothesis that the controller's clock is ahead of the agents' or equal to them (`ControllerSkew = MaxSkew`): no stamp is then later
  than `Now`, with which a deletion is stamped unchecked; without the hypothesis TLC finds a counterexample.  All the other theorems hold for any clocks.
  For `TopologyIsOrderly` that leaves the order of the calls (`Ordered`): who is about to create a relation has seen what it needs come
  into being, who creates an entity creates it UP, and who marks one DOWN has read it UP.  Every action either leaves onos-topo and whatever
  the callers are about to do there alone (`Aside`), or is one call, which maps to one action of `TopoLinks`.
  `HalfMadeLinkIsHeld` is inductive with that: a link is created by the caller that goes on to its relations, and without failures nobody else's step touches that call.
  `SteadyLinksStayUp` follows a link that never changed through the system (`SteadyInv`): reports, notifications, parked links and calls
  hold nothing else for its port, and, what makes it inductive, a worker that looks for downed links has this one in its report, although a
  crash empties the report: the sweep after it fetches before it looks.
* **Ports.** `Used`: as long as the sweep goes through the map, a port of the device's answer whose entity is still marked to be
  deleted is still to be visited.  Monitors add to the map and change statuses, but neither take a port
  away nor change its number; and no other sweep replaces the map meanwhile, since a device has one worker (`MutualExclusion`).
  `StrandedByFailures` counts: a step that strands a port is a failed call or a crash, and strands only the one that the worker has in
  hand.  That no monitor does is because it writes only snapshots that are still current (`Fresh`), which onos-topo has: an
  update never brings an entity back.
* **Hosts.** `TypeOK` holds the agreement of the locks with the stacks: the lock of the contexts is held exactly by the worker that
  connects, and the lock of a context by at most one monitor.  `Created` puts an entity before its relation.  `Named` says that without faults a connected
  context knows its agent's ID once the lock is given back, and that every report and call is that of such a context.
  `InHand` says that a host without its relation belongs to a call that is about to create it.
* **Assets.** `Progress` says what is in onos-topo when a request is at a given call, and that it is what the request asked for:
  since onos-topo refuses to create what exists, an entity belongs to the one request that created it.
  `Owned` says this of runs without failures: of the clients that ask for one ID at most one has got past the creation, and
  it is still at work or was told of success.

Every invariant, every action property and every refinement that a passing run checks has a theorem, but for the first part of
`BrokenWatchIsNoticed`.  Checked by TLC only: liveness (`QueuedIsWorkedOn`, `CloseDrains`, those of `Controller`, the settling and existence properties of the reconcilers,
`AskedIsAdded`), since fairness and ENABLED are out of the prover's reach.

## 6. What is assumed, and what is left out

* Clocks: the agents' (`links.go:177`) and the controller's (`links_reconciler.go:87`, `:287`) are compared by the code but not synchronized; each is
  ahead of time by a constant that the constants of `LinkReconciler` give.  Clocks that drift or jump are left out.
* Durations: pauses and tickers are left out; what they wait for may happen at any time.
* `Controller`: after a reconnection the reconcilers are replaced while workers may be using them,
  a data race on plain fields; the model only asks that they exist.  Contexts that are never cancelled
  appear as watch goroutines that never end.
* `LinkReconciler`: ports are in onos-topo already and `createLink`'s relations succeed if the
  call does; the agent ID is the device (`deviceAgents` and `agentDevices` are one set); a
  subscription starts with no replay; an agent without links answers with an empty notification (if it answered with none, `links.go:89`
  would make that an error, and its last link would stay UP unless the monitor was told; `HostReconciler` has agents of both sorts);
  links parked under the empty device ID, which nothing reads, are left out; the
  monitor's start is one step.  Iterating over the report while the monitor writes it is
  undefined in Go and at worst ends the process: that is `Crash`.
* `PortReconciler`: a port's name is its number, `Enabled` and the other fields change along with
  `LastChange`, the device answers with a notification even if it has no ports, subscribers are told of
  every change of a status and of nothing else, and onos-topo deletes an entity's relations with it.
  If the number of ports stays the same while one replaces
  another, nobody subscribes to the new one; only sweeps find its changes then.
* `HostReconciler`: IP addresses and create times of hosts, which no code compares, and endpoints, which a context never reads again.  Two agents
  never see the same MAC address, and agents have IDs of their own.  Entities are never deleted by the code, so that hosts that moved or
  left stay in onos-topo; no property asks otherwise.  onos-topo accepts a relation whatever its ends are called.
* `Assets`: relations have IDs of their own and can be created again; onos-topo accepts a contains relation whose parent is not there yet, or
  never comes (`assets.go:155`), since nothing in the code checks it; nobody but the service writes these entities.  The realm label is any of the
  labels pod, rack and realm (the repository's `README.md:31` has the pod); the role, which becomes a label as the realm does, is left out.
* After a reconnection, monitors of the earlier reconcilers go on calling those; that is not modelled.

### Not modelled

The command line, certificates and the manager, which call `Start` and `Stop` once each; the gRPC
layer and the parsing of endpoints; protobuf values and logging: none of them keeps a state that the rest depends on.  The integration tests and
`links_reconciler_test.go` are tests; what they state is quoted where a run refutes it.
