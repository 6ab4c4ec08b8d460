---------------------------- MODULE PortReconciler ----------------------------
(***************************************************************************)
(* Port discovery of one device: the port reconciler                       *)
(* (pkg/controller/ports_reconciler.go), its gNMI queries and monitors     *)
(* (pkg/southbound/ports.go), and the port entities in onos-topo.          *)
(*                                                                         *)
(* A sweep, run by one worker at a time (module Workers), asks the device  *)
(* for its ports, makes the answer the current map of ports, reads the     *)
(* port entities and creates, updates and deletes them one by one.         *)
(* Meanwhile monitors change the status of the ports in the same map, with *)
(* no lock, and update the entities.  A monitor is replaced when the       *)
(* number of ports has changed; one that has been told to end, or that     *)
(* could not be told, may still be at work.                                *)
(*                                                                         *)
(* A port's name and its number are one here, except for the port a        *)
(* monitor makes up for a name that is not in the map: it has number Zero. *)
(* Only the status and the time of the last change of a port are kept.     *)
(*                                                                         *)
(* External: the device; and onos-topo, which refuses to create what       *)
(* exists and to update what has changed since it was read, and deletes an *)
(* entity's relations with it.  A failed call, a broken subscription and a *)
(* crash each use up a fault.                                              *)
(***************************************************************************)
EXTENDS Naturals, Sequences, FiniteSets

CONSTANTS
  Ports,        \* the ports the device may have
  Zero,         \* the number of a port that was made up
  None,         \* no port, no entity, no monitor
  Monitors,     \* as many as can be at work at the same time
  MaxChanges,   \* bound on the changes at the device
  MaxFaults     \* bound on the failures

Number == Ports \cup {Zero}
Status == {"UP", "DOWN"}
State == [status : Status, last : 0..MaxChanges]
Port == [number : Number, state : State]       \* a topo.Port in the map

\* A snapshot of an entity is fresh until the entity is written: onos-topo
\* compares its revision.
Snapshot == [state : State, fresh : BOOLEAN]

ASSUME PortAssumption ==
  /\ Zero \notin Ports
  /\ None \notin Monitors \cup Number \cup State \cup Port \cup Snapshot
  /\ MaxChanges \in Nat /\ MaxFaults \in Nat

VARIABLES
  device,     \* the state of each port of the device, or None
  changes,    \* the number of changes so far
  ports,      \* deviceContext.ports, by name
  ctxCancel,  \* the monitor that deviceContext.ctxCancel would end
  monitor,    \* the monitors, and HandlePortStatus as they run it
  worker,     \* DiscoverPorts, as the device's worker runs it
  entity,     \* the port entities in onos-topo, by number
  has,        \* those with a has relation from the device
  faults

deviceVars == <<device, changes>>
contextVars == <<ports, ctxCancel>>
topoVars == <<entity, has>>
vars == <<deviceVars, contextVars, monitor, worker, topoVars, faults>>

Keys(f) == {p \in Ports : f[p] # None}

NothingSeen == [n \in Number |-> None]
IdleWorker == [pc |-> "idle", got |-> None, todo |-> {}, left |-> {},
               seen |-> NothingSeen, number |-> None, want |-> None]

\* A monitor works on a pointer into the map of ports: while live, the map is
\* still the current one.
Off == [pc |-> "off", cancelled |-> FALSE, subs |-> {}, inbox |-> <<>>,
        name |-> None, port |-> None, live |-> FALSE, fresh |-> FALSE]

WorkerOK(w) ==
  /\ w \in [pc : {"idle", "fetched", "query", "ports", "create", "has", "update"},
            got : [Ports -> State \cup {None}] \cup {None}, todo : SUBSET Ports,
            left : SUBSET Number, seen : [Number -> Snapshot \cup {None}],
            number : Number \cup {None}, want : State \cup {None}]
  /\ w.pc = "fetched" => w.got \in [Ports -> State \cup {None}]
  /\ w.pc \in {"idle", "fetched", "query"} => w.todo = {}
  /\ w.pc \in {"create", "has", "update"} => w.number \in Number /\ w.want \in State
  /\ w.pc = "update" => w.seen[w.number] # None
  /\ \A n \in w.left : w.seen[n] # None

MonitorOK(x) ==
  /\ x \in [pc : {"off", "starting", "on", "get", "update"}, cancelled : BOOLEAN,
            subs : SUBSET Ports, inbox : Seq([name : Ports, status : Status]),
            name : Ports \cup {None}, port : Port \cup {None}, live : BOOLEAN, fresh : BOOLEAN]
  /\ x.live \/ x.pc \in {"get", "update"} => x.port \in Port

TypeOK ==
  /\ device \in [Ports -> State \cup {None}]
  /\ changes \in 0..MaxChanges
  /\ ports \in [Ports -> Port \cup {None}]
  /\ ctxCancel \in Monitors \cup {None}
  /\ WorkerOK(worker)
  /\ worker.todo \subseteq Keys(ports)
  /\ monitor = [m \in Monitors |-> monitor[m]] /\ \A m \in Monitors : MonitorOK(monitor[m])
  /\ entity \in [Number -> State \cup {None}]
  /\ has \subseteq {n \in Number : entity[n] # None}
  /\ worker.pc = "has" => entity[worker.number] # None
  /\ faults \in 0..MaxFaults

\* A controller that has just started, and a device with some of its ports.
Init ==
  /\ device \in [Ports -> {None, [status |-> "UP", last |-> 0]}]
  /\ changes = 0
  /\ ports = [p \in Ports |-> None]
  /\ ctxCancel = None
  /\ monitor = [m \in Monitors |-> Off]
  /\ worker = IdleWorker
  /\ entity = [n \in Number |-> None]
  /\ has = {}
  /\ faults = 0

Fault == faults < MaxFaults /\ faults' = faults + 1

------------------------------------------------------------------------------
(* Writing an entity makes everybody's snapshot of it stale. *)

StaleWorker(w, n) ==
  IF w.seen[n] = None THEN w ELSE [w EXCEPT !.seen[n].fresh = FALSE]

StaleMonitors(n) ==
  [m \in Monitors |->
    IF monitor[m].pc = "update" /\ monitor[m].port.number = n
    THEN [monitor[m] EXCEPT !.fresh = FALSE] ELSE monitor[m]]

\* Mutant of portStateChanged: the time of the last change does not count.
StatusChanged(a, b) == a.status # b.status

\* portStateChanged: any difference counts, in whichever direction.
PortStateChanged(a, b) == a # b

------------------------------------------------------------------------------
(* DiscoverPorts, as the worker runs it. *)

\* A bound of the model: a monitor that nobody can stop any more is left behind
\* once at a time; the next ones subscribe before another sweep begins.
StartsInTime ==
  LET unstopped == {m \in Monitors : monitor[m].pc # "off" /\ ~monitor[m].cancelled} IN
  (\E m \in Monitors : monitor[m].pc = "starting") => Cardinality(unstopped) = 1

\* GetPorts: ask the device.  If that fails, nothing has changed.
FetchPorts ==
  /\ worker.pc = "idle"
  /\ StartsInTime
  /\ worker' = [worker EXCEPT !.pc = "fetched", !.got = device]
  /\ UNCHANGED <<deviceVars, contextVars, monitor, topoVars, faults>>

\* startMonitor, where stopping is the monitors as a restart leaves them: a
\* monitor that has not set ctxCancel yet cannot be stopped.
StartMonitor(stopping) ==
  LET off == {m \in Monitors : stopping[m].pc = "off"}
      new == CHOOSE m \in off : TRUE
  IN
  /\ off # {}
  /\ monitor' = [stopping EXCEPT ![new] = [Off EXCEPT !.pc = "starting"]]
  /\ ctxCancel' = None

\* GetPorts: make the answer the current map; start a monitor if there is none
\* to be stopped, or if the number of ports has changed.
SwapPorts ==
  LET left == [m \in Monitors |-> [monitor[m] EXCEPT !.live = FALSE]]
      stopping == IF ctxCancel = None \/ left[ctxCancel].pc = "off" THEN left
                  ELSE [left EXCEPT ![ctxCancel].cancelled = TRUE]
  IN
  /\ worker.pc = "fetched"
  /\ ports' = [p \in Ports |-> IF worker.got[p] = None THEN None
                               ELSE [number |-> p, state |-> worker.got[p]]]
  /\ IF ctxCancel = None \/ Cardinality(Keys(ports)) # Cardinality(Keys(worker.got))
     THEN StartMonitor(stopping)
     ELSE monitor' = left /\ UNCHANGED ctxCancel
  /\ worker' = [worker EXCEPT !.pc = "query", !.got = None]
  /\ UNCHANGED <<deviceVars, topoVars, faults>>

\* getPorts: the entities with a has relation, or the end of the sweep.
QueryPorts ==
  /\ worker.pc = "query"
  /\ \/ /\ worker' = [worker EXCEPT
                        !.pc = "ports", !.todo = Keys(ports), !.left = has,
                        !.seen = [n \in Number |->
                           IF n \in has THEN [state |-> entity[n], fresh |-> TRUE] ELSE None]]
        /\ UNCHANGED faults
     \/ worker' = IdleWorker /\ Fault
  /\ UNCHANGED <<deviceVars, contextVars, monitor, topoVars>>

\* Mutant of NextPort: only a port that is created counts as used.
NextPortForgets ==
  /\ worker.pc = "ports"
  /\ \E p \in worker.todo :
       LET n == ports[p].number
           w == [worker EXCEPT !.todo = @ \ {p}]
           does(pc) == [w EXCEPT !.pc = pc, !.number = n, !.want = ports[p].state]
       IN worker' = CASE w.seen[n] = None -> does("create")
                      [] w.seen[n] # None /\ PortStateChanged(w.seen[n].state, ports[p].state)
                                       -> does("update")
                      [] OTHER         -> w
  /\ UNCHANGED <<deviceVars, contextVars, monitor, topoVars, faults>>

\* The next port of the map, in any order, as it is by now: its entity is
\* created if it has not been seen, and updated if it differs.
NextPort ==
  /\ worker.pc = "ports"
  /\ \E p \in worker.todo :
       LET n == ports[p].number
           w == [worker EXCEPT !.todo = @ \ {p}, !.left = @ \ {n}]
           does(pc) == [w EXCEPT !.pc = pc, !.number = n, !.want = ports[p].state]
       IN worker' = CASE w.seen[n] = None -> does("create")
                      [] w.seen[n] # None /\ PortStateChanged(w.seen[n].state, ports[p].state)
                                       -> does("update")
                      [] OTHER         -> w
  /\ UNCHANGED <<deviceVars, contextVars, monitor, topoVars, faults>>

\* The worker is done with the port.
NextIs(w) == worker' = [w EXCEPT !.pc = "ports", !.number = None, !.want = None]

\* Mutant of CreatePort: the relation is left out.
CreatePortOnly ==
  /\ worker.pc = "create"
  /\ entity' = IF entity[worker.number] = None
               THEN [entity EXCEPT ![worker.number] = worker.want] ELSE entity
  /\ NextIs(worker)
  /\ UNCHANGED <<deviceVars, contextVars, monitor, has, faults>>

\* createPort: the entity and then its relation; what fails ends it.
CreatePort ==
  /\ worker.pc = "create"
  /\ IF entity[worker.number] = None
     THEN /\ entity' = [entity EXCEPT ![worker.number] = worker.want]
          /\ worker' = [worker EXCEPT !.pc = "has"]
     ELSE NextIs(worker) /\ UNCHANGED entity
  /\ UNCHANGED <<deviceVars, contextVars, monitor, has, faults>>

CreateHas ==
  /\ worker.pc = "has"
  /\ has' = has \cup {worker.number}
  /\ NextIs(worker)
  /\ UNCHANGED <<deviceVars, contextVars, monitor, entity, faults>>

\* updatePortIfNeeded: refused if the entity has changed since it was read.
UpdatePort ==
  /\ worker.pc = "update"
  /\ IF worker.seen[worker.number].fresh
     THEN /\ entity' = [entity EXCEPT ![worker.number] = worker.want]
          /\ monitor' = StaleMonitors(worker.number)
          /\ NextIs(StaleWorker(worker, worker.number))
     ELSE NextIs(worker) /\ UNCHANGED <<entity, monitor>>
  /\ UNCHANGED <<deviceVars, contextVars, has, faults>>

\* Mutant of CallFails: createPort goes on if the entity cannot be created.
FailureIgnored ==
  /\ worker.pc = "create"
  /\ Fault
  /\ worker' = [worker EXCEPT !.pc = "has"]
  /\ UNCHANGED <<deviceVars, contextVars, monitor, topoVars>>

CallFails ==
  /\ worker.pc \in {"create", "has", "update"}
  /\ Fault
  /\ NextIs(worker)
  /\ UNCHANGED <<deviceVars, contextVars, monitor, topoVars>>

\* Mutant of DeletePort: what is left is not deleted.
DeleteNothing ==
  /\ worker.pc = "ports" /\ worker.todo = {}
  /\ \E n \in worker.left : worker' = [worker EXCEPT !.left = @ \ {n}]
  /\ UNCHANGED <<deviceVars, contextVars, monitor, topoVars, faults>>

\* deletePort: entities whose ports were not in the map, unless that fails.
DeletePort ==
  /\ worker.pc = "ports" /\ worker.todo = {}
  /\ \E n \in worker.left :
       LET w == [worker EXCEPT !.left = @ \ {n}] IN
       \/ /\ entity' = [entity EXCEPT ![n] = None]
          /\ has' = has \ {n}
          /\ monitor' = StaleMonitors(n)
          /\ worker' = StaleWorker(w, n)
          /\ UNCHANGED faults
       \/ Fault /\ worker' = w /\ UNCHANGED <<topoVars, monitor>>
  /\ UNCHANGED <<deviceVars, contextVars>>

DiscoverEnds ==
  /\ worker.pc = "ports" /\ worker.todo = {} /\ worker.left = {}
  /\ worker' = IdleWorker
  /\ UNCHANGED <<deviceVars, contextVars, monitor, topoVars, faults>>

WorkerStep ==
  \/ FetchPorts \/ SwapPorts \/ QueryPorts \/ NextPort
  \/ CreatePort \/ CreateHas \/ UpdatePort \/ CallFails
  \/ DeletePort \/ DiscoverEnds

------------------------------------------------------------------------------
(* monitorPortStatus and HandlePortStatus, as monitor m runs them. *)

MonitorIs(m, pc) == monitor[m].pc = pc
Returned(m) == [monitor[m] EXCEPT !.pc = "on", !.name = None, !.port = None,
                                  !.live = FALSE, !.fresh = FALSE]

\* Let itself be cancelled, and subscribe to the ports there are.
Subscribe(m) ==
  /\ MonitorIs(m, "starting")
  /\ ctxCancel' = m
  /\ monitor' = [monitor EXCEPT ![m].pc = "on", ![m].subs = Keys(ports)]
  /\ UNCHANGED <<deviceVars, ports, worker, topoVars, faults>>

SubscribeFails(m) ==
  /\ MonitorIs(m, "starting")
  /\ Fault
  /\ ctxCancel' = m
  /\ monitor' = [monitor EXCEPT ![m] = Off]
  /\ UNCHANGED <<deviceVars, ports, worker, topoVars>>

\* Recv fails: the monitor has been cancelled, or the subscription is broken.
MonitorEnds(m) ==
  /\ MonitorIs(m, "on")
  /\ (monitor[m].cancelled /\ UNCHANGED faults) \/ Fault
  /\ monitor' = [monitor EXCEPT ![m] = Off]
  /\ UNCHANGED <<deviceVars, contextVars, worker, topoVars>>

\* The worker is still iterating over the map of ports.
Iterating == worker.todo # {} \/ worker.pc \in {"create", "has", "update"}

\* A status arrives and is put into the port of this name, which is made up if
\* need be, for all who hold the port to see.  An iteration may or may not come
\* across a port that is added to the map.
MonitorRecv(m) ==
  /\ MonitorIs(m, "on")
  /\ monitor[m].inbox # <<>>
  /\ LET p == Head(monitor[m].inbox).name
         status == Head(monitor[m].inbox).status
         port == IF ports[p] = None
                 THEN [number |-> Zero, state |-> [status |-> status, last |-> 0]]
                 ELSE [ports[p] EXCEPT !.state.status = status]
     IN
     /\ ports' = [ports EXCEPT ![p] = port]
     /\ monitor' = [k \in Monitors |->
          CASE k = m -> [monitor[m] EXCEPT !.pc = "get", !.inbox = Tail(@), !.name = p,
                                           !.port = port, !.live = TRUE]
            [] k # m /\ monitor[k].live /\ monitor[k].name = p
                     -> [monitor[k] EXCEPT !.port.state.status = status]
            [] OTHER -> monitor[k]]
     /\ \E more \in IF ports[p] = None /\ Iterating THEN {{}, {p}} ELSE {{}} :
          worker' = [worker EXCEPT !.todo = @ \cup more]
  /\ UNCHANGED <<deviceVars, ctxCancel, topoVars, faults>>

\* HandlePortStatus: get the entity; nothing to do if there is none, or if it
\* does not differ.
GetPort(m) ==
  /\ MonitorIs(m, "get")
  /\ LET x == entity[monitor[m].port.number]
         differs == x # None /\ PortStateChanged(x, monitor[m].port.state)
     IN
     \/ /\ differs
        /\ monitor' = [monitor EXCEPT ![m].pc = "update", ![m].fresh = TRUE,
                                      ![m].live = FALSE]
        /\ UNCHANGED faults
     \/ /\ ~differs
        /\ monitor' = [monitor EXCEPT ![m] = Returned(m)]
        /\ UNCHANGED faults
     \/ /\ Fault
        /\ monitor' = [monitor EXCEPT ![m] = Returned(m)]
  /\ UNCHANGED <<deviceVars, contextVars, worker, topoVars>>

\* updatePortIfNeeded: refused if the entity has changed since, or a failure.
UpdateStatus(m) ==
  /\ MonitorIs(m, "update")
  /\ LET n == monitor[m].port.number IN
     \/ /\ monitor[m].fresh
        /\ entity' = [entity EXCEPT ![n] = monitor[m].port.state]
        /\ monitor' = [StaleMonitors(n) EXCEPT ![m] = Returned(m)]
        /\ worker' = StaleWorker(worker, n)
        /\ UNCHANGED faults
     \/ /\ (~monitor[m].fresh /\ UNCHANGED faults) \/ Fault
        /\ monitor' = [monitor EXCEPT ![m] = Returned(m)]
        /\ UNCHANGED <<entity, worker>>
  /\ UNCHANGED <<deviceVars, contextVars, has>>

MonitorStep(m) ==
  \/ Subscribe(m) \/ MonitorRecv(m) \/ GetPort(m) \/ UpdateStatus(m)
  \/ monitor[m].cancelled /\ MonitorEnds(m)

------------------------------------------------------------------------------
(* The device, and the end of the process. *)

\* The status of port p changes, and its subscribers are told; or the port
\* disappears or appears, of which nobody is.
DeviceChange(p) ==
  /\ changes < MaxChanges
  /\ changes' = changes + 1
  /\ \E s \in {None} \cup [status : Status, last : {changes'}] :
       /\ device[p] = None => s # None
       /\ s # None /\ device[p] # None => s.status # device[p].status
       /\ device' = [device EXCEPT ![p] = s]
       /\ monitor' = [m \in Monitors |->
            IF s # None /\ p \in monitor[m].subs /\ ~monitor[m].cancelled
            THEN [monitor[m] EXCEPT !.inbox = Append(@, [name |-> p, status |-> s.status])]
            ELSE monitor[m]]
  /\ UNCHANGED <<contextVars, worker, topoVars, faults>>

\* The process ends, also because the runtime detects the unlocked use of the
\* map of ports, and is started again.
Crash ==
  /\ Fault
  /\ ports' = [p \in Ports |-> None]
  /\ ctxCancel' = None
  /\ monitor' = [m \in Monitors |-> Off]
  /\ worker' = IdleWorker
  /\ UNCHANGED <<deviceVars, topoVars>>

Next ==
  \/ WorkerStep
  \/ \E m \in Monitors : MonitorStep(m) \/ SubscribeFails(m) \/ MonitorEnds(m)
  \/ \E p \in Ports : DeviceChange(p)
  \/ Crash

\* The worker sweeps again and again, and the monitors run.
Fairness == WF_vars(WorkerStep) /\ \A m \in Monitors : WF_vars(MonitorStep(m))

SafeSpec == Init /\ [][Next]_vars
Spec == SafeSpec /\ Fairness

------------------------------------------------------------------------------
(* Properties. *)

\* No sweep deletes the entity of a port that the device's last answer has,
\* whatever monitors do to the map while the sweep iterates over it.
ListedPortIsKept ==
  [][\A p \in Ports :
       ports[p] # None /\ ports[p].number = p /\ entity[p] # None => entity'[p] # None]_vars

\* The has relation of port n is missing: getPorts does not see the entity and
\* createPort cannot create it, so that sweeps leave it alone for ever.
Unrelated(n) == entity[n] # None /\ n \notin has

\* A failure leaves at most one port without its relation, also a crash: only
\* the worker creates ports, and it always has at most one of them in hand.
StrandedByFailures ==
  LET InHand(n) == worker.pc = "has" /\ worker.number = n
      stranded == {n \in Number : Unrelated(n) /\ ~InHand(n)}
  IN IsFiniteSet(stranded) /\ Cardinality(stranded) <= faults

\* The entity of a port whose state no longer changes settles at that state,
\* unless it stays without its has relation: whatever stale status monitors,
\* also cancelled ones, write over what the sweep has written, and the sweep
\* over theirs.
PortSettles ==
  \A p \in Ports, s \in State :
    <>[](device[p] = s) /\ []<>~Unrelated(p) => <>[](entity[p] = s)

\* The entity of a port that stays away goes, and so does that of a port that
\* a monitor has made up.
RemovedPortGoes ==
  \A n \in Number :
    (n \in Ports => <>[](device[n] = None)) /\ []<>~Unrelated(n)
      => <>[](entity[n] = None)

==============================================================================
