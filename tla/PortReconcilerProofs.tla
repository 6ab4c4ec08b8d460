------------------------- MODULE PortReconcilerProofs -------------------------
(***************************************************************************)
(* Proofs about PortReconciler, for any ports, monitors and bounds: type   *)
(* correctness, that a sweep does not delete the entity of a port that the *)
(* device's last answer has, and that there are never more ports stranded  *)
(* without their relation than there have been failures.                   *)
(*                                                                         *)
(* Used is what makes the second one inductive.  DiscoverPorts deletes the *)
(* entities that are left when it has gone through the map of ports.  Until *)
(* then a port of the answer whose entity is left is still to be visited:  *)
(* monitors add to the map, and change the status of what is in it, but    *)
(* neither remove a port nor change its number.                            *)
(*                                                                         *)
(* Fresh is needed for the third: a snapshot that onos-topo still takes    *)
(* is of an entity that exists, so that an update creates nothing.         *)
(***************************************************************************)
EXTENDS PortReconciler, FiniteSetTheorems, TLAPS

Listed(p) == ports[p] # None /\ ports[p].number = p
Sweeping(w) == w.pc \in {"ports", "create", "has", "update"}

UsedBy(w) ==
  Sweeping(w) => \A p \in Ports : Listed(p) /\ p \in w.left => p \in w.todo
Used == UsedBy(worker)

IInv == TypeOK /\ Used

MonitorsOK(f) ==
  f = [m \in Monitors |-> f[m]] /\ \A m \in Monitors : MonitorOK(f[m])

LEMMA NoneIsDistinct ==
  /\ None \notin Monitors /\ None \notin Number /\ Zero \notin Ports
  /\ \A s \in State : s # None
  /\ \A x \in Port : x # None
  /\ \A x \in Snapshot : x # None
  BY PortAssumption

LEMMA FaultType ==
  ASSUME TypeOK, Fault \/ UNCHANGED faults
  PROVE  faults' \in 0..MaxFaults
  BY PortAssumption DEF Fault, TypeOK

------------------------------------------------------------------------------
(* Stale snapshots. *)

LEMMA StaleWorkerOK ==
  ASSUME NEW w, WorkerOK(w), NEW n \in Number
  PROVE  /\ WorkerOK(StaleWorker(w, n))
         /\ StaleWorker(w, n).pc = w.pc
         /\ StaleWorker(w, n).todo = w.todo
         /\ StaleWorker(w, n).left = w.left
         /\ StaleWorker(w, n).number = w.number
<1>1. CASE w.seen[n] = None
  BY <1>1 DEF StaleWorker
<1>2. CASE w.seen[n] # None
  <2> DEFINE v == [w EXCEPT !.seen[n].fresh = FALSE]
  <2>1. StaleWorker(w, n) = v
    BY <1>2 DEF StaleWorker
  <2>2. w.seen \in [Number -> Snapshot \cup {None}] /\ w.seen[n] \in Snapshot
    BY <1>2 DEF WorkerOK
  <2>3. [w.seen[n] EXCEPT !.fresh = FALSE] \in Snapshot
    BY <2>2 DEF Snapshot
  <2>4. v = [w EXCEPT !.seen = [w.seen EXCEPT ![n] = [w.seen[n] EXCEPT !.fresh = FALSE]]]
    BY <2>2 DEF WorkerOK
  <2>5. /\ v.seen \in [Number -> Snapshot \cup {None}]
        /\ \A k \in Number : w.seen[k] # None => v.seen[k] # None
    BY <2>2, <2>3, <2>4, NoneIsDistinct DEF WorkerOK
  <2>6. /\ v.pc = w.pc /\ v.got = w.got /\ v.todo = w.todo /\ v.left = w.left
        /\ v.number = w.number /\ v.want = w.want
        /\ v \in [pc : {"idle", "fetched", "query", "ports", "create", "has", "update"},
                  got : [Ports -> State \cup {None}] \cup {None}, todo : SUBSET Ports,
                  left : SUBSET Number, seen : [Number -> Snapshot \cup {None}],
                  number : Number \cup {None}, want : State \cup {None}]
    BY <2>4, <2>5 DEF WorkerOK
  <2>7. WorkerOK(v)
    BY <2>5, <2>6 DEF WorkerOK
  <2> QED  BY <2>1, <2>6, <2>7
<1> QED  BY <1>1, <1>2

LEMMA StaleMonitorsOK ==
  ASSUME MonitorsOK(monitor), NEW n
  PROVE  MonitorsOK(StaleMonitors(n))
<1>1. \A m \in Monitors : MonitorOK([monitor[m] EXCEPT !.fresh = FALSE])
  BY DEF MonitorsOK, MonitorOK
<1>2. \A m \in Monitors : MonitorOK(StaleMonitors(n)[m])
  BY <1>1 DEF MonitorsOK, StaleMonitors
<1> QED  BY <1>2 DEF MonitorsOK, StaleMonitors

LEMMA OneMonitor ==
  ASSUME NEW f, MonitorsOK(f), NEW m \in Monitors, NEW x, MonitorOK(x)
  PROVE  MonitorsOK([f EXCEPT ![m] = x])
<1> DEFINE g == [f EXCEPT ![m] = x]
<1>1. g = [k \in Monitors |-> IF k = m THEN x ELSE f[k]]
  BY DEF MonitorsOK
<1> QED  BY <1>1 DEF MonitorsOK

LEMMA OffOK == MonitorOK(Off) /\ MonitorOK([Off EXCEPT !.pc = "starting"])
<1>1. /\ Off.pc = "off" /\ ~Off.cancelled /\ Off.subs = {} /\ Off.inbox = <<>>
      /\ Off.name = None /\ Off.port = None /\ ~Off.live /\ ~Off.fresh
  BY DEF Off
<1>2. <<>> \in Seq([name : Ports, status : Status])
  OBVIOUS
<1>3. MonitorOK(Off)
  BY <1>2 DEF Off, MonitorOK
<1> QED  BY <1>1, <1>3 DEF MonitorOK

------------------------------------------------------------------------------
(* Steps of the worker. *)

\* The worker moves on, and the map of ports stays.
LEMMA WorkerMoves ==
  ASSUME IInv, NEW w, WorkerOK(w), worker' = w, w.todo \subseteq Keys(ports), UsedBy(w),
         UNCHANGED <<deviceVars, contextVars>>, MonitorsOK(monitor'),
         entity' \in [Number -> State \cup {None}],
         has' \subseteq {n \in Number : entity'[n] # None},
         w.pc = "has" => entity'[w.number] # None,
         Fault \/ UNCHANGED faults
  PROVE  IInv'
<1>1. TypeOK
  BY DEF IInv
<1>2. UNCHANGED <<device, changes, ports, ctxCancel>>
  BY DEF deviceVars, contextVars
<1>3. faults' \in 0..MaxFaults
  BY <1>1, FaultType
<1>4. TypeOK'
  BY <1>1, <1>2, <1>3 DEF TypeOK, MonitorsOK, Keys
<1>5. Used'
  BY <1>2 DEF Used, UsedBy, Listed
<1> QED  BY <1>4, <1>5 DEF IInv

\* The sweep is over.
LEMMA IdleMoves ==
  ASSUME IInv, worker' = IdleWorker, Fault \/ UNCHANGED faults,
         UNCHANGED <<deviceVars, contextVars, monitor, topoVars>>
  PROVE  IInv'
<1>1. WorkerOK(IdleWorker) /\ IdleWorker.pc = "idle" /\ IdleWorker.todo = {}
  BY DEF IdleWorker, NothingSeen, WorkerOK
<1>2. UsedBy(IdleWorker)
  BY <1>1 DEF UsedBy, Sweeping
<1>3. TypeOK
  BY DEF IInv
<1> QED  BY <1>1, <1>2, <1>3, WorkerMoves DEF TypeOK, MonitorsOK, topoVars

LEMMA FetchInv ==
  ASSUME IInv, FetchPorts
  PROVE  IInv'
<1> DEFINE w == [worker EXCEPT !.pc = "fetched", !.got = device]
<1>1. /\ TypeOK /\ worker.pc = "idle" /\ worker' = w
      /\ UNCHANGED <<deviceVars, contextVars, monitor, topoVars, faults>>
  BY DEF IInv, FetchPorts
<1>2. WorkerOK(w) /\ w.pc = "fetched" /\ w.todo = worker.todo
  BY <1>1 DEF TypeOK, WorkerOK
<1>3. UsedBy(w)
  BY <1>2 DEF UsedBy, Sweeping
<1> HIDE DEF w
<1> QED  BY <1>1, <1>2, <1>3, WorkerMoves DEF TypeOK, MonitorsOK, topoVars

\* A monitor whose port has left the map.
LEMMA LeftOK ==
  ASSUME NEW x, MonitorOK(x)
  PROVE  MonitorOK([x EXCEPT !.live = FALSE])
BY DEF MonitorOK

LEMMA SwapInv ==
  ASSUME IInv, SwapPorts
  PROVE  IInv'
<1> DEFINE left == [m \in Monitors |-> [monitor[m] EXCEPT !.live = FALSE]]
           stopping == IF ctxCancel = None \/ left[ctxCancel].pc = "off" THEN left
                       ELSE [left EXCEPT ![ctxCancel].cancelled = TRUE]
           w == [worker EXCEPT !.pc = "query", !.got = None]
<1>1. /\ TypeOK
      /\ worker.pc = "fetched" /\ worker' = w
      /\ ports' = [p \in Ports |-> IF worker.got[p] = None THEN None
                                   ELSE [number |-> p, state |-> worker.got[p]]]
      /\ StartMonitor(stopping) \/ (monitor' = left /\ UNCHANGED ctxCancel)
      /\ UNCHANGED <<deviceVars, topoVars, faults>>
  BY DEF IInv, SwapPorts
<1>2. ports' \in [Ports -> Port \cup {None}]
  <2>1. worker.got \in [Ports -> State \cup {None}]
    BY <1>1 DEF TypeOK, WorkerOK
  <2>2. \A p \in Ports, x \in State : [number |-> p, state |-> x] \in Port
    BY DEF Port, Number
  <2>3. \A p \in Ports : worker.got[p] = None \/ worker.got[p] \in State
    BY <2>1
  <2>4. ports' = [p \in Ports |-> ports'[p]]
    BY <1>1
  <2>5. \A p \in Ports : ports'[p] \in Port \cup {None}
    BY <1>1, <2>2, <2>3
  <2> QED  BY <2>4, <2>5
<1>3. MonitorsOK(left)
  <2>1. ASSUME NEW m \in Monitors
        PROVE  MonitorOK([monitor[m] EXCEPT !.live = FALSE])
    <3>1. MonitorOK(monitor[m])
      BY <1>1 DEF TypeOK
    <3> QED  BY <3>1, LeftOK
  <2> QED  BY <2>1 DEF MonitorsOK
<1>4. MonitorsOK(stopping)
  <2>1. CASE ctxCancel = None \/ left[ctxCancel].pc = "off"
    BY <1>3, <2>1
  <2>2. CASE ~(ctxCancel = None \/ left[ctxCancel].pc = "off")
    <3> DEFINE x == [left[ctxCancel] EXCEPT !.cancelled = TRUE]
    <3>1. ctxCancel \in Monitors
      BY <1>1, <2>2 DEF TypeOK
    <3>2. MonitorOK(left[ctxCancel])
      BY <1>3, <3>1 DEF MonitorsOK
    <3>3. MonitorOK(x)
      <4> HIDE DEF left
      <4> QED  BY <3>2 DEF MonitorOK
    <3>4. stopping = [left EXCEPT ![ctxCancel] = x]
      BY <2>2
    <3> HIDE DEF left, stopping, x
    <3> QED  BY <1>3, <3>1, <3>3, <3>4, OneMonitor
  <2> QED  BY <2>1, <2>2
<1>5. MonitorsOK(monitor') /\ ctxCancel' \in Monitors \cup {None}
  <2> HIDE DEF left, stopping
  <2>1. CASE StartMonitor(stopping)
    <3> DEFINE off == {m \in Monitors : stopping[m].pc = "off"}
    <3>1. PICK m \in off : monitor' = [stopping EXCEPT ![m] = [Off EXCEPT !.pc = "starting"]]
      BY <2>1 DEF StartMonitor
    <3>2. ctxCancel' = None
      BY <2>1 DEF StartMonitor
    <3> QED  BY <1>4, <3>1, <3>2, OneMonitor, OffOK
  <2>2. CASE monitor' = left /\ UNCHANGED ctxCancel
    BY <1>1, <1>3, <2>2 DEF TypeOK
  <2> QED  BY <1>1, <2>1, <2>2
<1>6. WorkerOK(w) /\ w.pc = "query" /\ w.todo = {}
  BY <1>1 DEF TypeOK, WorkerOK
<1> HIDE DEF left, stopping, w
<1>7. TypeOK'
  BY <1>1, <1>2, <1>5, <1>6 DEF TypeOK, MonitorsOK, deviceVars, topoVars
<1>8. Used'
  BY <1>1, <1>6 DEF Used, UsedBy, Sweeping
<1> QED  BY <1>7, <1>8 DEF IInv

LEMMA QueryInv ==
  ASSUME IInv, QueryPorts
  PROVE  IInv'
<1> DEFINE w == [worker EXCEPT
                   !.pc = "ports", !.todo = Keys(ports), !.left = has,
                   !.seen = [n \in Number |->
                      IF n \in has THEN [state |-> entity[n], fresh |-> TRUE] ELSE None]]
<1>1. TypeOK /\ UNCHANGED <<deviceVars, contextVars, monitor, topoVars>>
  BY DEF IInv, QueryPorts
<1>2. CASE worker' = w /\ UNCHANGED faults
  <2>1. \A n \in has : [state |-> entity[n], fresh |-> TRUE] \in Snapshot
    BY <1>1 DEF TypeOK, Snapshot
  <2>2. /\ w.seen \in [Number -> Snapshot \cup {None}]
        /\ \A n \in has : w.seen[n] # None
    BY <1>1, <2>1, NoneIsDistinct DEF TypeOK, WorkerOK
  <2>3. /\ w.pc = "ports" /\ w.todo = Keys(ports) /\ w.left = has
        /\ WorkerOK(w)
    BY <1>1, <2>2 DEF TypeOK, WorkerOK, Keys
  <2>4. UsedBy(w)
    BY <2>3 DEF UsedBy, Listed, Keys
  <2> HIDE DEF w
  <2> QED  BY <1>1, <1>2, <2>3, <2>4, WorkerMoves DEF TypeOK, MonitorsOK, topoVars
<1>3. CASE worker' = IdleWorker /\ Fault
  BY <1>1, <1>3, IdleMoves
<1> QED  BY <1>2, <1>3 DEF QueryPorts

LEMMA NextPortInv ==
  ASSUME IInv, NextPort
  PROVE  IInv'
<1>1. /\ TypeOK /\ Used /\ worker.pc = "ports"
      /\ UNCHANGED <<deviceVars, contextVars, monitor, topoVars, faults>>
  BY DEF IInv, NextPort
<1>2. PICK p \in worker.todo :
        LET n == ports[p].number
            w == [worker EXCEPT !.todo = @ \ {p}, !.left = @ \ {n}]
            does(pc) == [w EXCEPT !.pc = pc, !.number = n, !.want = ports[p].state]
        IN worker' = CASE w.seen[n] = None -> does("create")
                       [] w.seen[n] # None /\ PortStateChanged(w.seen[n].state, ports[p].state)
                                        -> does("update")
                       [] OTHER         -> w
  BY DEF NextPort
<1> DEFINE n == ports[p].number
           w == [worker EXCEPT !.todo = @ \ {p}, !.left = @ \ {n}]
           does(pc) == [w EXCEPT !.pc = pc, !.number = n, !.want = ports[p].state]
<1>3. p \in Ports /\ ports[p] \in Port /\ n \in Number /\ ports[p].state \in State
  BY <1>1, <1>2 DEF TypeOK, Keys, Port
<1>4. /\ WorkerOK(w) /\ w.pc = "ports" /\ w.seen = worker.seen
      /\ w.todo = worker.todo \ {p} /\ w.left = worker.left \ {n}
  BY <1>1, <1>3 DEF TypeOK, WorkerOK
<1>5. \/ worker' = w
      \/ worker' = does("create")
      \/ worker' = does("update") /\ w.seen[n] # None
  <2> HIDE DEF n, w, does
  <2>1. CASE w.seen[n] = None
    BY <1>2, <2>1 DEF n, w, does
  <2>2. CASE w.seen[n] # None /\ PortStateChanged(w.seen[n].state, ports[p].state)
    BY <1>2, <2>2 DEF n, w, does
  <2>3. CASE w.seen[n] # None /\ ~PortStateChanged(w.seen[n].state, ports[p].state)
    BY <1>2, <2>3 DEF n, w, does
  <2> QED  BY <2>1, <2>2, <2>3
<1>6. /\ WorkerOK(worker') /\ worker'.pc \in {"ports", "create", "update"}
      /\ worker'.todo = w.todo /\ worker'.left = w.left
  <2> HIDE DEF n, w
  <2> QED  BY <1>3, <1>4, <1>5 DEF WorkerOK
<1>7. UsedBy(worker')
  BY <1>1, <1>3, <1>4, <1>6 DEF Used, UsedBy, Listed, Sweeping
<1>8. worker'.todo \subseteq Keys(ports) /\ worker'.pc # "has"
  BY <1>1, <1>4, <1>6 DEF TypeOK
<1> HIDE DEF n, w, does
<1> QED  BY <1>1, <1>6, <1>7, <1>8, WorkerMoves DEF TypeOK, MonitorsOK, topoVars

LEMMA NextIsOK ==
  ASSUME NEW w, WorkerOK(w), w.pc \in {"create", "has", "update"}, NextIs(w)
  PROVE  /\ WorkerOK(worker') /\ worker'.pc = "ports"
         /\ worker'.todo = w.todo /\ worker'.left = w.left
  BY DEF NextIs, WorkerOK

LEMMA CallInv ==
  ASSUME IInv, CreatePort \/ CreateHas \/ UpdatePort \/ CallFails
  PROVE  IInv'
<1>1. TypeOK /\ Used /\ WorkerOK(worker) /\ MonitorsOK(monitor)
  BY DEF IInv, TypeOK, MonitorsOK
<1>2. /\ worker.pc \in {"create", "has", "update"}
      /\ worker.number \in Number /\ worker.want \in State /\ worker.want # None
  <2>1. worker.pc \in {"create", "has", "update"}
    BY DEF CreatePort, CreateHas, UpdatePort, CallFails
  <2> QED  BY <1>1, <2>1, NoneIsDistinct DEF WorkerOK
<1>3. UNCHANGED <<deviceVars, contextVars>>
  BY DEF CreatePort, CreateHas, UpdatePort, CallFails
<1>4. ASSUME WorkerOK(worker'), worker'.pc \in {"ports", "has"},
             worker'.todo = worker.todo, worker'.left = worker.left
      PROVE  worker'.todo \subseteq Keys(ports) /\ UsedBy(worker')
  BY <1>1, <1>2, <1>4 DEF TypeOK, Used, UsedBy, Sweeping
<1>5. entity \in [Number -> State \cup {None}] /\ has \subseteq {n \in Number : entity[n] # None}
  BY <1>1 DEF TypeOK
<1>6. /\ [entity EXCEPT ![worker.number] = worker.want] \in [Number -> State \cup {None}]
      /\ [entity EXCEPT ![worker.number] = worker.want][worker.number] # None
      /\ has \subseteq {n \in Number : [entity EXCEPT ![worker.number] = worker.want][n] # None}
  BY <1>2, <1>5
<1>7. CASE CreatePort
  <2>1. CASE entity[worker.number] = None
    <3> DEFINE w == [worker EXCEPT !.pc = "has"]
    <3>1. /\ worker' = w /\ entity' = [entity EXCEPT ![worker.number] = worker.want]
          /\ UNCHANGED <<monitor, has, faults>>
      BY <1>7, <2>1 DEF CreatePort
    <3>2. /\ WorkerOK(w) /\ w.pc = "has" /\ w.todo = worker.todo /\ w.left = worker.left
          /\ w.number = worker.number
      BY <1>1, <1>2 DEF WorkerOK
    <3> HIDE DEF w
    <3> QED  BY <1>1, <1>3, <1>4, <1>6, <3>1, <3>2, WorkerMoves
  <2>2. CASE entity[worker.number] # None
    <3>1. NextIs(worker) /\ UNCHANGED <<entity, monitor, has, faults>>
      BY <1>7, <2>2 DEF CreatePort
    <3>2. /\ WorkerOK(worker') /\ worker'.pc = "ports"
          /\ worker'.todo = worker.todo /\ worker'.left = worker.left
      BY <1>1, <1>2, <3>1, NextIsOK
    <3> QED  BY <1>1, <1>3, <1>4, <1>5, <3>1, <3>2, WorkerMoves
  <2> QED  BY <2>1, <2>2
<1>8. CASE CreateHas
  <2>1. NextIs(worker) /\ has' = has \cup {worker.number} /\ UNCHANGED <<entity, monitor, faults>>
    BY <1>8 DEF CreateHas
  <2>2. /\ WorkerOK(worker') /\ worker'.pc = "ports"
        /\ worker'.todo = worker.todo /\ worker'.left = worker.left
    BY <1>1, <1>2, <2>1, NextIsOK
  <2>3. entity[worker.number] # None
    BY <1>1, <1>8 DEF TypeOK, CreateHas
  <2>4. has' \subseteq {n \in Number : entity[n] # None}
    BY <1>2, <1>5, <2>1, <2>3
  <2> QED  BY <1>1, <1>3, <1>4, <1>5, <2>1, <2>2, <2>4, WorkerMoves
<1>9. CASE UpdatePort
  <2>1. CASE worker.seen[worker.number].fresh
    <3> DEFINE w == StaleWorker(worker, worker.number)
    <3>1. /\ NextIs(w) /\ monitor' = StaleMonitors(worker.number)
          /\ entity' = [entity EXCEPT ![worker.number] = worker.want]
          /\ UNCHANGED <<has, faults>>
      BY <1>9, <2>1 DEF UpdatePort
    <3>2. /\ WorkerOK(w) /\ w.pc = worker.pc /\ w.todo = worker.todo /\ w.left = worker.left
      BY <1>1, <1>2, StaleWorkerOK
    <3> HIDE DEF w
    <3>3. /\ WorkerOK(worker') /\ worker'.pc = "ports"
          /\ worker'.todo = worker.todo /\ worker'.left = worker.left
      BY <1>2, <3>1, <3>2, NextIsOK
    <3>4. MonitorsOK(monitor')
      BY <1>1, <3>1, StaleMonitorsOK
    <3> QED  BY <1>3, <1>4, <1>6, <3>1, <3>3, <3>4, WorkerMoves
  <2>2. CASE ~worker.seen[worker.number].fresh
    <3>1. NextIs(worker) /\ UNCHANGED <<entity, monitor, has, faults>>
      BY <1>9, <2>2 DEF UpdatePort
    <3>2. /\ WorkerOK(worker') /\ worker'.pc = "ports"
          /\ worker'.todo = worker.todo /\ worker'.left = worker.left
      BY <1>1, <1>2, <3>1, NextIsOK
    <3> QED  BY <1>1, <1>3, <1>4, <1>5, <3>1, <3>2, WorkerMoves
  <2> QED  BY <2>1, <2>2
<1>10. CASE CallFails
  <2>1. NextIs(worker) /\ UNCHANGED <<entity, monitor, has>> /\ Fault
    BY <1>10 DEF CallFails, topoVars
  <2>2. /\ WorkerOK(worker') /\ worker'.pc = "ports"
        /\ worker'.todo = worker.todo /\ worker'.left = worker.left
    BY <1>1, <1>2, <2>1, NextIsOK
  <2> QED  BY <1>1, <1>3, <1>4, <1>5, <2>1, <2>2, WorkerMoves
<1> QED  BY <1>7, <1>8, <1>9, <1>10

LEMMA DeleteInv ==
  ASSUME IInv, DeletePort
  PROVE  IInv'
<1>1. /\ TypeOK /\ Used /\ WorkerOK(worker) /\ MonitorsOK(monitor)
      /\ worker.pc = "ports" /\ worker.todo = {} /\ UNCHANGED <<deviceVars, contextVars>>
  BY DEF IInv, TypeOK, MonitorsOK, DeletePort
<1>2. PICK n \in worker.left :
        LET w == [worker EXCEPT !.left = @ \ {n}] IN
        \/ /\ entity' = [entity EXCEPT ![n] = None]
           /\ has' = has \ {n}
           /\ monitor' = StaleMonitors(n)
           /\ worker' = StaleWorker(w, n)
           /\ UNCHANGED faults
        \/ Fault /\ worker' = w /\ UNCHANGED <<topoVars, monitor>>
  BY DEF DeletePort
<1> DEFINE w == [worker EXCEPT !.left = @ \ {n}]
<1>3. n \in Number
  BY <1>1 DEF WorkerOK
<1>4. WorkerOK(w) /\ w.pc = "ports" /\ w.todo = {} /\ w.left = worker.left \ {n}
  BY <1>1 DEF WorkerOK
<1>5. \/ /\ entity' = [entity EXCEPT ![n] = None]
         /\ has' = has \ {n}
         /\ monitor' = StaleMonitors(n)
         /\ worker' = StaleWorker(w, n)
         /\ UNCHANGED faults
      \/ Fault /\ worker' = w /\ UNCHANGED <<topoVars, monitor>>
  BY <1>2
<1> HIDE DEF w
<1>6. /\ WorkerOK(worker') /\ worker'.pc = "ports" /\ worker'.todo = {}
      /\ worker'.left = worker.left \ {n}
  BY <1>3, <1>4, <1>5, StaleWorkerOK
<1>7. UsedBy(worker')
  BY <1>1, <1>6 DEF Used, UsedBy, Sweeping
<1>8. MonitorsOK(monitor')
  BY <1>1, <1>5, StaleMonitorsOK
<1>9. /\ entity' \in [Number -> State \cup {None}]
      /\ has' \subseteq {k \in Number : entity'[k] # None}
  BY <1>1, <1>3, <1>5 DEF TypeOK, topoVars
<1> QED  BY <1>1, <1>5, <1>6, <1>7, <1>8, <1>9, WorkerMoves

LEMMA WorkerInv ==
  ASSUME IInv, WorkerStep
  PROVE  IInv'
<1>1. CASE DiscoverEnds
  BY <1>1, IdleMoves DEF DiscoverEnds
<1> QED  BY <1>1, FetchInv, SwapInv, QueryInv, NextPortInv, CallInv, DeleteInv DEF WorkerStep

------------------------------------------------------------------------------
(* Steps of the monitors. *)

\* A monitor moves on, and everything but ctxCancel stays.
LEMMA MonitorMoves ==
  ASSUME IInv, MonitorsOK(monitor'), ctxCancel' \in Monitors \cup {None},
         UNCHANGED <<deviceVars, ports, worker, topoVars>>, Fault \/ UNCHANGED faults
  PROVE  IInv'
<1>1. TypeOK /\ Used
  BY DEF IInv
<1>2. TypeOK'
  BY <1>1, FaultType DEF TypeOK, MonitorsOK, deviceVars, topoVars, Keys
<1>3. Used'
  BY <1>1 DEF Used, UsedBy, Listed
<1> QED  BY <1>2, <1>3 DEF IInv

LEMMA StartInv ==
  ASSUME IInv, NEW m \in Monitors, Subscribe(m) \/ SubscribeFails(m) \/ MonitorEnds(m)
  PROVE  IInv'
<1>1. /\ TypeOK /\ MonitorsOK(monitor) /\ MonitorOK(monitor[m])
      /\ ctxCancel \in Monitors \cup {None}
  BY DEF IInv, TypeOK, MonitorsOK
<1>2. CASE Subscribe(m)
  <2> DEFINE x == [monitor[m] EXCEPT !.pc = "on", !.subs = Keys(ports)]
  <2>1. ~monitor[m].live \/ monitor[m].port \in Port
    BY <1>1 DEF MonitorOK
  <2>2. MonitorOK(x)
    BY <1>1, <2>1 DEF MonitorOK, Keys
  <2>3. monitor' = [monitor EXCEPT ![m] = x]
    BY <1>2 DEF Subscribe
  <2> HIDE DEF x
  <2>4. MonitorsOK(monitor')
    BY <1>1, <2>2, <2>3, OneMonitor
  <2> QED  BY <1>2, <2>4, MonitorMoves DEF Subscribe
<1>3. CASE SubscribeFails(m) \/ MonitorEnds(m)
  <2>1. monitor' = [monitor EXCEPT ![m] = Off]
    BY <1>3 DEF SubscribeFails, MonitorEnds
  <2>2. MonitorsOK(monitor')
    BY <1>1, <2>1, OneMonitor, OffOK
  <2> QED  BY <1>1, <1>3, <2>2, MonitorMoves DEF SubscribeFails, MonitorEnds, contextVars
<1> QED  BY <1>2, <1>3

\* What is received next, and what remains.
LEMMA NextReceived ==
  ASSUME NEW T, NEW q \in Seq(T), q # <<>>
  PROVE  Head(q) \in T /\ Tail(q) \in Seq(T)
OBVIOUS

LEMMA RecvInv ==
  ASSUME IInv, NEW m \in Monitors, MonitorRecv(m)
  PROVE  IInv'
<1>1. /\ TypeOK /\ Used /\ MonitorsOK(monitor) /\ MonitorOK(monitor[m])
      /\ monitor[m].inbox # <<>>
      /\ UNCHANGED <<deviceVars, ctxCancel, topoVars, faults>>
  BY DEF IInv, TypeOK, MonitorsOK, MonitorRecv
<1> DEFINE p == Head(monitor[m].inbox).name
           status == Head(monitor[m].inbox).status
           port == IF ports[p] = None
                   THEN [number |-> Zero, state |-> [status |-> status, last |-> 0]]
                   ELSE [ports[p] EXCEPT !.state.status = status]
           f == [k \in Monitors |->
                  CASE k = m -> [monitor[m] EXCEPT !.pc = "get", !.inbox = Tail(@), !.name = p,
                                                   !.port = port, !.live = TRUE]
                    [] k # m /\ monitor[k].live /\ monitor[k].name = p
                             -> [monitor[k] EXCEPT !.port.state.status = status]
                    [] OTHER -> monitor[k]]
<1>2. /\ ports' = [ports EXCEPT ![p] = port]
      /\ monitor' = f
      /\ \E more \in IF ports[p] = None /\ Iterating THEN {{}, {p}} ELSE {{}} :
           worker' = [worker EXCEPT !.todo = @ \cup more]
  BY DEF MonitorRecv
<1>3. /\ p \in Ports /\ status \in Status
      /\ Tail(monitor[m].inbox) \in Seq([name : Ports, status : Status])
  <2>1. monitor[m].inbox \in Seq([name : Ports, status : Status])
    BY <1>1 DEF MonitorOK
  <2>2. /\ Head(monitor[m].inbox) \in [name : Ports, status : Status]
        /\ Tail(monitor[m].inbox) \in Seq([name : Ports, status : Status])
    <3> HIDE DEF p, status, port, f
    <3> QED  BY <1>1, <2>1, NextReceived
  <2> QED  BY <1>1, <2>1, <2>2
<1>4. \A x \in Port :
        /\ [x EXCEPT !.state.status = status] \in Port
        /\ [x EXCEPT !.state.status = status].number = x.number
  <2> HIDE DEF p, status, port, f
  <2> QED  BY <1>3 DEF Port, State
<1>5. /\ port \in Port
      /\ ports[p] # None => port.number = ports[p].number
      /\ ports[p] = None => port.number = Zero
  <2>1. CASE ports[p] = None
    <3>1. 0 \in 0..MaxChanges
      BY PortAssumption
    <3> HIDE DEF p, status
    <3> QED  BY <1>3, <2>1, <3>1 DEF Port, State, Number
  <2>2. CASE ports[p] # None
    <3>1. ports[p] \in Port
      BY <1>1, <1>3, <2>2 DEF TypeOK
    <3> QED  BY <1>4, <2>2, <3>1
  <2> QED  BY <2>1, <2>2
<1> HIDE DEF p, status, port
<1>6. MonitorsOK(monitor')
  <2>1. MonitorOK([monitor[m] EXCEPT !.pc = "get", !.inbox = Tail(@), !.name = p,
                                     !.port = port, !.live = TRUE])
    BY <1>1, <1>3, <1>5 DEF MonitorOK
  <2>2. ASSUME NEW k \in Monitors, monitor[k].live
        PROVE  MonitorOK([monitor[k] EXCEPT !.port.state.status = status])
    <3>1. MonitorOK(monitor[k]) /\ monitor[k].port \in Port
      BY <1>1, <2>2 DEF MonitorsOK, MonitorOK
    <3> DEFINE q == [monitor[k].port EXCEPT !.state.status = status]
    <3>2. q \in Port
      BY <1>4, <3>1
    <3>3. [monitor[k] EXCEPT !.port.state.status = status] = [monitor[k] EXCEPT !.port = q]
      BY <3>1 DEF MonitorOK
    <3> HIDE DEF q
    <3> QED  BY <3>1, <3>2, <3>3 DEF MonitorOK
  <2>3. \A k \in Monitors : MonitorOK(f[k])
    BY <1>1, <2>1, <2>2 DEF MonitorsOK
  <2>4. f = [k \in Monitors |-> f[k]]
    OBVIOUS
  <2> HIDE DEF f
  <2> QED  BY <1>2, <2>3, <2>4 DEF MonitorsOK
<1> HIDE DEF f
<1>7. PICK more \in SUBSET {p} :
        /\ worker' = [worker EXCEPT !.todo = @ \cup more]
        /\ more # {} => Iterating
  BY <1>2
<1>8. /\ WorkerOK(worker') /\ worker'.pc = worker.pc /\ worker'.todo = worker.todo \cup more
      /\ worker'.left = worker.left /\ worker'.number = worker.number
  BY <1>1, <1>3, <1>7 DEF TypeOK, WorkerOK, Iterating
<1>9. /\ ports' \in [Ports -> Port \cup {None}]
      /\ Keys(ports)' = Keys(ports) \cup {p}
  BY <1>1, <1>2, <1>3, <1>5, NoneIsDistinct DEF TypeOK, Keys
<1>10. TypeOK'
  BY <1>1, <1>6, <1>8, <1>9 DEF TypeOK, MonitorsOK, deviceVars, topoVars
<1>11. \A q \in Ports : Listed(q)' => Listed(q)
  BY <1>1, <1>2, <1>3, <1>5, NoneIsDistinct DEF TypeOK, Listed
<1>12. Used'
  BY <1>1, <1>8, <1>11 DEF Used, UsedBy, Sweeping
<1> QED  BY <1>10, <1>12 DEF IInv

LEMMA ReturnedOK ==
  ASSUME TypeOK, NEW m \in Monitors
  PROVE  MonitorOK(Returned(m))
<1>1. MonitorOK(monitor[m])
  BY DEF TypeOK
<1> QED  BY <1>1 DEF MonitorOK, Returned

LEMMA GetInv ==
  ASSUME IInv, NEW m \in Monitors, GetPort(m)
  PROVE  IInv'
<1>1. /\ TypeOK /\ MonitorsOK(monitor) /\ MonitorOK(monitor[m])
      /\ ctxCancel \in Monitors \cup {None} /\ monitor[m].pc = "get"
      /\ UNCHANGED <<deviceVars, contextVars, worker, topoVars>>
  BY DEF IInv, TypeOK, MonitorsOK, GetPort, MonitorIs
<1> DEFINE x == [monitor[m] EXCEPT !.pc = "update", !.fresh = TRUE, !.live = FALSE]
<1>2. /\ monitor' = [monitor EXCEPT ![m] = x] \/ monitor' = [monitor EXCEPT ![m] = Returned(m)]
      /\ Fault \/ UNCHANGED faults
  BY DEF GetPort
<1>3. MonitorOK(x)
  BY <1>1 DEF MonitorOK
<1> HIDE DEF x
<1>4. MonitorsOK(monitor')
  BY <1>1, <1>2, <1>3, ReturnedOK, OneMonitor
<1> QED  BY <1>1, <1>2, <1>4, MonitorMoves DEF contextVars

LEMMA StatusInv ==
  ASSUME IInv, NEW m \in Monitors, UpdateStatus(m)
  PROVE  IInv'
<1>1. /\ TypeOK /\ Used /\ MonitorsOK(monitor) /\ MonitorOK(monitor[m]) /\ WorkerOK(worker)
      /\ monitor[m].pc = "update" /\ UNCHANGED <<deviceVars, contextVars, has>>
  BY DEF IInv, TypeOK, MonitorsOK, UpdateStatus, MonitorIs
<1> DEFINE n == monitor[m].port.number
           s == monitor[m].port.state
<1>2. n \in Number /\ s \in State /\ s # None
  BY <1>1, NoneIsDistinct DEF MonitorOK, Port
<1>3. \/ /\ entity' = [entity EXCEPT ![n] = s]
         /\ monitor' = [StaleMonitors(n) EXCEPT ![m] = Returned(m)]
         /\ worker' = StaleWorker(worker, n)
         /\ UNCHANGED faults
      \/ /\ monitor' = [monitor EXCEPT ![m] = Returned(m)]
         /\ UNCHANGED <<entity, worker>>
         /\ Fault \/ UNCHANGED faults
  BY DEF UpdateStatus
<1> HIDE DEF n, s
<1>4. /\ WorkerOK(worker') /\ worker'.pc = worker.pc /\ worker'.todo = worker.todo
      /\ worker'.left = worker.left /\ worker'.number = worker.number
  BY <1>1, <1>2, <1>3, StaleWorkerOK
<1>5. MonitorsOK(monitor')
  BY <1>1, <1>3, StaleMonitorsOK, ReturnedOK, OneMonitor
<1>6. /\ entity' \in [Number -> State \cup {None}]
      /\ \A k \in Number : entity[k] # None => entity'[k] # None
  BY <1>1, <1>2, <1>3 DEF TypeOK
<1>7. has' \subseteq {k \in Number : entity'[k] # None} /\ worker.todo \subseteq Keys(ports)
  BY <1>1, <1>6 DEF TypeOK
<1>8. worker'.pc = "has" => entity'[worker'.number] # None
  BY <1>1, <1>4, <1>6 DEF TypeOK, WorkerOK
<1>9. UsedBy(worker')
  BY <1>1, <1>4 DEF Used, UsedBy, Sweeping
<1> QED  BY <1>1, <1>3, <1>4, <1>5, <1>6, <1>7, <1>8, <1>9, WorkerMoves

------------------------------------------------------------------------------
(* The device, and the end of the process. *)

LEMMA DeviceInv ==
  ASSUME IInv, NEW p \in Ports, DeviceChange(p)
  PROVE  IInv'
<1>1. /\ TypeOK /\ Used /\ MonitorsOK(monitor)
      /\ changes < MaxChanges /\ changes' = changes + 1
      /\ UNCHANGED <<contextVars, worker, topoVars, faults>>
  BY DEF IInv, TypeOK, MonitorsOK, DeviceChange
<1>2. changes' \in 0..MaxChanges
  BY <1>1, PortAssumption DEF TypeOK
<1>3. PICK s \in {None} \cup [status : Status, last : {changes'}] :
        /\ device' = [device EXCEPT ![p] = s]
        /\ monitor' = [m \in Monitors |->
             IF s # None /\ p \in monitor[m].subs /\ ~monitor[m].cancelled
             THEN [monitor[m] EXCEPT !.inbox = Append(@, [name |-> p, status |-> s.status])]
             ELSE monitor[m]]
  BY DEF DeviceChange
<1>4. device' \in [Ports -> State \cup {None}]
  <2>1. s \in State \cup {None}
    BY <1>2 DEF State
  <2> QED  BY <1>1, <1>3, <2>1 DEF TypeOK
<1>5. MonitorsOK(monitor')
  <2>1. ASSUME NEW m \in Monitors, s # None
        PROVE  MonitorOK([monitor[m] EXCEPT
                           !.inbox = Append(@, [name |-> p, status |-> s.status])])
    <3>1. MonitorOK(monitor[m]) /\ [name |-> p, status |-> s.status] \in [name : Ports, status : Status]
      BY <1>1, <2>1 DEF MonitorsOK
    <3> DEFINE inbox == Append(monitor[m].inbox, [name |-> p, status |-> s.status])
    <3>2. inbox \in Seq([name : Ports, status : Status])
      BY <3>1 DEF MonitorOK
    <3> HIDE DEF inbox
    <3>3. MonitorOK([monitor[m] EXCEPT !.inbox = inbox])
      BY <3>1, <3>2 DEF MonitorOK
    <3> QED  BY <3>3 DEF inbox
  <2>2. \A m \in Monitors : MonitorOK(monitor'[m])
    BY <1>1, <1>3, <2>1 DEF MonitorsOK
  <2>3. monitor' = [m \in Monitors |-> monitor'[m]]
    BY <1>3
  <2> QED  BY <2>2, <2>3 DEF MonitorsOK
<1>6. TypeOK'
  BY <1>1, <1>2, <1>4, <1>5 DEF TypeOK, MonitorsOK, contextVars, topoVars, Keys
<1>7. Used'
  BY <1>1 DEF Used, UsedBy, Listed, contextVars
<1> QED  BY <1>6, <1>7 DEF IInv

LEMMA CrashInv ==
  ASSUME IInv, Crash
  PROVE  IInv'
<1>1. /\ TypeOK /\ Fault /\ worker' = IdleWorker
      /\ ports' = [p \in Ports |-> None] /\ ctxCancel' = None
      /\ monitor' = [m \in Monitors |-> Off]
      /\ UNCHANGED <<deviceVars, topoVars>>
  BY DEF IInv, Crash
<1>2. WorkerOK(IdleWorker) /\ IdleWorker.pc = "idle" /\ IdleWorker.todo = {}
  BY DEF IdleWorker, NothingSeen, WorkerOK
<1>3. TypeOK'
  BY <1>1, <1>2, OffOK, FaultType DEF TypeOK, deviceVars, topoVars, Keys
<1>4. Used'
  BY <1>1, <1>2 DEF Used, UsedBy, Sweeping
<1> QED  BY <1>3, <1>4 DEF IInv

------------------------------------------------------------------------------
(* The theorems. *)

LEMMA IInvInit == Init => IInv
<1> SUFFICES ASSUME Init
             PROVE  IInv
  OBVIOUS
<1>1. WorkerOK(IdleWorker) /\ IdleWorker.pc = "idle" /\ IdleWorker.todo = {}
  BY DEF IdleWorker, NothingSeen, WorkerOK
<1>2. device \in [Ports -> State \cup {None}]
  <2>1. [status |-> "UP", last |-> 0] \in State
    BY PortAssumption DEF State, Status
  <2> QED  BY <2>1 DEF Init
<1>3. 0 \in 0..MaxChanges /\ 0 \in 0..MaxFaults
  BY PortAssumption
<1>4. TypeOK
  BY <1>1, <1>2, <1>3, OffOK DEF Init, TypeOK, Keys
<1>5. Used
  BY <1>1 DEF Init, Used, UsedBy, Sweeping
<1> QED  BY <1>4, <1>5 DEF IInv

LEMMA IInvStep == IInv /\ [Next]_vars => IInv'
<1> SUFFICES ASSUME IInv, [Next]_vars
             PROVE  IInv'
  OBVIOUS
<1>1. CASE WorkerStep
  BY <1>1, WorkerInv
<1>2. ASSUME NEW m \in Monitors, MonitorStep(m) \/ SubscribeFails(m) \/ MonitorEnds(m)
      PROVE  IInv'
  BY <1>2, StartInv, RecvInv, GetInv, StatusInv DEF MonitorStep
<1>3. ASSUME NEW p \in Ports, DeviceChange(p)
      PROVE  IInv'
  BY <1>3, DeviceInv
<1>4. CASE Crash
  BY <1>4, CrashInv
<1>5. CASE UNCHANGED vars
  BY <1>5 DEF IInv, TypeOK, Used, UsedBy, Listed, Keys, vars, deviceVars, contextVars, topoVars
<1> QED  BY <1>1, <1>2, <1>3, <1>4, <1>5 DEF Next

LEMMA Inductive == SafeSpec => []IInv
  BY IInvInit, IInvStep, PTL DEF SafeSpec

\* Whatever sweeps, monitors, the device, failures and crashes do, every
\* variable keeps its type, a relation is only created for a port entity that
\* is there, and only what was read is updated or deleted.
THEOREM TypeCorrect == SafeSpec => []TypeOK
<1>1. IInv => TypeOK
  BY DEF IInv
<1> QED  BY <1>1, Inductive, PTL

Keeps ==
  \A p \in Ports :
    ports[p] # None /\ ports[p].number = p /\ entity[p] # None => entity'[p] # None

\* DiscoverPorts deletes no entity of a port in the device's last answer.
LEMMA StepKeeps == IInv /\ [Next]_vars => Keeps
<1> SUFFICES ASSUME IInv, [Next]_vars, NEW p \in Ports, Listed(p), entity[p] # None
             PROVE  entity'[p] # None
  BY DEF Keeps, Listed
<1>1. TypeOK /\ Used /\ p \in Number
  BY DEF IInv, Number
<1>2. CASE DeletePort
  <2>1. worker.pc = "ports" /\ worker.todo = {} /\ p \notin worker.left
    BY <1>1, <1>2 DEF DeletePort, Used, UsedBy, Sweeping
  <2>2. \E n \in worker.left : entity' = [entity EXCEPT ![n] = None] \/ UNCHANGED entity
    BY <1>2 DEF DeletePort, topoVars
  <2> QED  BY <1>1, <2>1, <2>2 DEF TypeOK
<1>3. CASE CreatePort \/ UpdatePort
  <2>1. worker.want \in State
    BY <1>1, <1>3 DEF CreatePort, UpdatePort, TypeOK, WorkerOK
  <2>2. entity' = [entity EXCEPT ![worker.number] = worker.want] \/ UNCHANGED entity
    BY <1>3 DEF CreatePort, UpdatePort
  <2> QED  BY <1>1, <2>1, <2>2, NoneIsDistinct DEF TypeOK
<1>4. ASSUME NEW m \in Monitors, UpdateStatus(m)
      PROVE  entity'[p] # None
  <2>1. monitor[m].port.state \in State
    BY <1>1, <1>4 DEF UpdateStatus, MonitorIs, TypeOK, MonitorOK, Port
  <2>2. \/ entity' = [entity EXCEPT ![monitor[m].port.number] = monitor[m].port.state]
        \/ UNCHANGED entity
    BY <1>4 DEF UpdateStatus
  <2> QED  BY <1>1, <2>1, <2>2, NoneIsDistinct DEF TypeOK
<1>5. CASE FetchPorts \/ SwapPorts \/ QueryPorts \/ NextPort \/ CreateHas \/ CallFails
           \/ DiscoverEnds \/ Crash \/ UNCHANGED vars
  <2>1. UNCHANGED entity
    BY <1>5 DEF FetchPorts, SwapPorts, QueryPorts, NextPort, CreateHas, CallFails,
                DiscoverEnds, Crash, vars, topoVars
  <2> QED  BY <2>1
<1>6. ASSUME NEW m \in Monitors,
             Subscribe(m) \/ SubscribeFails(m) \/ MonitorEnds(m) \/ MonitorRecv(m) \/ GetPort(m)
      PROVE  entity'[p] # None
  BY <1>6 DEF Subscribe, SubscribeFails, MonitorEnds, MonitorRecv, GetPort, topoVars
<1>7. ASSUME NEW q \in Ports, DeviceChange(q)
      PROVE  entity'[p] # None
  BY <1>7 DEF DeviceChange, topoVars
<1> QED  BY <1>2, <1>3, <1>4, <1>5, <1>6, <1>7 DEF Next, WorkerStep, MonitorStep

\* No sweep deletes the entity of a port that the device's last answer has.
THEOREM ListedIsKept == SafeSpec => ListedPortIsKept
<1>1. IInv /\ [Next]_vars => [Keeps]_vars
  BY StepKeeps
<1>2. SafeSpec => [][Keeps]_vars
  BY <1>1, Inductive, PTL DEF SafeSpec
<1> QED  BY <1>2 DEF ListedPortIsKept, Keeps

------------------------------------------------------------------------------
(* Ports without their has relation. *)

\* The snapshot of entity n that the worker, or a monitor, may still write.
SeenFresh(w, n) == w.seen[n] # None /\ w.seen[n].fresh
HeldFresh(x, n) == x.pc = "update" /\ x.fresh /\ x.port.number = n

\* What is fresh is there: writing it creates nothing.
Fresh ==
  \A n \in Number :
    /\ SeenFresh(worker, n) => entity[n] # None
    /\ \A m \in Monitors : HeldFresh(monitor[m], n) => entity[n] # None

InHand(n) == worker.pc = "has" /\ worker.number = n
Stranded == {n \in Number : Unrelated(n) /\ ~InHand(n)}

\* Entities stay, and no snapshot is taken.
LEMMA FreshStays ==
  ASSUME Fresh,
         \A n \in Number : entity[n] # None => entity'[n] # None,
         \A n \in Number : SeenFresh(worker', n) => SeenFresh(worker, n),
         \A n \in Number, m \in Monitors : HeldFresh(monitor'[m], n) => HeldFresh(monitor[m], n)
  PROVE  Fresh'
  BY DEF Fresh

LEMMA StaleIsNotFresh ==
  ASSUME TypeOK, NEW w, WorkerOK(w), NEW n \in Number, NEW k \in Number
  PROVE  /\ SeenFresh(StaleWorker(w, n), k) => k # n /\ SeenFresh(w, k)
         /\ \A m \in Monitors :
              HeldFresh(StaleMonitors(n)[m], k) => k # n /\ HeldFresh(monitor[m], k)
<1>1. SeenFresh(StaleWorker(w, n), k) => k # n /\ SeenFresh(w, k)
  <2>1. CASE w.seen[n] = None
    BY <2>1 DEF StaleWorker, SeenFresh
  <2>2. CASE w.seen[n] # None
    <3> DEFINE v == [w EXCEPT !.seen[n].fresh = FALSE]
               x == [w.seen[n] EXCEPT !.fresh = FALSE]
    <3>1. w.seen \in [Number -> Snapshot \cup {None}] /\ w.seen[n] \in Snapshot
      BY <2>2 DEF WorkerOK
    <3>2. ~x.fresh
      BY <3>1 DEF Snapshot
    <3>3. v = [w EXCEPT !.seen = [w.seen EXCEPT ![n] = x]]
      BY <3>1 DEF WorkerOK
    <3> HIDE DEF x
    <3>4. v.seen = [w.seen EXCEPT ![n] = x]
      BY <3>3 DEF WorkerOK
    <3>5. StaleWorker(w, n) = v
      BY <2>2 DEF StaleWorker
    <3> HIDE DEF v
    <3> QED  BY <3>1, <3>2, <3>4, <3>5 DEF SeenFresh
  <2> QED  BY <2>1, <2>2
<1>2. ASSUME NEW m \in Monitors, HeldFresh(StaleMonitors(n)[m], k)
      PROVE  k # n /\ HeldFresh(monitor[m], k)
  <2>1. MonitorOK(monitor[m])
    BY DEF TypeOK
  <2> QED  BY <1>2, <2>1 DEF StaleMonitors, HeldFresh, MonitorOK
<1> QED  BY <1>1, <1>2

\* The steps of the worker that write nothing, or create.
LEMMA WorkerFresh ==
  ASSUME IInv, Fresh, WorkerStep, ~DeletePort
  PROVE  Fresh'
<1>1. /\ TypeOK /\ WorkerOK(worker) /\ \A m \in Monitors : MonitorOK(monitor[m])
      /\ entity \in [Number -> State \cup {None}] /\ has \subseteq {n \in Number : entity[n] # None}
  BY DEF IInv, TypeOK
<1>2. CASE FetchPorts \/ CreatePort \/ CreateHas \/ CallFails
  <2>1. worker'.seen = worker.seen /\ UNCHANGED monitor
    BY <1>1, <1>2 DEF FetchPorts, CreatePort, CreateHas, CallFails, NextIs, WorkerOK
  <2>2. entity' = entity \/ (entity[worker.number] = None
                             /\ entity' = [entity EXCEPT ![worker.number] = worker.want])
    BY <1>2 DEF FetchPorts, CreatePort, CreateHas, CallFails, topoVars
  <2>3. \A n \in Number : entity[n] # None => entity'[n] # None
    BY <1>1, <2>2
  <2> QED  BY <2>1, <2>3, FreshStays DEF SeenFresh
<1>3. CASE SwapPorts
  <2> DEFINE left == [m \in Monitors |-> [monitor[m] EXCEPT !.live = FALSE]]
             stopping == IF ctxCancel = None \/ left[ctxCancel].pc = "off" THEN left
                         ELSE [left EXCEPT ![ctxCancel].cancelled = TRUE]
  <2>1. /\ worker'.seen = worker.seen /\ UNCHANGED entity
        /\ StartMonitor(stopping) \/ monitor' = left
    BY <1>1, <1>3 DEF SwapPorts, WorkerOK, topoVars
  <2>2. \A m \in Monitors : left[m].pc = monitor[m].pc /\ left[m].fresh = monitor[m].fresh
                            /\ left[m].port = monitor[m].port
    BY <1>1 DEF MonitorOK
  <2>3. \A m \in Monitors : stopping[m].pc = left[m].pc /\ stopping[m].fresh = left[m].fresh
                            /\ stopping[m].port = left[m].port
    <3> DEFINE x == [left[ctxCancel] EXCEPT !.cancelled = TRUE]
    <3>1. stopping = left \/ stopping = [left EXCEPT ![ctxCancel] = x]
      OBVIOUS
    <3>2. left = [m \in Monitors |-> left[m]]
      OBVIOUS
    <3>3. ctxCancel \in Monitors =>
            x.pc = left[ctxCancel].pc /\ x.fresh = left[ctxCancel].fresh
            /\ x.port = left[ctxCancel].port
      BY <1>1 DEF MonitorOK
    <3> HIDE DEF left, stopping, x
    <3> QED  BY <3>1, <3>2, <3>3
  <2>4. StartMonitor(stopping) =>
          \A m \in Monitors : monitor'[m] = stopping[m] \/ monitor'[m].pc = "starting"
    <3>1. [Off EXCEPT !.pc = "starting"].pc = "starting"
      BY DEF Off
    <3>2. stopping = [m \in Monitors |-> stopping[m]]
      OBVIOUS
    <3> HIDE DEF stopping
    <3> QED  BY <3>1, <3>2 DEF StartMonitor
  <2> HIDE DEF left, stopping
  <2>5. \A n \in Number, m \in Monitors : HeldFresh(monitor'[m], n) => HeldFresh(monitor[m], n)
    BY <2>1, <2>2, <2>3, <2>4 DEF HeldFresh
  <2> QED  BY <2>1, <2>5, FreshStays DEF SeenFresh
<1>4. CASE QueryPorts \/ DiscoverEnds
  <2>1. UNCHANGED <<monitor, entity>>
    BY <1>4 DEF QueryPorts, DiscoverEnds, topoVars
  <2>2. ASSUME NEW n \in Number, SeenFresh(worker', n)
        PROVE  n \in has
    <3>1. worker' # IdleWorker
      BY <2>2 DEF SeenFresh, IdleWorker, NothingSeen
    <3>2. worker'.seen[n] = IF n \in has THEN [state |-> entity[n], fresh |-> TRUE] ELSE None
      <4> DEFINE f == [j \in Number |->
                        IF j \in has THEN [state |-> entity[j], fresh |-> TRUE] ELSE None]
      <4>1. worker' = [worker EXCEPT !.pc = "ports", !.todo = Keys(ports), !.left = has, !.seen = f]
        BY <1>4, <3>1 DEF QueryPorts, DiscoverEnds
      <4>2. f[n] = IF n \in has THEN [state |-> entity[n], fresh |-> TRUE] ELSE None
        OBVIOUS
      <4> HIDE DEF f
      <4>3. worker'.seen = f
        BY <1>1, <4>1 DEF WorkerOK
      <4> QED  BY <4>2, <4>3
    <3> QED  BY <2>2, <3>2 DEF SeenFresh
  <2> QED  BY <1>1, <2>1, <2>2 DEF Fresh
<1>5. CASE NextPort
  <2>1. UNCHANGED <<monitor, entity>>
    BY <1>5 DEF NextPort, topoVars
  <2>2. PICK p \in worker.todo :
          LET n == ports[p].number
              w == [worker EXCEPT !.todo = @ \ {p}, !.left = @ \ {n}]
              does(pc) == [w EXCEPT !.pc = pc, !.number = n, !.want = ports[p].state]
          IN worker' \in {w, does("create"), does("update")}
    BY <1>5 DEF NextPort
  <2>3. worker'.seen = worker.seen
    BY <1>1, <2>2 DEF WorkerOK
  <2> QED  BY <2>1, <2>3, FreshStays DEF SeenFresh
<1>6. CASE UpdatePort
  <2>1. worker.number \in Number /\ worker.want # None
    BY <1>1, <1>6, NoneIsDistinct DEF UpdatePort, WorkerOK
  <2>2. CASE worker.seen[worker.number].fresh
    <3> DEFINE w == StaleWorker(worker, worker.number)
    <3>1. /\ NextIs(w) /\ monitor' = StaleMonitors(worker.number)
          /\ entity' = [entity EXCEPT ![worker.number] = worker.want]
      BY <1>6, <2>2 DEF UpdatePort
    <3>2. WorkerOK(w)
      BY <1>1, <2>1, StaleWorkerOK
    <3>3. \A k \in Number :
            /\ SeenFresh(w, k) => SeenFresh(worker, k)
            /\ \A m \in Monitors : HeldFresh(monitor'[m], k) => HeldFresh(monitor[m], k)
      BY <1>1, <2>1, <3>1, StaleIsNotFresh
    <3> HIDE DEF w
    <3>4. worker'.seen = w.seen
      BY <3>1, <3>2 DEF NextIs, WorkerOK
    <3>5. \A k \in Number : entity[k] # None => entity'[k] # None
      BY <1>1, <2>1, <3>1
    <3> QED  BY <3>3, <3>4, <3>5, FreshStays DEF SeenFresh
  <2>3. CASE ~worker.seen[worker.number].fresh
    <3>1. worker'.seen = worker.seen /\ UNCHANGED <<monitor, entity>>
      BY <1>1, <1>6, <2>3 DEF UpdatePort, NextIs, WorkerOK
    <3> QED  BY <3>1, FreshStays DEF SeenFresh
  <2> QED  BY <2>2, <2>3
<1> QED  BY <1>2, <1>3, <1>4, <1>5, <1>6 DEF WorkerStep

\* What is deleted is no longer fresh.
LEMMA DeleteFresh ==
  ASSUME IInv, Fresh, DeletePort
  PROVE  Fresh'
<1>1. /\ TypeOK /\ WorkerOK(worker) /\ entity \in [Number -> State \cup {None}]
  BY DEF IInv, TypeOK
<1>2. PICK n \in worker.left :
        LET w == [worker EXCEPT !.left = @ \ {n}] IN
        \/ /\ entity' = [entity EXCEPT ![n] = None]
           /\ monitor' = StaleMonitors(n)
           /\ worker' = StaleWorker(w, n)
        \/ worker' = w /\ UNCHANGED <<entity, monitor>>
  BY DEF DeletePort, topoVars
<1> DEFINE w == [worker EXCEPT !.left = @ \ {n}]
<1>3. n \in Number /\ WorkerOK(w) /\ w.seen = worker.seen
  BY <1>1 DEF WorkerOK
<1>4. CASE entity' = [entity EXCEPT ![n] = None] /\ monitor' = StaleMonitors(n)
           /\ worker' = StaleWorker(w, n)
  <2> HIDE DEF w
  <2>1. \A k \in Number :
          /\ SeenFresh(worker', k) => k # n /\ SeenFresh(w, k)
          /\ \A m \in Monitors : HeldFresh(monitor'[m], k) => k # n /\ HeldFresh(monitor[m], k)
    BY <1>1, <1>3, <1>4, StaleIsNotFresh
  <2>2. \A k \in Number : SeenFresh(w, k) => SeenFresh(worker, k)
    BY <1>3 DEF SeenFresh
  <2>3. \A k \in Number : k # n => entity'[k] = entity[k]
    BY <1>1, <1>4
  <2> QED  BY <2>1, <2>2, <2>3 DEF Fresh
<1>5. CASE worker' = w /\ UNCHANGED <<entity, monitor>>
  <2> HIDE DEF w
  <2> QED  BY <1>3, <1>5, FreshStays DEF SeenFresh
<1> QED  BY <1>2, <1>4, <1>5

\* A monitor only takes a snapshot of what is there, and a status that arrives
\* changes no number.
LEMMA MonitorFresh ==
  ASSUME IInv, Fresh, NEW m \in Monitors,
         MonitorStep(m) \/ SubscribeFails(m) \/ MonitorEnds(m)
  PROVE  Fresh'
<1>1. /\ TypeOK /\ WorkerOK(worker) /\ \A k \in Monitors : MonitorOK(monitor[k])
      /\ monitor = [k \in Monitors |-> monitor[k]] /\ entity \in [Number -> State \cup {None}]
  BY DEF IInv, TypeOK
<1>2. CASE Subscribe(m) \/ SubscribeFails(m) \/ MonitorEnds(m)
  <2>1. UNCHANGED <<worker, entity>>
    BY <1>2 DEF Subscribe, SubscribeFails, MonitorEnds, topoVars
  <2>2. \A k \in Monitors : monitor'[k] = monitor[k] \/ monitor'[k].pc # "update"
    <3>1. CASE Subscribe(m)
      <4> DEFINE x == [monitor[m] EXCEPT !.pc = "on", !.subs = Keys(ports)]
      <4>1. monitor' = [monitor EXCEPT ![m] = x] /\ x.pc = "on"
        BY <1>1, <3>1 DEF Subscribe, MonitorOK
      <4> HIDE DEF x
      <4> QED  BY <1>1, <4>1
    <3>2. CASE SubscribeFails(m) \/ MonitorEnds(m)
      BY <1>1, <3>2 DEF SubscribeFails, MonitorEnds, Off
    <3> QED  BY <1>2, <3>1, <3>2
  <2> QED  BY <2>1, <2>2, FreshStays DEF HeldFresh
<1>3. CASE MonitorRecv(m)
  <2>1. UNCHANGED entity /\ worker'.seen = worker.seen
    BY <1>1, <1>3 DEF MonitorRecv, topoVars, WorkerOK
  <2>2. \A k \in Monitors :
          \/ monitor'[k] = monitor[k]
          \/ monitor'[k].pc = "get"
          \/ monitor[k].live /\ \E status : monitor'[k] = [monitor[k] EXCEPT !.port.state.status = status]
    <3> DEFINE x(q, p, port) == [monitor[m] EXCEPT !.pc = "get", !.inbox = q, !.name = p,
                                                   !.port = port, !.live = TRUE]
    <3>1. \A q, p, port : x(q, p, port).pc = "get"
      BY <1>1 DEF MonitorOK
    <3>2. ASSUME NEW k \in Monitors, k # m
          PROVE  \/ monitor'[k] = monitor[k]
                 \/ monitor[k].live /\ \E status : monitor'[k] = [monitor[k] EXCEPT !.port.state.status = status]
      BY <1>3, <3>2 DEF MonitorRecv
    <3>3. \E q, p, port : monitor'[m] = x(q, p, port)
      BY <1>3 DEF MonitorRecv
    <3>4. monitor'[m].pc = "get"
      <4> HIDE DEF x
      <4> QED  BY <3>1, <3>3
    <3> QED  BY <3>2, <3>4
  <2>3. ASSUME NEW k \in Monitors, monitor[k].live, NEW status,
               monitor'[k] = [monitor[k] EXCEPT !.port.state.status = status]
        PROVE  /\ monitor'[k].pc = monitor[k].pc /\ monitor'[k].fresh = monitor[k].fresh
               /\ monitor'[k].port.number = monitor[k].port.number
    <3>1. MonitorOK(monitor[k]) /\ monitor[k].port \in Port
      BY <1>1, <2>3 DEF MonitorOK
    <3> DEFINE x == [monitor[k].port.state EXCEPT !.status = status]
               q == [monitor[k].port EXCEPT !.state = x]
    <3>2. q.number = monitor[k].port.number
      <4> HIDE DEF x
      <4> QED  BY <3>1 DEF Port
    <3>3. monitor'[k] = [monitor[k] EXCEPT !.port = q]
      BY <2>3, <3>1 DEF MonitorOK
    <3> HIDE DEF q
    <3> QED  BY <3>1, <3>2, <3>3 DEF MonitorOK
  <2>4. \A n \in Number, k \in Monitors : HeldFresh(monitor'[k], n) => HeldFresh(monitor[k], n)
    BY <2>2, <2>3 DEF HeldFresh
  <2> QED  BY <2>1, <2>4, FreshStays DEF SeenFresh
<1>4. CASE GetPort(m)
  <2> DEFINE x == [monitor[m] EXCEPT !.pc = "update", !.fresh = TRUE, !.live = FALSE]
             n == monitor[m].port.number
  <2>1. UNCHANGED <<worker, entity>>
    BY <1>4 DEF GetPort, topoVars
  <2>2. \/ entity[n] # None /\ monitor' = [monitor EXCEPT ![m] = x]
        \/ monitor' = [monitor EXCEPT ![m] = Returned(m)]
    BY <1>4 DEF GetPort
  <2>3. x.port.number = n /\ Returned(m).pc = "on"
    BY <1>1 DEF MonitorOK, Returned
  <2> HIDE DEF x, n
  <2>4. \A j \in Number, k \in Monitors :
          HeldFresh(monitor'[k], j) => HeldFresh(monitor[k], j) \/ entity[j] # None
    BY <1>1, <2>2, <2>3 DEF HeldFresh
  <2> QED  BY <2>1, <2>4 DEF Fresh
<1>5. CASE UpdateStatus(m)
  <2> DEFINE n == monitor[m].port.number
             s == monitor[m].port.state
  <2>1. n \in Number /\ s # None /\ Returned(m).pc = "on"
    <3>1. MonitorOK(monitor[m]) /\ monitor[m].pc = "update"
      BY <1>1, <1>5 DEF UpdateStatus, MonitorIs
    <3> QED  BY <3>1, NoneIsDistinct DEF MonitorOK, Port, Returned
  <2>2. \/ /\ entity' = [entity EXCEPT ![n] = s]
           /\ monitor' = [StaleMonitors(n) EXCEPT ![m] = Returned(m)]
           /\ worker' = StaleWorker(worker, n)
        \/ /\ monitor' = [monitor EXCEPT ![m] = Returned(m)]
           /\ UNCHANGED <<entity, worker>>
    BY <1>5 DEF UpdateStatus
  <2> HIDE DEF n, s
  <2>3. \A j \in Number, k \in Monitors : HeldFresh(monitor'[k], j) => HeldFresh(monitor[k], j)
    <3>1. StaleMonitors(n) = [k \in Monitors |-> StaleMonitors(n)[k]]
      BY DEF StaleMonitors
    <3>2. \A k \in Monitors : monitor'[k] \in {monitor[k], StaleMonitors(n)[k], Returned(m)}
      BY <1>1, <2>2, <3>1
    <3> QED  BY <1>1, <2>1, <3>2, StaleIsNotFresh DEF HeldFresh
  <2>4. \A j \in Number : SeenFresh(worker', j) => SeenFresh(worker, j)
    BY <1>1, <2>1, <2>2, StaleIsNotFresh
  <2>5. \A j \in Number : entity[j] # None => entity'[j] # None
    BY <1>1, <2>1, <2>2
  <2> QED  BY <2>3, <2>4, <2>5, FreshStays
<1> QED  BY <1>2, <1>3, <1>4, <1>5 DEF MonitorStep

LEMMA FreshInv ==
  ASSUME IInv, Fresh, [Next]_vars
  PROVE  Fresh'
<1>1. ASSUME NEW p \in Ports, DeviceChange(p)
      PROVE  Fresh'
  <2>1. UNCHANGED <<worker, entity>>
    BY <1>1 DEF DeviceChange, topoVars
  <2>2. ASSUME NEW m \in Monitors
        PROVE  /\ monitor'[m].pc = monitor[m].pc /\ monitor'[m].fresh = monitor[m].fresh
               /\ monitor'[m].port = monitor[m].port
    <3>1. \A q : LET x == [monitor[m] EXCEPT !.inbox = q] IN
            x.pc = monitor[m].pc /\ x.fresh = monitor[m].fresh /\ x.port = monitor[m].port
      <4>1. MonitorOK(monitor[m])
        BY DEF IInv, TypeOK
      <4> QED  BY <4>1 DEF MonitorOK
    <3>2. monitor'[m] = monitor[m] \/ \E q : monitor'[m] = [monitor[m] EXCEPT !.inbox = q]
      <4>1. PICK s \in {None} \cup [status : Status, last : {changes'}] :
                     monitor' = [k \in Monitors |->
                       IF s # None /\ p \in monitor[k].subs /\ ~monitor[k].cancelled
                       THEN [monitor[k] EXCEPT !.inbox = Append(@, [name |-> p, status |-> s.status])]
                       ELSE monitor[k]]
        BY <1>1 DEF DeviceChange
      <4> DEFINE q == Append(monitor[m].inbox, [name |-> p, status |-> s.status])
      <4>2. monitor'[m] = monitor[m] \/ monitor'[m] = [monitor[m] EXCEPT !.inbox = q]
        BY <4>1
      <4> HIDE DEF q
      <4> QED  BY <4>2
    <3> QED  BY <3>1, <3>2
  <2> QED  BY <2>1, <2>2, FreshStays DEF HeldFresh
<1>2. CASE Crash
  <2>1. UNCHANGED entity /\ worker'.seen = NothingSeen /\ \A m \in Monitors : monitor'[m].pc = "off"
    BY <1>2 DEF Crash, IdleWorker, Off, topoVars
  <2> QED  BY <2>1 DEF Fresh, SeenFresh, HeldFresh, NothingSeen
<1>3. CASE UNCHANGED vars
  BY <1>3, FreshStays DEF vars, topoVars
<1> QED  BY <1>1, <1>2, <1>3, WorkerFresh, DeleteFresh, MonitorFresh DEF Next

\* Only a failure adds a port, and no more than one.
Grows ==
  \/ Stranded' \subseteq Stranded /\ (Fault \/ UNCHANGED faults)
  \/ Fault /\ \E n : Stranded' \subseteq Stranded \cup {n}

LEMMA StepGrows == IInv /\ Fresh /\ [Next]_vars => Grows
<1> SUFFICES ASSUME IInv, Fresh, [Next]_vars
             PROVE  Grows
  OBVIOUS
<1>1. /\ TypeOK /\ WorkerOK(worker) /\ entity \in [Number -> State \cup {None}]
  BY DEF IInv, TypeOK
\* Nothing is created, and the worker keeps what it has in hand.
<1>2. ASSUME UNCHANGED topoVars, Fault \/ UNCHANGED faults,
             worker.pc = "has" => worker'.pc = "has" /\ worker'.number = worker.number
      PROVE  Grows
  BY <1>2 DEF Grows, Stranded, Unrelated, InHand, topoVars
<1>3. CASE FetchPorts \/ SwapPorts \/ QueryPorts \/ NextPort \/ DiscoverEnds
  BY <1>2, <1>3 DEF FetchPorts, SwapPorts, QueryPorts, NextPort, DiscoverEnds, topoVars
<1>4. CASE CreatePort
  <2>1. worker.pc = "create" /\ worker.number \in Number /\ UNCHANGED <<has, faults>>
    BY <1>1, <1>4 DEF CreatePort, WorkerOK
  <2>2. CASE entity[worker.number] = None
    <3>1. entity' = [entity EXCEPT ![worker.number] = worker.want] /\ worker' = [worker EXCEPT !.pc = "has"]
      BY <1>4, <2>2 DEF CreatePort
    <3>2. worker'.pc = "has" /\ worker'.number = worker.number
      BY <1>1, <3>1 DEF WorkerOK
    <3>3. \A n \in Number : n # worker.number => entity'[n] = entity[n]
      BY <1>1, <3>1
    <3> QED  BY <2>1, <3>2, <3>3 DEF Grows, Stranded, Unrelated, InHand
  <2>3. CASE entity[worker.number] # None
    <3>1. UNCHANGED entity
      BY <1>4, <2>3 DEF CreatePort
    <3> QED  BY <1>2, <2>1, <3>1 DEF topoVars
  <2> QED  BY <2>2, <2>3
<1>5. CASE CreateHas
  BY <1>5 DEF CreateHas, Grows, Stranded, Unrelated, InHand
<1>6. CASE CallFails \/ Crash
  <2>1. Fault /\ UNCHANGED <<entity, has>>
    BY <1>6 DEF CallFails, Crash, topoVars
  <2>2. Stranded' \subseteq Stranded \cup {worker.number}
    BY <2>1 DEF Stranded, Unrelated, InHand
  <2> QED  BY <2>1, <2>2 DEF Grows
\* Who writes, writes what is there.
<1>7. ASSUME NEW n \in Number, NEW s, entity[n] # None, entity' = [entity EXCEPT ![n] = s],
             UNCHANGED <<has, faults>>,
             worker.pc = "has" => worker'.pc = "has" /\ worker'.number = worker.number
      PROVE  Grows
  BY <1>1, <1>7 DEF Grows, Stranded, Unrelated, InHand
<1>8. CASE UpdatePort
  <2>1. worker.pc = "update" /\ worker.number \in Number /\ worker.seen[worker.number] # None
    BY <1>1, <1>8 DEF UpdatePort, WorkerOK
  <2>2. CASE worker.seen[worker.number].fresh
    <3>1. entity[worker.number] # None
      BY <2>1, <2>2 DEF Fresh, SeenFresh
    <3>2. entity' = [entity EXCEPT ![worker.number] = worker.want] /\ UNCHANGED <<has, faults>>
      BY <1>8, <2>2 DEF UpdatePort
    <3> QED  BY <1>7, <2>1, <3>1, <3>2
  <2>3. CASE ~worker.seen[worker.number].fresh
    BY <1>2, <1>8, <2>1, <2>3 DEF UpdatePort, topoVars
  <2> QED  BY <2>2, <2>3
<1>9. CASE DeletePort
  <2>1. worker.pc = "ports"
    BY <1>9 DEF DeletePort
  <2>2. PICK n \in worker.left :
          \/ entity' = [entity EXCEPT ![n] = None] /\ has' = has \ {n} /\ UNCHANGED faults
          \/ Fault /\ UNCHANGED topoVars
    BY <1>9 DEF DeletePort
  <2>3. n \in Number
    BY <1>1 DEF WorkerOK
  <2>4. CASE entity' = [entity EXCEPT ![n] = None] /\ has' = has \ {n} /\ UNCHANGED faults
    BY <1>1, <2>1, <2>3, <2>4 DEF Grows, Stranded, Unrelated, InHand
  <2>5. CASE Fault /\ UNCHANGED topoVars
    BY <1>2, <2>1, <2>5
  <2> QED  BY <2>2, <2>4, <2>5
<1>10. ASSUME NEW m \in Monitors,
              Subscribe(m) \/ SubscribeFails(m) \/ MonitorEnds(m) \/ GetPort(m)
       PROVE  Grows
  BY <1>2, <1>10 DEF Subscribe, SubscribeFails, MonitorEnds, GetPort
<1>11. ASSUME NEW m \in Monitors, MonitorRecv(m)
       PROVE  Grows
  <2>1. worker'.pc = worker.pc /\ worker'.number = worker.number
    BY <1>1, <1>11 DEF MonitorRecv, WorkerOK
  <2> QED  BY <1>2, <1>11, <2>1 DEF MonitorRecv
<1>12. ASSUME NEW m \in Monitors, UpdateStatus(m)
       PROVE  Grows
  <2> DEFINE n == monitor[m].port.number
             s == monitor[m].port.state
  <2>1. n \in Number /\ monitor[m].pc = "update" /\ UNCHANGED has
    <3>1. MonitorOK(monitor[m]) /\ monitor[m].pc = "update"
      BY <1>1, <1>12 DEF UpdateStatus, MonitorIs, TypeOK
    <3> QED  BY <1>12, <3>1 DEF UpdateStatus, MonitorOK, Port
  <2>2. \/ /\ monitor[m].fresh /\ entity' = [entity EXCEPT ![n] = s]
           /\ worker' = StaleWorker(worker, n) /\ UNCHANGED faults
        \/ UNCHANGED <<entity, worker>> /\ (Fault \/ UNCHANGED faults)
    BY <1>12 DEF UpdateStatus
  <2>3. monitor[m].fresh => entity[n] # None
    BY <2>1 DEF Fresh, HeldFresh
  <2> HIDE DEF n, s
  <2>4. worker'.pc = worker.pc /\ worker'.number = worker.number
    BY <1>1, <2>1, <2>2, StaleWorkerOK
  <2> QED  BY <1>2, <1>7, <2>1, <2>2, <2>3, <2>4 DEF topoVars
<1>13. ASSUME NEW p \in Ports, DeviceChange(p)
       PROVE  Grows
  BY <1>2, <1>13 DEF DeviceChange
<1>14. CASE UNCHANGED vars
  BY <1>2, <1>14 DEF vars
<1> QED
  BY <1>3, <1>4, <1>5, <1>6, <1>8, <1>9, <1>10, <1>11, <1>12, <1>13, <1>14
     DEF Next, WorkerStep, MonitorStep

\* Whatever sweeps, monitors and the device do, it takes a failure each, or a
\* crash, to leave a port without its has relation, which no later sweep
\* creates (createPort): what monitors and sweeps update is always there.
THEOREM StrandedOnlyByFailures == SafeSpec => []StrandedByFailures
<1> DEFINE Bounded == IsFiniteSet(Stranded) /\ Cardinality(Stranded) <= faults
<1>1. Init => Fresh /\ Bounded
  <2> SUFFICES ASSUME Init PROVE Fresh /\ Bounded
    OBVIOUS
  <2>1. Fresh
    BY DEF Init, Fresh, SeenFresh, HeldFresh, IdleWorker, NothingSeen, Off
  <2>2. Stranded = {}
    BY DEF Init, Stranded, Unrelated
  <2> QED  BY <2>1, <2>2, FS_EmptySet DEF Init
<1>2. IInv /\ Bounded /\ Grows => Bounded'
  <2> SUFFICES ASSUME IInv, Bounded, Grows PROVE Bounded'
    OBVIOUS
  <2>1. faults \in Nat /\ Cardinality(Stranded) \in Nat
    <3>1. faults \in Nat
      BY PortAssumption DEF IInv, TypeOK
    <3> QED  BY <3>1, FS_CardinalityType
  <2>2. CASE Stranded' \subseteq Stranded /\ (Fault \/ UNCHANGED faults)
    <3>1. IsFiniteSet(Stranded') /\ Cardinality(Stranded') <= Cardinality(Stranded)
      BY <2>2, FS_Subset
    <3>2. Cardinality(Stranded') \in Nat
      BY <3>1, FS_CardinalityType
    <3> HIDE DEF Stranded
    <3> QED  BY <2>1, <2>2, <3>1, <3>2 DEF Fault
  <2>3. CASE Fault /\ \E n : Stranded' \subseteq Stranded \cup {n}
    <3>1. PICK n : Stranded' \subseteq Stranded \cup {n}
      BY <2>3
    <3>2. /\ IsFiniteSet(Stranded \cup {n})
          /\ Cardinality(Stranded \cup {n}) \in {Cardinality(Stranded), Cardinality(Stranded) + 1}
      BY FS_AddElement
    <3>3. /\ IsFiniteSet(Stranded')
          /\ Cardinality(Stranded') <= Cardinality(Stranded \cup {n})
      BY <3>1, <3>2, FS_Subset
    <3>4. Cardinality(Stranded') \in Nat
      BY <3>3, FS_CardinalityType
    <3> QED  BY <2>1, <2>3, <3>2, <3>3, <3>4 DEF Fault
  <2> QED  BY <2>2, <2>3 DEF Grows
<1>3. IInv /\ Fresh /\ Bounded /\ [Next]_vars => (Fresh /\ Bounded)'
  BY <1>2, FreshInv, StepGrows
<1>4. Bounded => StrandedByFailures
  BY DEF StrandedByFailures, Stranded, InHand
<1> QED  BY <1>1, <1>3, <1>4, Inductive, PTL DEF SafeSpec

==============================================================================
