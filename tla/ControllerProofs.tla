--------------------------- MODULE ControllerProofs ---------------------------
(***************************************************************************)
(* Proofs about Controller, for any entities, workers, channel depth,      *)
(* number of versions and of failures, with and without a neighbor realm:  *)
(* type correctness, that the controller implements Workers, so that what  *)
(* WorkersProofs proves holds of it, that no worker runs before the        *)
(* reconcilers have been created, and that, without a neighbor realm, at   *)
(* most one watch goroutine is at work.                                    *)
(*                                                                         *)
(* The last two are not inductive: ConnectedFirst follows the connection   *)
(* from the dial along the run loop and the state to the watches, the      *)
(* queues and the workers, and OneAtWork says where the run loop and the   *)
(* state can be beside a watch goroutine.                                  *)
(***************************************************************************)
EXTENDS Controller, FiniteSetTheorems, TLAPS

PoolProofs == INSTANCE WorkersProofs

\* What is sent is an entity, not a removal.
SendsEntities ==
  \A k \in DOMAIN watches :
    watches[k].sending # None => watches[k].sending \in Pool!Item

\* Where the run loop can only be once it has dialed.
BehindDial ==
  { "dialed", "sweepLoop", "query", "recv", "send", "swept", "prepare", "prepared",
    "prepareNeighbor", "setMonitoring", "setMonitoringNeighbor", "monitorLoop" }

ConnectedFirst ==
  /\ run \in BehindDial => connected
  /\ state \in {"Connected", "Initialized", "Monitoring"} => connected
  /\ watches # <<>> => connected
  /\ \A r \in Pool!Realms : queue[r] # <<>> => connected
  /\ \A w \in Pool!AllWorkers : pc[w] \in Pool!Phases \cup {"received"} => connected

------------------------------------------------------------------------------
(* The pool of Controller and that of WorkersProofs are the same. *)

LEMMA PoolAssumption == PoolProofs!WorkersAssumption
  BY ControllerAssumption DEF PoolProofs!WorkersAssumption, PoolProofs!Item, Revisions

LEMMA SameItems ==
  /\ Pool!Item = PoolProofs!Item /\ Pool!Realms = PoolProofs!Realms
  /\ Pool!AllWorkers = PoolProofs!AllWorkers /\ Pool!Phases = PoolProofs!Phases
  /\ \A w : Pool!RealmOf(w) = PoolProofs!RealmOf(w)
  /\ \A w : Pool!FirstPhase(w) = PoolProofs!FirstPhase(w)
  /\ Pool!vars = PoolProofs!vars
  BY DEF Pool!Item, PoolProofs!Item, Pool!Realms, PoolProofs!Realms,
         Pool!AllWorkers, PoolProofs!AllWorkers, Pool!Phases, PoolProofs!Phases,
         Pool!RealmOf, PoolProofs!RealmOf, Pool!FirstPhase, PoolProofs!FirstPhase,
         Pool!vars, PoolProofs!vars

LEMMA SameState ==
  /\ Pool!TypeOK <=> PoolProofs!TypeOK
  /\ Pool!Init <=> PoolProofs!Init
  BY SameItems DEF Pool!TypeOK, PoolProofs!TypeOK, Pool!Init, PoolProofs!Init

LEMMA SameSteps ==
  ASSUME [Pool!Next]_(Pool!vars)
  PROVE  [PoolProofs!Next]_(PoolProofs!vars)
<1>1. CASE UNCHANGED Pool!vars
  BY <1>1 DEF Pool!vars, PoolProofs!vars
<1>2. ASSUME NEW r \in Pool!Realms, NEW i \in Pool!Item, Pool!Send(r, i)
      PROVE  PoolProofs!Next
  BY <1>2, SameItems DEF Pool!Send, PoolProofs!Send, PoolProofs!Next
<1>3. ASSUME NEW r \in Pool!Realms, Pool!Close(r)
      PROVE  PoolProofs!Next
  BY <1>3, SameItems DEF Pool!Close, PoolProofs!Close, PoolProofs!Next
<1>4. ASSUME NEW w \in Pool!AllWorkers, Pool!WorkerStep(w)
      PROVE  PoolProofs!Next
  <2>1. PoolProofs!WorkerStep(w)
    BY <1>4, SameItems
       DEF Pool!WorkerStep, Pool!Receive, Pool!Exit, Pool!Claim, Pool!Drop,
           Pool!DiscoverPorts, Pool!DiscoverLinks, Pool!DiscoverHosts,
           Pool!RegisterAgent, Pool!Release, Pool!Goto,
           PoolProofs!WorkerStep, PoolProofs!Receive, PoolProofs!Exit, PoolProofs!Claim,
           PoolProofs!Drop, PoolProofs!DiscoverPorts, PoolProofs!DiscoverLinks,
           PoolProofs!DiscoverHosts, PoolProofs!RegisterAgent, PoolProofs!Release,
           PoolProofs!Goto
  <2> QED  BY <2>1, SameItems DEF PoolProofs!Next
<1>5. CASE Pool!Next
  BY <1>2, <1>3, <1>4, <1>5 DEF Pool!Next
<1> QED  BY <1>1, <1>5

\* What WorkersProofs proves of an invariant of Workers.
LEMMA SameProperties ==
  /\ Pool!OneWorkerPerObject <=> PoolProofs!OneWorkerPerObject
  /\ Pool!NoStaleClaim <=> PoolProofs!NoStaleClaim
  BY SameItems
     DEF Pool!OneWorkerPerObject, PoolProofs!OneWorkerPerObject, Pool!NoStaleClaim,
         PoolProofs!NoStaleClaim, Pool!Busy, PoolProofs!Busy

------------------------------------------------------------------------------
(* The steps of the controller are steps of the pool. *)

\* What is sent or panics is one send of the pool, or leaves it alone.
LEMMA SendStep ==
  ASSUME NEW r \in Pool!Realms, NEW i \in Pool!Item, SendOrPanic(r, i)
  PROVE  [Pool!Next]_(Pool!vars)
  BY DEF SendOrPanic, poolVars, Pool!Next, Pool!vars

LEMMA RunPool ==
  ASSUME TypeOK, RunStep
  PROVE  [Pool!Next]_(Pool!vars)
<1>1. CASE SendEntity
  <2>1. sweep.sending \in Pool!Item /\ "realm" \in Pool!Realms
    BY <1>1 DEF SendEntity, RunGoto, TypeOK, Pool!Realms
  <2> QED  BY <1>1, <2>1, SendStep DEF SendEntity
<1>2. CASE ~SendEntity
  <2>1. UNCHANGED poolVars
    BY <1>2
       DEF RunStep, RunLoop, WhileState, DialSucceeds, DialFails, RunSetState, SweepLoop,
           BeginSweep, Query, QueryFails, RecvEntity, SweepEnds, RecvEntityFails, OpenWatch,
           OpenWatchFails, Prepared, MonitorLeave, MonitorSweep
  <2> QED  BY <2>1 DEF poolVars, Pool!vars
<1> QED  BY <1>1, <1>2

LEMMA WatchPool ==
  ASSUME TypeOK, SendsEntities, NEW k \in DOMAIN watches, WatchStep(k)
  PROVE  [Pool!Next]_(Pool!vars)
<1>1. CASE WatchSend(k)
  <2>1. watches[k] \in Watch
    BY DEF TypeOK
  <2>2. watches[k].sending \in Pool!Item /\ watches[k].realm \in Pool!Realms
    BY <1>1, <2>1 DEF WatchSend, TypeOK, SendsEntities, Watch
  <2> QED  BY <1>1, <2>2, SendStep DEF WatchSend
<1>2. CASE ~WatchSend(k)
  <2>1. UNCHANGED poolVars
    BY <1>2 DEF WatchStep, WatchCheck, WatchRecv, WatchRecvFails, SetDisconnected
  <2> QED  BY <2>1 DEF poolVars, Pool!vars
<1> QED  BY <1>1, <1>2

\* Every step of the controller sends, closes, is a step of a worker, or
\* leaves the pool alone.
LEMMA PoolStep ==
  ASSUME TypeOK, SendsEntities, [Next]_vars
  PROVE  [Pool!Next]_(Pool!vars)
<1>1. CASE RunStep
  BY <1>1, RunPool
<1>2. ASSUME NEW k \in DOMAIN watches, WatchStep(k)
      PROVE  [Pool!Next]_(Pool!vars)
  BY <1>2, WatchPool
<1>3. ASSUME NEW w \in RealmWorkers \cup NeighborWorkers, WorkerStep(w)
      PROVE  Pool!Next
  BY <1>3 DEF WorkerStep, Pool!Next, Pool!AllWorkers
<1>4. CASE StopContinues
  BY <1>4 DEF StopContinues, StopClose, Pool!Next, Pool!Realms
<1>5. CASE Environment \/ UNCHANGED vars
  <2>1. UNCHANGED poolVars
    BY <1>5 DEF Environment, Stop, TopoChange, WatchBreaks, vars
  <2> QED  BY <2>1 DEF poolVars, Pool!vars
<1> QED  BY <1>1, <1>2, <1>3, <1>4, <1>5 DEF Next

------------------------------------------------------------------------------
(* Type correctness. *)

\* The pool is typed, since Workers is.
LEMMA PoolType ==
  ASSUME TypeOK, SendsEntities, [Next]_vars
  PROVE  Pool!TypeOK'
<1>1. [PoolProofs!Next]_(PoolProofs!vars)
  BY PoolStep, SameSteps
<1>2. PoolProofs!TypeOK
  BY SameState DEF TypeOK
<1>3. PoolProofs!TypeOK'
  BY <1>1, <1>2, PoolAssumption, PoolProofs!TypeStep
<1>4. (Pool!TypeOK <=> PoolProofs!TypeOK)'
  BY SameState, PTL
<1> QED  BY <1>3, <1>4

\* A query returns finitely many items.
LEMMA PresentItems ==
  ASSUME TypeOK, NEW r \in Pool!Realms
  PROVE  /\ Present(r) \subseteq Pool!Item /\ IsFiniteSet(Present(r))
         /\ Present(r) \subseteq Event
<1> DEFINE P == {p \in ObjectsOf(r) : topo[p] # Absent}
<1>1. P \subseteq Objects /\ IsFiniteSet(P)
  BY ControllerAssumption, FS_Subset DEF ObjectsOf
<1>2. IsFiniteSet(Present(r))
  <2> DEFINE f == [p \in P |-> [id |-> p, rev |-> topo[p]]]
  <2>1. f \in Surjection(P, Present(r))
    BY DEF Surjection, Present
  <2> QED  BY <1>1, <2>1, FS_Surjection
<1>3. \A p \in P : topo[p] \in Revisions
  BY <1>1 DEF TypeOK
<1> QED  BY <1>1, <1>2, <1>3 DEF Present, Pool!Item, Event

\* A replay is a sequence of events.
LEMMA ReplayType ==
  ASSUME TypeOK, NEW r \in Pool!Realms, NEW replay \in SetToSeqs(Present(r))
  PROVE  replay \in Seq(Event)
<1>1. Cardinality(Present(r)) \in Nat
  BY PresentItems, FS_CardinalityType
<1>2. replay \in [1..Cardinality(Present(r)) -> Event]
  BY PresentItems DEF SetToSeqs
<1> QED  BY <1>1, <1>2

\* The state of the goroutines and of onos-topo, without the pool.
Local ==
  /\ state \in States
  /\ run \in RunLabels
  /\ sweep \in [by : {"none", "initial", "periodic"}, left : SUBSET Pool!Item,
                sending : Pool!Item \cup {None}]
  /\ connected \in BOOLEAN
  /\ watches \in Seq(Watch)
  /\ stopper \in {"running", "closeRealm", "closeNeighbor", "done"}
  /\ panicked \in BOOLEAN
  /\ topo \in [Objects -> Revisions \cup {Absent}]
  /\ version \in Revisions
  /\ faults \in 0..MaxFaults
  /\ run = "send" <=> sweep.sending # None
  /\ \A k \in DOMAIN watches : watches[k].pc = "send" <=> watches[k].sending # None

LEMMA LocalIs == TypeOK <=> Pool!TypeOK /\ Local
  BY DEF TypeOK, Local

LEMMA FaultType ==
  ASSUME TypeOK, Fault
  PROVE  /\ faults' \in 0..MaxFaults
         /\ topo' = topo /\ version' = version
  BY ControllerAssumption DEF Fault, TypeOK

LEMMA RunType ==
  ASSUME TypeOK, SendsEntities, RunStep
  PROVE  Local' /\ SendsEntities'
<1> USE DEF TypeOK, Local, RunGoto
<1>0. ASSUME UNCHANGED watches
      PROVE  /\ SendsEntities' /\ watches' \in Seq(Watch)
             /\ \A k \in DOMAIN watches' :
                  watches'[k].pc = "send" <=> watches'[k].sending # None
  BY <1>0 DEF SendsEntities, Pool!Item
<1>1. CASE RunLoop
  <2>1. HandlerOf(state) \in RunLabels \ {"send"} /\ run # "send"
    BY <1>1 DEF RunLoop, HandlerOf, States, RunLabels
  <2> QED  BY <1>0, <1>1, <2>1 DEF RunLoop, topoVars
<1>2. ASSUME NEW label \in RunLabels \ {"send"}, NEW s \in States,
             NEW body \in RunLabels \ {"send"}, WhileState(label, s, body)
      PROVE  Local' /\ SendsEntities'
  BY <1>0, <1>2 DEF WhileState, topoVars, RunLabels
<1>3. ASSUME NEW from \in RunLabels \ {"send"}, NEW s \in States,
             NEW to \in RunLabels \ {"send"}, RunSetState(from, s, to)
      PROVE  Local' /\ SendsEntities'
  BY <1>0, <1>3 DEF RunSetState, topoVars
<1>4. CASE DialSucceeds \/ DialFails \/ Prepared
  BY <1>0, <1>4, FaultType DEF DialSucceeds, DialFails, Prepared, topoVars, RunLabels
<1>5. ASSUME NEW from \in RunLabels \ {"send"}, NEW by \in {"initial", "periodic"},
             BeginSweep(from, by)
      PROVE  Local' /\ SendsEntities'
  BY <1>0, <1>5 DEF BeginSweep, NoSweep, topoVars, RunLabels
<1>6. ASSUME NEW ok \in BOOLEAN
      PROVE  AfterSweep(sweep.by, ok) \in RunLabels \ {"send"}
  BY DEF AfterSweep, RunLabels
<1>7. CASE Query
  BY <1>0, <1>7, PresentItems DEF Query, topoVars, RunLabels, Pool!Realms
<1>8. CASE QueryFails \/ SweepEnds \/ RecvEntityFails
  <2>1. /\ run' \in RunLabels \ {"send"} /\ run # "send"
        /\ sweep' = NoSweep
        /\ UNCHANGED <<state, connected, watches, stopper, panicked>>
    BY <1>6, <1>8 DEF QueryFails, SweepEnds, RecvEntityFails, SweepReturns
  <2>2. Fault \/ UNCHANGED topoVars
    BY <1>8 DEF QueryFails, SweepEnds, RecvEntityFails
  <2>3. faults' \in 0..MaxFaults /\ topo' = topo /\ version' = version
    BY <2>2, FaultType DEF topoVars
  <2> QED  BY <1>0, <2>1, <2>3 DEF NoSweep
<1>9. CASE RecvEntity
  <2>1. PICK i \in sweep.left : sweep' = [sweep EXCEPT !.left = @ \ {i}, !.sending = i]
    BY <1>9 DEF RecvEntity
  <2>2. i \in Pool!Item /\ i # None
    BY <2>1, SameItems, PoolAssumption DEF PoolProofs!WorkersAssumption
  <2> QED  BY <1>0, <1>9, <2>1, <2>2 DEF RecvEntity, topoVars, RunLabels
<1>10. CASE SendEntity
  BY <1>0, <1>10 DEF SendEntity, SendOrPanic, poolVars, topoVars, RunLabels
<1>11. ASSUME NEW from \in RunLabels \ {"send"}, NEW r \in Pool!Realms,
              NEW to \in RunLabels \ {"send"}, OpenWatch(from, r, to)
       PROVE  Local' /\ SendsEntities'
  <2>1. PICK replay \in SetToSeqs(Present(r)) :
          watches' = Append(watches,
            [realm |-> r, pc |-> "check", sending |-> None, inbox |-> replay, broken |-> FALSE])
    BY <1>11 DEF OpenWatch
  <2>2. watches' \in Seq(Watch)
    BY <2>1, ReplayType DEF Watch
  <2>3. \A k \in DOMAIN watches' :
          \/ k \in DOMAIN watches /\ watches'[k] = watches[k]
          \/ watches'[k].sending = None /\ watches'[k].pc = "check"
    BY <2>1
  <2>4. SendsEntities' /\ \A k \in DOMAIN watches' :
          watches'[k].pc = "send" <=> watches'[k].sending # None
    BY <2>3 DEF SendsEntities, Pool!Item
  <2> QED  BY <1>11, <2>2, <2>4 DEF OpenWatch, topoVars
<1>12. ASSUME NEW from \in RunLabels \ {"send"}, NEW to \in RunLabels \ {"send"},
              OpenWatchFails(from, to)
       PROVE  Local' /\ SendsEntities'
  BY <1>0, <1>12, FaultType DEF OpenWatchFails, States
<1> HIDE DEF TypeOK, Local, RunGoto
<1>13. {"connectLoop", "dial", "dialed", "sweepLoop", "query", "swept", "prepare", "prepared",
        "prepareNeighbor", "monitorLoop", "setMonitoring", "setMonitoringNeighbor", "loop"}
         \subseteq RunLabels \ {"send"}
  BY DEF RunLabels
<1>14. {"Disconnected", "Connected", "Initialized", "Monitoring"} \subseteq States
  BY DEF States
<1>15. "realm" \in Pool!Realms /\ "neighbor" \in Pool!Realms
  BY DEF Pool!Realms
<1>16. CASE SweepLoop
  BY <1>2, <1>5, <1>13, <1>14, <1>16 DEF SweepLoop
<1>17. CASE MonitorLeave \/ MonitorSweep
  BY <1>2, <1>5, <1>13, <1>14, <1>17 DEF MonitorLeave, MonitorSweep
<1> QED
  BY <1>1, <1>2, <1>3, <1>4, <1>7, <1>8, <1>9, <1>10, <1>11, <1>12, <1>13, <1>14, <1>15,
     <1>16, <1>17 DEF RunStep

\* A goroutine that has moved on, with a typed stream and event.
LEMMA WatchChanged ==
  ASSUME TypeOK, SendsEntities, NEW k \in DOMAIN watches, NEW w \in Watch,
         watches' = [watches EXCEPT ![k] = w],
         w.pc = "send" <=> w.sending # None,
         w.sending # None => w.sending \in Pool!Item
  PROVE  /\ SendsEntities' /\ watches' \in Seq(Watch)
         /\ \A j \in DOMAIN watches' :
              watches'[j].pc = "send" <=> watches'[j].sending # None
<1>1. watches' \in Seq(Watch) /\ DOMAIN watches' = DOMAIN watches
  BY DEF TypeOK
<1>2. \A j \in DOMAIN watches : watches'[j] = IF j = k THEN w ELSE watches[j]
  BY DEF TypeOK
<1> QED  BY <1>1, <1>2 DEF TypeOK, SendsEntities, Pool!Item

LEMMA WatchType ==
  ASSUME TypeOK, SendsEntities, NEW k \in DOMAIN watches, WatchStep(k)
  PROVE  Local' /\ SendsEntities'
<1>0. watches[k] \in Watch /\ (watches[k].pc = "send" <=> watches[k].sending # None)
  BY DEF TypeOK
<1>1. ASSUME /\ SendsEntities' /\ watches' \in Seq(Watch)
             /\ \A j \in DOMAIN watches' :
                  watches'[j].pc = "send" <=> watches'[j].sending # None
      PROVE  Local' /\ SendsEntities'
  <2>1. UNCHANGED <<run, sweep, connected, stopper, topoVars>>
    BY DEF WatchStep, WatchCheck, WatchRecv, WatchSend, WatchRecvFails, SetDisconnected
  <2>2. panicked' \in BOOLEAN /\ state' \in States
    BY DEF WatchStep, WatchCheck, WatchRecv, WatchSend, WatchRecvFails, SetDisconnected,
           SendOrPanic, TypeOK, States
  <2> QED  BY <1>1, <2>1, <2>2 DEF TypeOK, Local, topoVars, Pool!Item
<1>2. CASE WatchCheck(k) \/ WatchRecvFails(k) \/ SetDisconnected(k)
  <2>1. PICK to \in {"recv", "exited", "failed", "check"} :
          watches' = [watches EXCEPT ![k].pc = to]
    BY <1>2 DEF WatchCheck, WatchRecvFails, SetDisconnected, WatchGoto
  <2>2. watches[k].pc # "send" /\ watches[k].sending = None
    BY <1>0, <1>2 DEF WatchCheck, WatchRecvFails, SetDisconnected, WatchGoto
  <2> DEFINE w == [watches[k] EXCEPT !.pc = to]
  <2>3. w \in Watch /\ w.pc # "send" /\ w.sending = None
    BY <1>0, <2>1, <2>2 DEF Watch
  <2>4. watches' = [watches EXCEPT ![k] = w]
    BY <2>1
  <2> HIDE DEF w
  <2> QED  BY <1>1, <2>3, <2>4, WatchChanged
<1>3. CASE WatchRecv(k)
  <2> DEFINE event == Head(watches[k].inbox)
             gone == event.rev = Absent
             w == [watches[k] EXCEPT !.inbox = Tail(@),
                                     !.pc = IF gone THEN "check" ELSE "send",
                                     !.sending = IF gone THEN None ELSE event]
  <2>1. watches' = [watches EXCEPT ![k] = w]
    BY <1>3 DEF WatchRecv
  <2>2. event \in Event /\ Tail(watches[k].inbox) \in Seq(Event)
    BY <1>0, <1>3 DEF WatchRecv, Watch
  <2>3. ~gone => event \in Pool!Item /\ event # None
    BY <2>2, SameItems, PoolAssumption DEF Event, Pool!Item, PoolProofs!WorkersAssumption
  <2>4. /\ w \in Watch /\ (w.pc = "send" <=> w.sending # None)
        /\ w.sending # None => w.sending \in Pool!Item
    BY <1>0, <2>2, <2>3 DEF Watch
  <2> HIDE DEF w
  <2> QED  BY <1>1, <2>1, <2>4, WatchChanged
<1>4. CASE WatchSend(k)
  <2> DEFINE w == [watches[k] EXCEPT !.pc = "check", !.sending = None]
  <2>1. watches' = [watches EXCEPT ![k] = w]
    BY <1>4 DEF WatchSend
  <2>2. w \in Watch /\ w.pc = "check" /\ w.sending = None
    BY <1>0 DEF Watch
  <2> HIDE DEF w
  <2> QED  BY <1>1, <2>1, <2>2, WatchChanged
<1> QED  BY <1>2, <1>3, <1>4 DEF WatchStep

\* Events and breaks change the streams only.
LEMMA StreamsType ==
  ASSUME TypeOK, SendsEntities, watches' \in Seq(Watch), DOMAIN watches' = DOMAIN watches,
         \A k \in DOMAIN watches :
           watches'[k].pc = watches[k].pc /\ watches'[k].sending = watches[k].sending
  PROVE  /\ SendsEntities'
         /\ \A k \in DOMAIN watches' :
              watches'[k].pc = "send" <=> watches'[k].sending # None
  BY DEF TypeOK, SendsEntities, Pool!Item

LEMMA EnvironmentType ==
  ASSUME TypeOK, SendsEntities, Environment
  PROVE  Local' /\ SendsEntities'
<1>1. CASE Stop
  BY <1>1 DEF Stop, TypeOK, Local, SendsEntities, States, topoVars, Pool!Item
<1>2. ASSUME NEW o \in Objects, TopoChange(o)
      PROVE  Local' /\ SendsEntities'
  <2>1. PICK r \in {version', Absent} :
          topo' = [topo EXCEPT ![o] = r] /\ Deliver(o, r)
    BY <1>2 DEF TopoChange
  <2>2. version' \in Revisions /\ r \in Revisions \cup {Absent}
    BY <1>2, ControllerAssumption DEF TopoChange, TypeOK, Revisions
  <2>3. [id |-> o, rev |-> r] \in Event
    BY <2>2 DEF Event
  <2>4. \A k \in DOMAIN watches : watches[k] \in Watch
    BY DEF TypeOK
  <2>5. ASSUME NEW k \in DOMAIN watches
        PROVE  /\ watches'[k] \in Watch
               /\ watches'[k].pc = watches[k].pc /\ watches'[k].sending = watches[k].sending
    <3> DEFINE inbox == Append(watches[k].inbox, [id |-> o, rev |-> r])
    <3>1. \/ watches'[k] = watches[k]
          \/ watches'[k] = [watches[k] EXCEPT !.inbox = inbox]
      BY <2>1 DEF Deliver
    <3>2. inbox \in Seq(Event)
      BY <2>3, <2>4 DEF Watch
    <3> HIDE DEF inbox
    <3> QED  BY <2>4, <3>1, <3>2 DEF Watch
  <2>6. watches' \in Seq(Watch) /\ DOMAIN watches' = DOMAIN watches
    BY <2>1, <2>5 DEF Deliver, TypeOK
  <2> QED  BY <1>2, <2>1, <2>2, <2>5, <2>6, StreamsType DEF TopoChange, TypeOK, Local
<1>3. ASSUME NEW k \in DOMAIN watches, WatchBreaks(k)
      PROVE  Local' /\ SendsEntities'
  <2>1. PICK n \in 0..Len(watches[k].inbox) :
          watches' = [watches EXCEPT ![k].broken = TRUE, ![k].inbox = SubSeq(@, 1, n)]
    BY <1>3 DEF WatchBreaks
  <2> DEFINE w == [watches[k] EXCEPT !.broken = TRUE, !.inbox = SubSeq(@, 1, n)]
  <2>2. watches[k] \in Watch
    BY DEF TypeOK
  <2>3. SubSeq(watches[k].inbox, 1, n) \in Seq(Event)
    BY <2>1, <2>2 DEF Watch
  <2>4. w \in Watch /\ w.pc = watches[k].pc /\ w.sending = watches[k].sending
    BY <2>2, <2>3 DEF Watch
  <2>5. watches' = [watches EXCEPT ![k] = w]
    BY <2>1
  <2> HIDE DEF w
  <2>6. /\ SendsEntities' /\ watches' \in Seq(Watch)
        /\ \A j \in DOMAIN watches' :
             watches'[j].pc = "send" <=> watches'[j].sending # None
    BY <2>4, <2>5, WatchChanged DEF TypeOK, SendsEntities
  <2> QED  BY <1>3, <2>6, FaultType DEF WatchBreaks, TypeOK, Local
<1> QED  BY <1>1, <1>2, <1>3 DEF Environment

\* Every step preserves the types, and that only entities are sent.
LEMMA TypeStep ==
  ASSUME TypeOK, SendsEntities, [Next]_vars
  PROVE  TypeOK' /\ SendsEntities'
<1> SUFFICES Local' /\ SendsEntities'
  BY PoolType DEF TypeOK, Local
<1>0. ASSUME UNCHANGED <<state, run, sweep, connected, watches, panicked, topoVars>>,
             stopper' \in {"running", "closeRealm", "closeNeighbor", "done"}
      PROVE  Local' /\ SendsEntities'
  BY <1>0 DEF TypeOK, Local, SendsEntities, topoVars, Pool!Item
<1>1. ASSUME NEW w \in RealmWorkers \cup NeighborWorkers, WorkerStep(w)
      PROVE  Local' /\ SendsEntities'
  BY <1>0, <1>1 DEF WorkerStep, TypeOK
<1>2. CASE StopContinues
  BY <1>0, <1>2 DEF StopContinues, StopClose
<1>3. CASE UNCHANGED vars
  BY <1>0, <1>3 DEF vars, TypeOK
<1> QED  BY <1>1, <1>2, <1>3, RunType, WatchType, EnvironmentType DEF Next

------------------------------------------------------------------------------
(* The reconcilers are there before anything is queued. *)

LEMMA OnceConnected ==
  ASSUME [Next]_vars, connected
  PROVE  connected'
<1>1. CASE RunStep
  BY <1>1
     DEF RunStep, RunLoop, WhileState, DialSucceeds, DialFails, RunSetState, SweepLoop,
         BeginSweep, Query, QueryFails, RecvEntity, SweepEnds, RecvEntityFails, SendEntity,
         OpenWatch, OpenWatchFails, Prepared, MonitorLeave, MonitorSweep
<1>2. ASSUME NEW k \in DOMAIN watches, WatchStep(k)
      PROVE  connected'
  BY <1>2 DEF WatchStep, WatchCheck, WatchRecv, WatchSend, WatchRecvFails, SetDisconnected
<1>3. ASSUME NEW w \in RealmWorkers \cup NeighborWorkers, WorkerStep(w)
      PROVE  connected'
  BY <1>3 DEF WorkerStep
<1>4. CASE StopContinues \/ Environment \/ UNCHANGED vars
  BY <1>4 DEF StopContinues, StopClose, Environment, Stop, TopoChange, WatchBreaks, vars
<1> QED  BY <1>1, <1>2, <1>3, <1>4 DEF Next

\* Before the dial there is nothing behind it.
LEMMA BeforeDial ==
  ASSUME TypeOK, ConnectedFirst, ~connected
  PROVE  /\ run \notin BehindDial /\ state \in {"Disconnected", "Stopped"}
         /\ watches = <<>>
         /\ \A r \in Pool!Realms : queue[r] = <<>>
         /\ \A w \in Pool!AllWorkers : pc[w] \in {"idle", "exited"}
<1>1. \A w \in Pool!AllWorkers : pc[w] \in Pool!Phases \cup {"idle", "received", "exited"}
  BY DEF TypeOK, Pool!TypeOK
<1> QED  BY <1>1 DEF ConnectedFirst, TypeOK, States

\* The run loop gets behind the dial, and nothing else happens there before.
LEMMA ConnectedStep ==
  ASSUME TypeOK, SendsEntities, ConnectedFirst, [Next]_vars
  PROVE  ConnectedFirst'
<1>1. CASE connected
  BY <1>1, OnceConnected DEF ConnectedFirst
<1>2. CASE ~connected
  <2>0. /\ run \notin BehindDial /\ state \in {"Disconnected", "Stopped"}
        /\ watches = <<>>
        /\ \A r \in Pool!Realms : queue[r] = <<>>
        /\ \A w \in Pool!AllWorkers : pc[w] \in {"idle", "exited"}
    BY <1>2, BeforeDial
  <2>a. DOMAIN watches = {}
    BY <2>0
  <2>b. ASSUME UNCHANGED <<queue, pc, watches>>, run' \notin BehindDial \/ connected',
               state' \in {"Disconnected", "Stopped"}
        PROVE  ConnectedFirst'
    BY <2>0, <2>b DEF ConnectedFirst, Pool!Phases
  <2>1. CASE RunStep
    <3>1. \/ RunLoop \/ DialSucceeds \/ DialFails
          \/ WhileState("connectLoop", "Disconnected", "dial")
      BY <2>0, <2>1
         DEF RunStep, WhileState, RunSetState, SweepLoop, BeginSweep, Query, QueryFails,
             RecvEntity, SweepEnds, RecvEntityFails, SendEntity, OpenWatch, OpenWatchFails,
             Prepared, MonitorLeave, MonitorSweep, RunGoto, BehindDial
    <3>2. run' \notin BehindDial \/ connected'
      BY <2>0, <3>1
         DEF RunLoop, HandlerOf, DialSucceeds, DialFails, WhileState, RunGoto, BehindDial
    <3>3. UNCHANGED <<queue, pc, watches, state>>
      BY <3>1 DEF RunLoop, DialSucceeds, DialFails, WhileState, poolVars
    <3> QED  BY <2>0, <2>b, <3>2, <3>3
  <2>2. ASSUME NEW w \in RealmWorkers \cup NeighborWorkers, WorkerStep(w)
        PROVE  ConnectedFirst'
    <3>1. Pool!RealmOf(w) \in Pool!Realms /\ w \in Pool!AllWorkers
      BY DEF Pool!RealmOf, Pool!Realms, Pool!AllWorkers
    <3>2. Pool!Exit(w)
      BY <2>0, <2>2, <3>1
         DEF WorkerStep, Pool!WorkerStep, Pool!Receive, Pool!Claim, Pool!Drop,
             Pool!DiscoverPorts, Pool!DiscoverLinks, Pool!DiscoverHosts, Pool!RegisterAgent,
             Pool!Release, Pool!Goto
    <3>3. \A v \in Pool!AllWorkers : pc'[v] \in {"idle", "exited"}
      BY <2>0, <3>1, <3>2 DEF Pool!Exit, Pool!Goto, TypeOK, Pool!TypeOK
    <3>4. UNCHANGED <<queue, run, state, watches>>
      BY <2>2, <3>2 DEF WorkerStep, Pool!Exit
    <3> QED  BY <2>0, <3>3, <3>4 DEF ConnectedFirst, Pool!Phases
  <2>3. CASE StopContinues
    BY <2>0, <2>3, <2>b DEF StopContinues, StopClose, Pool!Close
  <2>4. ASSUME NEW o \in Objects, TopoChange(o)
        PROVE  ConnectedFirst'
    <3>1. watches' = <<>>
      BY <2>a, <2>4 DEF TopoChange, Deliver
    <3> QED  BY <2>0, <2>4, <2>b, <3>1 DEF TopoChange, poolVars
  <2>5. CASE Stop \/ UNCHANGED vars
    BY <2>0, <2>5, <2>b DEF Stop, vars, poolVars
  <2> QED  BY <2>a, <2>1, <2>2, <2>3, <2>4, <2>5 DEF Next, Environment
<1> QED  BY <1>1, <1>2

------------------------------------------------------------------------------
(* The theorems. *)

IInv == TypeOK /\ SendsEntities /\ ConnectedFirst

LEMMA IInvInit == Init => IInv
<1> SUFFICES ASSUME Init
             PROVE  IInv
  OBVIOUS
<1>1. PoolProofs!TypeOK
  BY SameState, PoolAssumption, PoolProofs!TypeInit DEF Init
<1>2. Pool!TypeOK
  BY <1>1, SameState
<1>3. TypeOK
  <2>1. topo \in [Objects -> Revisions \cup {Absent}] /\ version \in Revisions
    BY ControllerAssumption DEF Init, Revisions
  <2>2. faults \in 0..MaxFaults
    BY ControllerAssumption DEF Init
  <2>3. watches \in Seq(Watch) /\ DOMAIN watches = {}
    BY DEF Init
  <2> QED  BY <1>2, <2>1, <2>2, <2>3 DEF Init, TypeOK, States, RunLabels, NoSweep
<1>4. SendsEntities
  BY DEF Init, SendsEntities
<1>5. ConnectedFirst
  BY DEF Init, Pool!Init, ConnectedFirst, BehindDial, Pool!Phases
<1> QED  BY <1>3, <1>4, <1>5 DEF IInv

LEMMA IInvStep == IInv /\ [Next]_vars => IInv'
  BY TypeStep, ConnectedStep DEF IInv

LEMMA Inductive == SafeSpec => []IInv
  BY IInvInit, IInvStep, PTL DEF SafeSpec

\* Whatever the run loop, the watches, the workers and the caller of Stop do,
\* every variable keeps its type, and who is sending has something to send.
THEOREM TypeCorrect == SafeSpec => []TypeOK
<1>1. IInv => TypeOK
  BY DEF IInv
<1> QED  BY <1>1, Inductive, PTL

\* The run loop, the watches and Stop touch the queues and the workers in no other
\* way than Workers does, by the shape of the actions.
LEMMA ControllerIsPool == SafeSpec => Pool!SafeSpec
<1>1. Init => Pool!Init
  BY DEF Init
<1>2. IInv /\ [Next]_vars => [Pool!Next]_(Pool!vars)
  BY PoolStep DEF IInv
<1> QED  BY <1>1, <1>2, Inductive, PTL DEF SafeSpec, Pool!SafeSpec

\* What is proved of Workers holds of the controller: no two workers, of
\* whichever realm, are at work on the same object, and workingOn is exact.
THEOREM ControllerExcludes ==
  SafeSpec => [](Pool!OneWorkerPerObject /\ Pool!NoStaleClaim)
<1>1. Pool!Init => PoolProofs!Init
  BY SameState
<1>2. [Pool!Next]_(Pool!vars) => [PoolProofs!Next]_(PoolProofs!vars)
  BY SameSteps
<1>3. Pool!SafeSpec => PoolProofs!SafeSpec
  BY <1>1, <1>2, PTL DEF Pool!SafeSpec, PoolProofs!SafeSpec
<1>4. PoolProofs!SafeSpec => []PoolProofs!OneWorkerPerObject
  BY PoolAssumption, PoolProofs!MutualExclusion
<1>5. PoolProofs!SafeSpec => []PoolProofs!NoStaleClaim
  BY PoolAssumption, PoolProofs!ClaimsAreExact
<1> QED
  BY <1>3, <1>4, <1>5, SameProperties, ControllerIsPool, PTL

\* No worker runs a reconciler before the reconcilers have been created.
THEOREM ReconcilersFirst == SafeSpec => []ReconcilersExist
<1>1. IInv => ReconcilersExist
  BY DEF IInv, ConnectedFirst, ReconcilersExist, Pool!Busy, Pool!AllWorkers
<1> QED  BY <1>1, Inductive, PTL

------------------------------------------------------------------------------
(* One watch at work. *)

AtWork(k) == watches[k].pc # "exited"

\* Where the run loop and the state can be while the goroutine of watch w is at
\* work.  Unless its stream is broken it is its own realm's state, Monitoring,
\* that keeps the run loop from dialing; if it is broken, the dial waits.
RunsBeside(w) ==
  /\ \/ run \in { "setMonitoring", "prepared", "loop", "monitorLoop", "connectLoop", "dial",
                  "stopped" }
     \/ run \in {"query", "recv", "send"} /\ sweep.by = "periodic"
  /\ run = "setMonitoring" \/ state \in {"Monitoring", "Stopped", "Disconnected"}
  /\ ~w.broken => /\ run = "setMonitoring" \/ state # "Disconnected"
                  /\ run \notin {"connectLoop", "dial"}
  /\ w.pc = "failed" => w.broken

OneAtWork ==
  /\ run \notin {"prepareNeighbor", "setMonitoringNeighbor"}
  /\ \A k \in DOMAIN watches : AtWork(k) => RunsBeside(watches[k])
  /\ \A j, k \in DOMAIN watches : AtWork(j) /\ AtWork(k) => j = k

LEMMA OneBesideRun ==
  ASSUME TypeOK, ~HasNeighbor, OneAtWork, RunStep
  PROVE  OneAtWork'
<1> USE DEF RunGoto
<1>1. run' \notin {"prepareNeighbor", "setMonitoringNeighbor"}
  BY DEF RunStep, RunLoop, HandlerOf, States, TypeOK, WhileState, DialSucceeds, DialFails,
         RunSetState, SweepLoop, BeginSweep, Query, QueryFails, RecvEntity, SweepEnds,
         RecvEntityFails, SweepReturns, AfterSweep, SendEntity, OpenWatch, OpenWatchFails,
         Prepared, MonitorLeave, MonitorSweep, OneAtWork
<1>2. CASE OpenWatch("prepare", "realm", "setMonitoring")
  <2>1. \A k \in DOMAIN watches : ~AtWork(k)
    BY <1>2 DEF OpenWatch, OneAtWork, RunsBeside
  <2>2. PICK replay :
          watches' = Append(watches,
            [realm |-> "realm", pc |-> "check", sending |-> None, inbox |-> replay,
             broken |-> FALSE])
    BY <1>2 DEF OpenWatch
  <2> DEFINE n == Len(watches) + 1
  <2>3. /\ \A k \in DOMAIN watches' : k = n \/ (k \in DOMAIN watches /\ watches'[k] = watches[k])
        /\ watches'[n].pc = "check" /\ ~watches'[n].broken
    BY <2>2 DEF TypeOK
  <2>4. run' = "setMonitoring"
    BY <1>2 DEF OpenWatch
  <2> HIDE DEF n
  <2> QED  BY <1>1, <2>1, <2>3, <2>4 DEF OneAtWork, AtWork, RunsBeside
<1>3. CASE ~OpenWatch("prepare", "realm", "setMonitoring")
  <2>1. UNCHANGED watches
    BY <1>3 DEF RunStep, RunLoop, WhileState, DialSucceeds, DialFails,
         RunSetState, SweepLoop, BeginSweep, Query, QueryFails, RecvEntity, SweepEnds,
         RecvEntityFails, SendEntity, OpenWatch, OpenWatchFails,
         Prepared, MonitorLeave, MonitorSweep, OneAtWork
  <2>2. ASSUME NEW k \in DOMAIN watches, AtWork(k)
        PROVE  RunsBeside(watches[k])'
    <3>1. RunsBeside(watches[k])
      BY <2>2 DEF OneAtWork
    <3>2. CASE RunLoop \/ WhileState("connectLoop", "Disconnected", "dial") \/ DialFails
      BY <2>1, <3>1, <3>2 DEF RunLoop, HandlerOf, WhileState, DialFails, RunsBeside
    <3>3. CASE DialSucceeds
      BY <2>2, <3>1, <3>3 DEF DialSucceeds, BrokenWatchesHaveEnded, RunsBeside, AtWork
    <3>4. CASE Query \/ RecvEntity \/ SendEntity
      <4>1. sweep'.by = sweep.by /\ UNCHANGED state
        BY <3>4 DEF Query, RecvEntity, SendEntity, TypeOK
      <4>2. run \in {"query", "recv", "send"} /\ run' \in {"recv", "send"}
        BY <3>4 DEF Query, RecvEntity, SendEntity
      <4> QED  BY <2>1, <3>1, <4>1, <4>2 DEF RunsBeside
    <3>5. CASE QueryFails \/ SweepEnds \/ RecvEntityFails
      <4>1. run \in {"query", "recv"} /\ UNCHANGED state
        BY <3>5 DEF QueryFails, SweepEnds, RecvEntityFails
      <4>2. run' = "monitorLoop"
        BY <3>1, <3>5, <4>1
           DEF QueryFails, SweepEnds, RecvEntityFails, SweepReturns, AfterSweep, RunsBeside
      <4> QED  BY <2>1, <3>1, <4>1, <4>2 DEF RunsBeside
    <3>6. CASE RunSetState("setMonitoring", "Monitoring", "prepared") \/ Prepared \/ MonitorLeave
      BY <2>1, <3>1, <3>6 DEF RunSetState, Prepared, MonitorLeave, WhileState, RunsBeside
    <3>7. CASE MonitorSweep
      BY <2>1, <3>1, <3>7 DEF MonitorSweep, BeginSweep, NoSweep, RunsBeside
    <3>8. CASE \/ RunSetState("dialed", "Connected", "connectLoop") \/ SweepLoop
               \/ RunSetState("swept", "Initialized", "sweepLoop")
               \/ OpenWatchFails("prepare", "prepared")
               \/ OpenWatch("prepareNeighbor", "neighbor", "setMonitoringNeighbor")
               \/ OpenWatchFails("prepareNeighbor", "loop")
               \/ RunSetState("setMonitoringNeighbor", "Monitoring", "loop")
      BY <3>1, <3>8 DEF RunSetState, SweepLoop, BeginSweep, WhileState, OpenWatchFails, OpenWatch,
                        RunsBeside
    <3> QED
      BY <1>3, <3>2, <3>3, <3>4, <3>5, <3>6, <3>7, <3>8 DEF RunStep
  <2> QED  BY <1>1, <2>1, <2>2 DEF OneAtWork, AtWork
<1> QED  BY <1>2, <1>3

\* A goroutine that is at work goes on, or ends; only a broken one fails.
LEMMA OneOnItsOwn ==
  ASSUME TypeOK, OneAtWork, NEW k \in DOMAIN watches, WatchStep(k)
  PROVE  OneAtWork'
<1>1. UNCHANGED <<run, sweep>>
  BY DEF WatchStep, WatchCheck, WatchRecv, WatchSend, WatchRecvFails, SetDisconnected
<1>2. AtWork(k)
  BY DEF WatchStep, WatchCheck, WatchRecv, WatchSend, WatchRecvFails, SetDisconnected, WatchGoto,
         AtWork
<1>3. RunsBeside(watches[k]) /\ \A j \in DOMAIN watches : AtWork(j) => j = k
  BY <1>2 DEF OneAtWork
<1>4. watches[k] \in Watch
  BY DEF TypeOK
<1>5. \E w \in Watch : /\ watches' = [watches EXCEPT ![k] = w] /\ w.broken = watches[k].broken
                       /\ w.pc = "failed" => watches[k].broken
  <2>1. CASE WatchCheck(k) \/ WatchRecvFails(k) \/ SetDisconnected(k)
    <3>1. PICK to \in {"recv", "exited", "failed", "check"} :
            /\ watches' = [watches EXCEPT ![k].pc = to]
            /\ to = "failed" => watches[k].broken
      BY <2>1 DEF WatchCheck, WatchRecvFails, SetDisconnected, WatchGoto
    <3> DEFINE w == [watches[k] EXCEPT !.pc = to]
    <3>2. w \in Watch /\ w.pc = to /\ w.broken = watches[k].broken
      BY <1>4 DEF Watch
    <3>3. watches' = [watches EXCEPT ![k] = w]
      BY <3>1
    <3> HIDE DEF w
    <3> QED  BY <3>1, <3>2, <3>3
  <2>2. CASE WatchRecv(k)
    <3> DEFINE event == Head(watches[k].inbox)
               gone == event.rev = Absent
               w == [watches[k] EXCEPT !.inbox = Tail(@),
                                       !.pc = IF gone THEN "check" ELSE "send",
                                       !.sending = IF gone THEN None ELSE event]
    <3>1. watches' = [watches EXCEPT ![k] = w]
      BY <2>2 DEF WatchRecv
    <3>2. event \in Event /\ Tail(watches[k].inbox) \in Seq(Event)
      BY <1>4, <2>2 DEF WatchRecv, Watch
    <3>3. w \in Watch /\ w.pc # "failed" /\ w.broken = watches[k].broken
      BY <1>4, <3>2 DEF Watch
    <3> HIDE DEF w
    <3> QED  BY <3>1, <3>3
  <2>3. CASE WatchSend(k)
    <3> DEFINE w == [watches[k] EXCEPT !.pc = "check", !.sending = None]
    <3>1. watches' = [watches EXCEPT ![k] = w]
      BY <2>3 DEF WatchSend
    <3>2. w \in Watch /\ w.pc # "failed" /\ w.broken = watches[k].broken
      BY <1>4 DEF Watch
    <3> HIDE DEF w
    <3> QED  BY <3>1, <3>2
  <2> QED  BY <2>1, <2>2, <2>3 DEF WatchStep
<1>6. /\ DOMAIN watches' = DOMAIN watches
      /\ \A j \in DOMAIN watches : j # k => watches'[j] = watches[j]
      /\ watches'[k].broken = watches[k].broken
      /\ watches'[k].pc = "failed" => watches[k].broken
  BY <1>5 DEF TypeOK
<1>7. \/ UNCHANGED state
      \/ watches[k].pc = "failed" /\ state = "Monitoring" /\ state' = "Disconnected"
  BY DEF WatchStep, WatchCheck, WatchRecv, WatchSend, WatchRecvFails, SetDisconnected, WatchGoto
<1>8. RunsBeside(watches[k])'
  BY <1>1, <1>3, <1>6, <1>7 DEF RunsBeside
<1> QED  BY <1>1, <1>3, <1>6, <1>8 DEF OneAtWork, AtWork

LEMMA OneAtWorkStep ==
  ASSUME TypeOK, ~HasNeighbor, OneAtWork, [Next]_vars
  PROVE  OneAtWork'
\* Everything else leaves the goroutines where they are.
<1>0. ASSUME UNCHANGED <<run, sweep>>, state' \in {state, "Stopped"},
             DOMAIN watches' = DOMAIN watches,
             \A k \in DOMAIN watches :
               watches'[k].pc = watches[k].pc /\ (watches[k].broken => watches'[k].broken)
      PROVE  OneAtWork'
  BY <1>0 DEF OneAtWork, AtWork, RunsBeside
<1>1. ASSUME NEW w \in RealmWorkers \cup NeighborWorkers, WorkerStep(w)
      PROVE  OneAtWork'
  BY <1>0, <1>1 DEF WorkerStep
<1>2. CASE StopContinues \/ Stop \/ UNCHANGED vars
  BY <1>0, <1>2 DEF StopContinues, StopClose, Stop, vars
<1>3. ASSUME NEW o \in Objects, TopoChange(o)
      PROVE  OneAtWork'
  <2>1. PICK r : Deliver(o, r)
    BY <1>3 DEF TopoChange
  <2>2. ASSUME NEW k \in DOMAIN watches
        PROVE  watches'[k].pc = watches[k].pc /\ watches'[k].broken = watches[k].broken
    <3> DEFINE inbox == Append(watches[k].inbox, [id |-> o, rev |-> r])
    <3>1. \/ watches'[k] = watches[k]
          \/ watches'[k] = [watches[k] EXCEPT !.inbox = inbox]
      BY <2>1 DEF Deliver
    <3>2. watches[k] \in Watch
      BY DEF TypeOK
    <3> HIDE DEF inbox
    <3> QED  BY <3>1, <3>2 DEF Watch
  <2> QED  BY <1>0, <1>3, <2>1, <2>2 DEF TopoChange, Deliver
<1>4. ASSUME NEW k \in DOMAIN watches, WatchBreaks(k)
      PROVE  OneAtWork'
  <2>1. PICK n : watches' = [watches EXCEPT ![k].broken = TRUE, ![k].inbox = SubSeq(@, 1, n)]
    BY <1>4 DEF WatchBreaks
  <2> DEFINE w == [watches[k] EXCEPT !.broken = TRUE, !.inbox = SubSeq(@, 1, n)]
  <2>2. watches[k] \in Watch
    BY DEF TypeOK
  <2>3. w.pc = watches[k].pc /\ w.broken
    BY <2>2 DEF Watch
  <2>4. watches' = [watches EXCEPT ![k] = w]
    BY <2>1
  <2> HIDE DEF w
  <2>5. /\ DOMAIN watches' = DOMAIN watches
        /\ \A j \in DOMAIN watches :
             watches'[j].pc = watches[j].pc /\ (watches[j].broken => watches'[j].broken)
    BY <2>3, <2>4 DEF TypeOK
  <2> QED  BY <1>0, <1>4, <2>5 DEF WatchBreaks
<1> QED
  BY <1>1, <1>2, <1>3, <1>4, OneBesideRun, OneOnItsOwn DEF Next, Environment

\* Without a neighbor realm, however often the connection is lost and made
\* again, at most one goroutine receives from a watch: the state keeps the run
\* loop from opening another one until the earlier one has ended, and one whose
\* stream is broken ends before a dial succeeds (BrokenWatchesHaveEnded).
THEOREM OneWatch == SafeSpec => []OneWatchAtWork
<1>1. Init => (~HasNeighbor => OneAtWork)
  BY DEF Init, OneAtWork
<1>2. IInv /\ (~HasNeighbor => OneAtWork) /\ [Next]_vars => (~HasNeighbor => OneAtWork)'
  BY OneAtWorkStep DEF IInv
<1>3. (~HasNeighbor => OneAtWork) => OneWatchAtWork
  BY DEF OneAtWork, OneWatchAtWork, AtWork
<1> QED  BY <1>1, <1>2, <1>3, Inductive, PTL DEF SafeSpec

------------------------------------------------------------------------------
(* Stop. *)

\* The run loop is in a sweep exactly while it queries, receives or sends.
SweepsSomewhere ==
  sweep.by # "none" <=> run \in {"query", "recv", "send"}

LEMMA SweepsStep ==
  ASSUME TypeOK, SweepsSomewhere, [Next]_vars
  PROVE  SweepsSomewhere'
<1>1. CASE RunStep
  <2>1. ASSUME run \notin {"query", "recv", "send"}, run' \notin {"query", "recv", "send"},
               UNCHANGED sweep
        PROVE  SweepsSomewhere'
    BY <2>1 DEF SweepsSomewhere
  <2>2. CASE RunLoop
    BY <2>1, <2>2 DEF RunLoop, RunGoto, HandlerOf, TypeOK, States
  <2>3. CASE SweepLoop \/ MonitorSweep
    BY <2>3 DEF SweepLoop, MonitorSweep, BeginSweep, WhileState, RunGoto, NoSweep,
                SweepsSomewhere
  <2>4. CASE QueryFails \/ SweepEnds \/ RecvEntityFails
    BY <2>4 DEF QueryFails, SweepEnds, RecvEntityFails, SweepReturns, AfterSweep, NoSweep,
                SweepsSomewhere
  <2>5. CASE Query \/ RecvEntity \/ SendEntity
    BY <2>5 DEF Query, RecvEntity, SendEntity, RunGoto, SweepsSomewhere, TypeOK
  <2>6. ASSUME NEW from, NEW to, NEW x,
               \/ WhileState(from, x, to) \/ RunSetState(from, x, to)
               \/ OpenWatch(from, x, to) \/ OpenWatchFails(from, to),
               {from, to, "loop"} \cap {"query", "recv", "send"} = {}
        PROVE  SweepsSomewhere'
    BY <2>1, <2>6 DEF WhileState, RunSetState, OpenWatch, OpenWatchFails, RunGoto
  <2>7. CASE DialSucceeds \/ DialFails \/ Prepared \/ MonitorLeave
    BY <2>1, <2>7 DEF DialSucceeds, DialFails, Prepared, MonitorLeave, WhileState, RunGoto
  <2> QED  BY <1>1, <2>2, <2>3, <2>4, <2>5, <2>6, <2>7 DEF RunStep
<1>2. ASSUME NEW k \in DOMAIN watches, WatchStep(k)
      PROVE  SweepsSomewhere'
  BY <1>2 DEF WatchStep, WatchCheck, WatchRecv, WatchSend, WatchRecvFails, SetDisconnected,
              SweepsSomewhere
<1>3. ASSUME NEW w \in RealmWorkers \cup NeighborWorkers, WorkerStep(w)
      PROVE  SweepsSomewhere'
  BY <1>3 DEF WorkerStep, SweepsSomewhere
<1>4. CASE StopContinues \/ Environment \/ UNCHANGED vars
  BY <1>4 DEF StopContinues, StopClose, Environment, Stop, TopoChange, WatchBreaks, vars,
              SweepsSomewhere
<1> QED  BY <1>1, <1>2, <1>3, <1>4 DEF Next

\* No step of the run loop, of a watch or of anybody else undoes Stop.
LEMMA StopStep ==
  ASSUME TypeOK, SweepsSomewhere, [Next]_vars, Stopping
  PROVE  Stopping' \/ run' = "stopped" \/ panicked'
<1> USE DEF Stopping, SetsStateUnseen
<1>1. CASE RunStep
  BY <1>1
     DEF RunStep, RunLoop, HandlerOf, WhileState, DialSucceeds, DialFails, RunSetState,
         SweepLoop, BeginSweep, Query, QueryFails, RecvEntity, SweepEnds, RecvEntityFails,
         SendEntity, OpenWatch, OpenWatchFails, Prepared, MonitorLeave, MonitorSweep, RunGoto,
         SweepReturns, AfterSweep, NoSweep, SweepsSomewhere, SendOrPanic, TypeOK, States
<1>2. ASSUME NEW k \in DOMAIN watches, WatchStep(k)
      PROVE  Stopping' \/ panicked'
  BY <1>2 DEF WatchStep, WatchCheck, WatchRecv, WatchSend, WatchRecvFails, SetDisconnected,
              SendOrPanic
<1>3. ASSUME NEW w \in RealmWorkers \cup NeighborWorkers, WorkerStep(w)
      PROVE  Stopping'
  BY <1>3 DEF WorkerStep
<1>4. CASE StopContinues \/ Environment \/ UNCHANGED vars
  BY <1>4 DEF StopContinues, StopClose, Environment, Stop, TopoChange, WatchBreaks, vars
<1> QED  BY <1>1, <1>2, <1>3, <1>4 DEF Next

\* Outside of a dial, the opening of a watch and the initial sweep, Stop cannot be
\* undone: neither the goroutine of a broken watch nor the rest of a periodic
\* sweep sets another state.
THEOREM StopCannotBeUndone == SafeSpec => StopIsKept
<1>1. Init => SweepsSomewhere
  BY DEF Init, NoSweep, SweepsSomewhere
<1>2. TypeOK /\ SweepsSomewhere /\ [Next]_vars => SweepsSomewhere'
  BY SweepsStep
<1>3. TypeOK /\ SweepsSomewhere /\ [Next]_vars
        => [Stopping => Stopping' \/ run' = "stopped" \/ panicked']_vars
  BY StopStep
<1> QED  BY <1>1, <1>2, <1>3, TypeCorrect, PTL DEF SafeSpec, StopIsKept

==============================================================================
