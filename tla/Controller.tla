------------------------------ MODULE Controller ------------------------------
(***************************************************************************)
(* The lifecycle of the discovery controller                               *)
(* (pkg/controller/controller.go, pkg/controller/discovery.go): the run    *)
(* loop that connects to onos-topo, sweeps and monitors it, the goroutines *)
(* that receive from the watch streams, and Stop.  They feed the queues of *)
(* the workers, which are those of module Workers.                         *)
(*                                                                         *)
(* The controller's state is read and written under its lock, one access   *)
(* at a time; every access is a step of its own here, so what is read may  *)
(* be stale when it is acted on.                                           *)
(*                                                                         *)
(* External: onos-topo, as the revisions of the entities that match the    *)
(* realm filters, a query that returns a snapshot, and watch streams that  *)
(* replay what is there and then deliver every change in order until they  *)
(* break.  A failed call to it uses up one of MaxFaults faults; an entity  *)
(* is created, changed or removed until version MaxVersion.                *)
(*                                                                         *)
(* A send on a closed channel panics and ends the process: panicked.       *)
(***************************************************************************)
EXTENDS Naturals, Sequences, SequencesExt

CONSTANTS
  Objects,          \* IDs of the entities that match either realm filter
  NeighborObjects,  \* those of the neighbor realm
  HasNeighbor,      \* has a neighbor realm been configured?
  RealmWorkers, NeighborWorkers, QueueDepth, None,    \* see Workers
  MaxVersion,       \* bound on the versions of the topology
  MaxFaults         \* bound on the failures of calls to onos-topo

ASSUME ControllerAssumption ==
  /\ IsFiniteSet(Objects) /\ NeighborObjects \subseteq Objects
  /\ HasNeighbor \in BOOLEAN
  /\ MaxVersion \in Nat \ {0}
  /\ MaxFaults \in Nat
  /\ RealmWorkers \cap NeighborWorkers = {}
  /\ QueueDepth \in Nat \ {0}
  /\ None \notin [id : Objects, rev : 0..MaxVersion]

\* A snapshot of an entity carries the version at which it was written.
Revisions == 1..MaxVersion
Absent == 0

VARIABLES
  queue, closed, workingOn, pc, item,   \* see Workers
  state,      \* the lifecycle state
  run,        \* where the run goroutine is
  sweep,      \* its current sweep: who runs it, what is left, what it sends
  connected,  \* have the client and the reconcilers been created?
  watches,    \* the watch goroutines, in the order they were started
  stopper,    \* where the caller of Stop is
  panicked,   \* has a send on a closed channel ended the process?
  topo,       \* the entities in onos-topo: a revision or Absent
  version,    \* the last version written to onos-topo
  faults      \* calls to onos-topo that have failed

poolVars == <<queue, closed, workingOn, pc, item>>
topoVars == <<topo, version, faults>>
vars == <<poolVars, state, run, sweep, connected, watches, stopper, panicked, topoVars>>

Pool == INSTANCE Workers

States == {"Disconnected", "Connected", "Initialized", "Monitoring", "Stopped"}
ObjectsOf(r) == IF r = "realm" THEN Objects \ NeighborObjects ELSE NeighborObjects

\* What a query for realm r returns: the entities there are.
Present(r) ==
  {[id |-> o, rev |-> topo[o]] : o \in {p \in ObjectsOf(r) : topo[p] # Absent}}

Event == [id : Objects, rev : Revisions \cup {Absent}]
NoSweep == [by |-> "none", left |-> {}, sending |-> None]

RunLabels ==
  { "loop", "connectLoop", "dial", "dialed", "sweepLoop", "query", "recv", "send",
    "swept", "prepare", "prepared", "prepareNeighbor", "monitorLoop",
    "setMonitoring", "setMonitoringNeighbor", "stopped" }

\* A watch goroutine: where it is, the event it sends, and its stream.
Watch == [realm : Pool!Realms,
          pc : {"check", "recv", "send", "failed", "exited"},
          sending : Event \cup {None},
          inbox : Seq(Event), broken : BOOLEAN]

TypeOK ==
  /\ Pool!TypeOK
  /\ state \in States
  /\ run \in RunLabels
  /\ sweep \in [by : {"none", "initial", "periodic"}, left : SUBSET Pool!Item,
                sending : Pool!Item \cup {None}]
  /\ connected \in BOOLEAN
  /\ watches \in Seq(Watch)
  /\ stopper \in {"running", "closeRealm", "closeNeighbor", "done"}
  /\ panicked \in BOOLEAN
  /\ topo \in [Objects -> Revisions \cup {Absent}]
  /\ version \in Revisions
  /\ faults \in 0..MaxFaults
  /\ run = "send" <=> sweep.sending # None
  /\ \A k \in DOMAIN watches : watches[k].pc = "send" <=> watches[k].sending # None

Init ==
  /\ Pool!Init
  /\ state = "Disconnected"
  /\ run = "loop"
  /\ sweep = NoSweep
  /\ connected = FALSE
  /\ watches = <<>>
  /\ stopper = "running"
  /\ panicked = FALSE
  /\ topo \in [Objects -> {1, Absent}]
  /\ version = 1
  /\ faults = 0

------------------------------------------------------------------------------
(* Helpers. *)

RunGoto(from, to) == run = from /\ run' = to

\* A call to onos-topo fails.
Fault == faults < MaxFaults /\ faults' = faults + 1 /\ UNCHANGED <<topo, version>>

\* queue <- i: it blocks while the channel is full, and panics once it is closed.
SendOrPanic(r, i) ==
  \/ Pool!Send(r, i) /\ UNCHANGED panicked
  \/ closed[r] /\ panicked' = TRUE /\ UNCHANGED poolVars

------------------------------------------------------------------------------
(* The run loop. *)

\* The handler of a lifecycle state, which reads the state again.
HandlerOf(s) ==
  CASE s = "Disconnected" -> "connectLoop"
    [] s = "Connected"    -> "sweepLoop"
    [] s = "Initialized"  -> "prepare"
    [] s = "Monitoring"   -> "monitorLoop"
    [] s = "Stopped"      -> "stopped"

RunLoop ==
  /\ RunGoto("loop", HandlerOf(state))
  /\ UNCHANGED <<poolVars, state, sweep, connected, watches, stopper, panicked, topoVars>>

\* waitForTopoConnection and runInitialDiscoverySweep loop while the state is
\* the one they are for.
WhileState(label, s, body) ==
  /\ RunGoto(label, IF state = s THEN body ELSE "loop")
  /\ UNCHANGED <<poolVars, state, sweep, connected, watches, stopper, panicked, topoVars>>

\* setState: whatever the state is.
RunSetState(from, s, to) ==
  /\ RunGoto(from, to)
  /\ state' = s
  /\ UNCHANGED <<poolVars, sweep, connected, watches, stopper, panicked, topoVars>>

\* A bound of the model: a dial takes longer than the goroutines of broken
\* streams take to end.  Otherwise one of them could stall through a whole
\* reconnection, end that one too, and so on without bound.
BrokenWatchesHaveEnded ==
  \A k \in DOMAIN watches : watches[k].broken => watches[k].pc = "exited"

\* Mutant of DialSucceeds: the client and the reconcilers are not created.
DialWithoutReconcilers ==
  /\ RunGoto("dial", "dialed")
  /\ BrokenWatchesHaveEnded
  /\ UNCHANGED <<poolVars, state, sweep, connected, watches, stopper, panicked, topoVars>>

\* Dial; the client and the reconcilers are created before the state is set.
DialSucceeds ==
  /\ RunGoto("dial", "dialed")
  /\ BrokenWatchesHaveEnded
  /\ connected' = TRUE
  /\ UNCHANGED <<poolVars, state, sweep, watches, stopper, panicked, topoVars>>

DialFails ==
  /\ RunGoto("dial", "connectLoop")
  /\ Fault
  /\ UNCHANGED <<poolVars, state, sweep, connected, watches, stopper, panicked>>

------------------------------------------------------------------------------
(* The full discovery sweep of the realm, initial or periodic. *)

\* Mutant of AfterSweep: every sweep that succeeds is followed by what follows
\* the initial one.
AfterAnySweep(by, ok) ==
  IF ok THEN "swept" ELSE IF by = "periodic" THEN "monitorLoop" ELSE "sweepLoop"

\* Where the sweep returns to: only the initial one sets the state afterwards,
\* and only if there was no error.
AfterSweep(by, ok) ==
  IF by = "periodic" THEN "monitorLoop" ELSE IF ok THEN "swept" ELSE "sweepLoop"

SweepReturns(ok) ==
  /\ run' = AfterSweep(sweep.by, ok)
  /\ sweep' = NoSweep

BeginSweep(from, by) ==
  /\ RunGoto(from, "query")
  /\ sweep' = [NoSweep EXCEPT !.by = by]
  /\ UNCHANGED <<poolVars, state, connected, watches, stopper, panicked, topoVars>>

SweepLoop ==
  \/ state = "Connected" /\ BeginSweep("sweepLoop", "initial")
  \/ state # "Connected" /\ WhileState("sweepLoop", "Connected", "query")

Query ==
  /\ RunGoto("query", "recv")
  /\ sweep' = [sweep EXCEPT !.left = Present("realm")]
  /\ UNCHANGED <<poolVars, state, connected, watches, stopper, panicked, topoVars>>

QueryFails ==
  /\ run = "query"
  /\ SweepReturns(FALSE)
  /\ Fault
  /\ UNCHANGED <<poolVars, state, connected, watches, stopper, panicked>>

\* for getState() != Stopped: the next entity of the response, in any order.
RecvEntity ==
  /\ RunGoto("recv", "send")
  /\ state # "Stopped"
  /\ \E i \in sweep.left :
       sweep' = [sweep EXCEPT !.left = @ \ {i}, !.sending = i]
  /\ UNCHANGED <<poolVars, state, connected, watches, stopper, panicked, topoVars>>

\* The response is exhausted, or the state is Stopped: no error either way.
SweepEnds ==
  /\ run = "recv"
  /\ state = "Stopped" \/ sweep.left = {}
  /\ SweepReturns(TRUE)
  /\ UNCHANGED <<poolVars, state, connected, watches, stopper, panicked, topoVars>>

RecvEntityFails ==
  /\ run = "recv"
  /\ state # "Stopped"
  /\ SweepReturns(FALSE)
  /\ Fault
  /\ UNCHANGED <<poolVars, state, connected, watches, stopper, panicked>>

\* Mutant of SendEntity: the entity is not let go of.
SendEntityKept ==
  /\ RunGoto("send", "recv")
  /\ SendOrPanic("realm", sweep.sending)
  /\ UNCHANGED <<sweep, state, connected, watches, stopper, topoVars>>

SendEntity ==
  /\ RunGoto("send", "recv")
  /\ SendOrPanic("realm", sweep.sending)
  /\ sweep' = [sweep EXCEPT !.sending = None]
  /\ UNCHANGED <<state, connected, watches, stopper, topoVars>>

------------------------------------------------------------------------------
(* Monitoring. *)

\* monitorRealm, first half: the watch is opened and its goroutine started.
\* The stream first replays the entities there are, in any order.
OpenWatch(from, r, to) ==
  /\ RunGoto(from, to)
  /\ \E replay \in SetToSeqs(Present(r)) :
       watches' = Append(watches,
         [realm |-> r, pc |-> "check", sending |-> None, inbox |-> replay, broken |-> FALSE])
  /\ UNCHANGED <<poolVars, state, sweep, connected, stopper, panicked, topoVars>>

\* monitorRealm: the watch cannot be opened.
OpenWatchFails(from, to) ==
  /\ RunGoto(from, to)
  /\ Fault
  /\ state' = "Disconnected"
  /\ UNCHANGED <<poolVars, sweep, connected, watches, stopper, panicked>>

\* Mutant of Prepared: the state is looked at as if it had not been set yet.
PreparedEarly ==
  /\ RunGoto("prepared", IF state = "Initialized" /\ HasNeighbor
                         THEN "prepareNeighbor" ELSE "loop")
  /\ UNCHANGED <<poolVars, state, sweep, connected, watches, stopper, panicked, topoVars>>

\* prepareForMonitoring: the neighbor realm is watched too if the state is
\* Monitoring by now.
Prepared ==
  /\ RunGoto("prepared", IF state = "Monitoring" /\ HasNeighbor
                         THEN "prepareNeighbor" ELSE "loop")
  /\ UNCHANGED <<poolVars, state, sweep, connected, watches, stopper, panicked, topoVars>>

\* Mutant of MonitorLeave: the loop never looks at the state.
MonitorForever == FALSE /\ UNCHANGED vars

\* monitorTopologyChanges: every 2 seconds the loop condition is evaluated ...
MonitorLeave ==
  /\ state # "Monitoring"
  /\ WhileState("monitorLoop", "Monitoring", "monitorLoop")

\* Mutant of MonitorSweep: no periodic sweep.
NoPeriodicSweep == FALSE /\ UNCHANGED vars

\* ... and every 30 seconds it runs a sweep, whose error is ignored.
MonitorSweep ==
  /\ state = "Monitoring"
  /\ BeginSweep("monitorLoop", "periodic")

RunStep ==
  /\ ~panicked
  /\ \/ RunLoop
     \/ WhileState("connectLoop", "Disconnected", "dial")
     \/ DialSucceeds \/ DialFails
     \/ RunSetState("dialed", "Connected", "connectLoop")
     \/ SweepLoop \/ Query \/ QueryFails
     \/ RecvEntity \/ SweepEnds \/ RecvEntityFails \/ SendEntity
     \/ RunSetState("swept", "Initialized", "sweepLoop")
     \/ OpenWatch("prepare", "realm", "setMonitoring")
     \/ OpenWatchFails("prepare", "prepared")
     \/ RunSetState("setMonitoring", "Monitoring", "prepared")
     \/ Prepared
     \/ OpenWatch("prepareNeighbor", "neighbor", "setMonitoringNeighbor")
     \/ OpenWatchFails("prepareNeighbor", "loop")
     \/ RunSetState("setMonitoringNeighbor", "Monitoring", "loop")
     \/ MonitorLeave \/ MonitorSweep

------------------------------------------------------------------------------
(* The watch goroutines. *)

WatchGoto(k, from, to) ==
  /\ watches[k].pc = from
  /\ watches' = [watches EXCEPT ![k].pc = to]

\* for getState() == Monitoring
WatchCheck(k) ==
  /\ WatchGoto(k, "check", IF state = "Monitoring" THEN "recv" ELSE "exited")
  /\ UNCHANGED <<poolVars, state, run, sweep, connected, stopper, panicked, topoVars>>

\* An event arrives: a removal is not relevant, anything else is queued.
WatchRecv(k) ==
  /\ watches[k].pc = "recv"
  /\ watches[k].inbox # <<>>
  /\ LET event == Head(watches[k].inbox) IN
       watches' = [watches EXCEPT
         ![k].inbox = Tail(@),
         ![k].pc = IF event.rev = Absent THEN "check" ELSE "send",
         ![k].sending = IF event.rev = Absent THEN None ELSE event]
  /\ UNCHANGED <<poolVars, state, run, sweep, connected, stopper, panicked, topoVars>>

WatchSend(k) ==
  /\ watches[k].pc = "send"
  /\ SendOrPanic(watches[k].realm, watches[k].sending)
  /\ watches' = [watches EXCEPT ![k].pc = "check", ![k].sending = None]
  /\ UNCHANGED <<state, run, sweep, connected, stopper, topoVars>>

\* Recv returns the error of a broken stream.
WatchRecvFails(k) ==
  /\ watches[k].broken /\ watches[k].inbox = <<>>
  /\ WatchGoto(k, "recv", "failed")
  /\ UNCHANGED <<poolVars, state, run, sweep, connected, stopper, panicked, topoVars>>

\* Mutant of SetDisconnected: setStateIf with its two arguments swapped.
SetMonitoringIf(k) ==
  /\ WatchGoto(k, "failed", "check")
  /\ state' = IF state = "Disconnected" THEN "Monitoring" ELSE state
  /\ UNCHANGED <<poolVars, run, sweep, connected, stopper, panicked, topoVars>>

\* setStateIf(Monitoring, Disconnected)
SetDisconnected(k) ==
  /\ WatchGoto(k, "failed", "check")
  /\ state' = IF state = "Monitoring" THEN "Disconnected" ELSE state
  /\ UNCHANGED <<poolVars, run, sweep, connected, stopper, panicked, topoVars>>

WatchStep(k) ==
  /\ ~panicked
  /\ WatchCheck(k) \/ WatchRecv(k) \/ WatchSend(k) \/ WatchRecvFails(k) \/ SetDisconnected(k)

------------------------------------------------------------------------------
(* The workers, Stop and onos-topo. *)

WorkerStep(w) ==
  /\ ~panicked
  /\ Pool!WorkerStep(w)
  /\ UNCHANGED <<state, run, sweep, connected, watches, stopper, panicked, topoVars>>

Stop ==
  /\ stopper = "running" /\ stopper' = "closeRealm"
  /\ state' = "Stopped"
  /\ UNCHANGED <<poolVars, run, sweep, connected, watches, panicked, topoVars>>

StopClose(r, from, to) ==
  /\ stopper = from /\ stopper' = to
  /\ Pool!Close(r)
  /\ UNCHANGED <<state, run, sweep, connected, watches, panicked, topoVars>>

StopContinues ==
  /\ ~panicked
  /\ \/ StopClose("realm", "closeRealm", IF HasNeighbor THEN "closeNeighbor" ELSE "done")
     \/ StopClose("neighbor", "closeNeighbor", "done")

\* A change of entity o to revision r reaches every stream that watches it.
Deliver(o, r) ==
  watches' = [k \in DOMAIN watches |->
    IF o \in ObjectsOf(watches[k].realm) /\ ~watches[k].broken
    THEN [watches[k] EXCEPT !.inbox = Append(@, [id |-> o, rev |-> r])]
    ELSE watches[k]]

TopoChange(o) ==
  /\ version < MaxVersion
  /\ version' = version + 1
  /\ \E r \in {version', Absent} :
       /\ topo[o] = Absent => r # Absent
       /\ topo' = [topo EXCEPT ![o] = r]
       /\ Deliver(o, r)
  /\ UNCHANGED <<poolVars, state, run, sweep, connected, stopper, panicked, faults>>

\* A stream breaks; what has not been received yet may be lost.
WatchBreaks(k) ==
  /\ ~watches[k].broken
  /\ Fault
  /\ \E n \in 0..Len(watches[k].inbox) :
       watches' = [watches EXCEPT ![k].broken = TRUE, ![k].inbox = SubSeq(@, 1, n)]
  /\ UNCHANGED <<poolVars, state, run, sweep, connected, stopper, panicked>>

Environment ==
  /\ ~panicked
  /\ \/ Stop
     \/ \E o \in Objects : TopoChange(o)
     \/ \E k \in DOMAIN watches : WatchBreaks(k)

Next ==
  \/ RunStep
  \/ \E k \in DOMAIN watches : WatchStep(k)
  \/ \E w \in RealmWorkers \cup NeighborWorkers : WorkerStep(w)
  \/ StopContinues
  \/ Environment

\* The most watches there can be: those of one connection per fault, and one more.
MaxWatches == (MaxFaults + 1) * IF HasNeighbor THEN 2 ELSE 1

\* Every goroutine keeps running, and a Go channel lets its blocked senders in
\* first come, first served; nothing is assumed of onos-topo and of the caller
\* that may stop the controller.
Fairness ==
  /\ WF_vars(RunStep)
  /\ \A k \in 1..MaxWatches :
       /\ WF_vars(k \in DOMAIN watches /\ WatchStep(k))
       /\ SF_vars(k \in DOMAIN watches /\ WatchSend(k) /\ ~panicked)
  /\ \A w \in RealmWorkers \cup NeighborWorkers : WF_vars(WorkerStep(w))
  /\ WF_vars(StopContinues)

SafeSpec == Init /\ [][Next]_vars
Spec == SafeSpec /\ Fairness

------------------------------------------------------------------------------
(* Properties. *)

\* No worker runs a reconciler before the reconcilers have been created: they
\* are, before the state lets anything into a queue.
ReconcilersExist ==
  \A w \in RealmWorkers \cup NeighborWorkers : Pool!Busy(w) => connected

\* Without a neighbor realm, whose watch may end the other one's connection,
\* nobody opens a watch while the goroutine of an earlier one is still at work:
\* reconnections leave no goroutines behind that queue every event once more.
\* Of goroutines whose stream is broken this needs BrokenWatchesHaveEnded; the
\* others it is the state that keeps apart.
OneWatchAtWork ==
  ~HasNeighbor =>
    \A j, k \in DOMAIN watches :
      watches[j].pc # "exited" /\ watches[k].pc # "exited" => j = k

\* Until the controller is stopped, what an entity of the realm is now is
\* discovered again and again: whatever the watches miss and whatever a worker
\* drops because another one works on an earlier revision, a periodic sweep queues
\* it once more.
RealmChangesAreDiscovered ==
  \A o \in ObjectsOf("realm") :
    []<>(\/ topo[o] = Absent
         \/ stopper # "running"
         \/ \E w \in RealmWorkers :
              Pool!Busy(w) /\ item[w] = [id |-> o, rev |-> topo[o]])

\* A neighbor that is there to stay is registered, unless a call fails or the
\* controller is stopped.  Neighbors are not swept: every event of their watch
\* counts, and a worker that drops one does so because another is registering
\* the same neighbor.
NeighborIsRegistered ==
  HasNeighbor /\ [](faults = 0 /\ stopper = "running") =>
    \A o \in ObjectsOf("neighbor") :
      <>[](topo[o] # Absent) => <>(\E w \in NeighborWorkers : Pool!Busy(w) /\ item[w].id = o)

\* Without a neighbor realm: is a watch broken whose goroutine is at work, or the
\* state already what that sets then, with the run loop elsewhere?
ConnectionLost ==
  /\ ~HasNeighbor
  /\ \/ \E k \in DOMAIN watches :
          /\ watches[k].broken
          /\ watches[k].pc \in {"recv", "send", "failed"} \cup
               IF state = "Monitoring" THEN {"check"} ELSE {}
     \/ state = "Disconnected" /\ run # "connectLoop"

\* A connection that is lost is not forgotten: whatever the run loop sets
\* meanwhile, it connects again, unless the controller stops or a send panics.
\* With a neighbor realm the code does forget it: Disconnected is overwritten when
\* the second watch is opened.
BrokenWatchIsNoticed ==
  /\ [][ConnectionLost =>
        ConnectionLost' \/ run' = "connectLoop" \/ state' = "Stopped" \/ panicked']_vars
  /\ []<>(~ConnectionLost \/ panicked)

\* Where the run loop is about to set the state, or may be, without another look
\* at it: it dials, runs the initial sweep or opens a watch.
SetsStateUnseen ==
  \/ run \in {"dial", "dialed", "swept", "prepare", "setMonitoring",
             "prepareNeighbor", "setMonitoringNeighbor"}
  \/ sweep.by = "initial"

\* Has the controller been stopped at another moment, and still runs?
Stopping == state = "Stopped" /\ ~SetsStateUnseen /\ run # "stopped" /\ ~panicked

\* Then nobody undoes it: no watch goroutine, and not the rest of the sweep ...
StopIsKept ==
  [][Stopping => Stopping' \/ run' = "stopped" \/ panicked']_vars

\* ... and the run loop ends, also from the middle of a periodic sweep, unless a
\* send panics.
StopIsNoticed == StopIsKept /\ []<>~Stopping

\* Once Stop has returned the run loop ends or a send panics: "Stopped represents
\* state where the controller has been issued a stop command".  The code does not
\* do this: Stop during a dial or the opening of a watch may be overwritten, and
\* in the initial sweep it always is, since a sweep that sees it ends without an
\* error and is then followed by Initialized.
StopStops ==
  stopper = "done" ~> (run = "stopped" \/ panicked)

\* While the run loop monitors, someone receives from the realm's watch:
\* "Monitoring represents state of monitoring topology changes".  The code
\* does not do this: the goroutine that receives is started before the state
\* is set to Monitoring, and ends at once if it reads the state before that.
MonitoringIsWatched ==
  run = "monitorLoop" /\ state = "Monitoring" =>
    \E k \in DOMAIN watches : watches[k].realm = "realm" /\ watches[k].pc # "exited"

==============================================================================
