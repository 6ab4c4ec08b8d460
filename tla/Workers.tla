------------------------------- MODULE Workers -------------------------------
(***************************************************************************)
(* The discovery job queues and the bank of workers that drains them       *)
(* (pkg/controller/controller.go, pkg/controller/discovery.go).            *)
(*                                                                         *)
(* Each realm has a buffered Go channel of topology objects and its own    *)
(* workers.  A worker receives an object from its channel and then, under  *)
(* the controller's lock, looks the object's ID up in workingOn: if the ID *)
(* is there the object is dropped, otherwise the ID is added and stays     *)
(* there until the worker has run its reconcilers.  Both realms share the  *)
(* one workingOn map.  Receiving, claiming and releasing are separate      *)
(* steps, since the channel and the lock are taken separately.             *)
(*                                                                         *)
(* A queued object is a snapshot of an entity, here its ID and a revision. *)
(* What the reconcilers do in each phase is modelled by other modules; the *)
(* southbound calls and the topology calls they make are what separates    *)
(* one phase from the next.                                                *)
(***************************************************************************)
EXTENDS Naturals, Sequences

CONSTANTS
  Objects,          \* IDs of the topology entities that can be queued
  Revisions,        \* the revisions of an entity a snapshot may carry
  RealmWorkers,     \* the workers that run discover
  NeighborWorkers,  \* the workers that run discoverNeighbor
  QueueDepth,       \* capacity of each channel (128 in the code)
  None              \* no object

Item == [id : Objects, rev : Revisions]

ASSUME WorkersAssumption ==
  /\ RealmWorkers \cap NeighborWorkers = {}
  /\ QueueDepth \in Nat \ {0}
  /\ None \notin Item

VARIABLES
  queue,      \* the contents of each realm's channel
  closed,     \* has the channel been closed?
  workingOn,  \* the IDs in the map workingOn (its values are never read)
  pc,         \* where each worker is
  item        \* the object each worker holds

vars == <<queue, closed, workingOn, pc, item>>

Realms == {"realm", "neighbor"}
AllWorkers == RealmWorkers \cup NeighborWorkers
RealmOf(w) == IF w \in RealmWorkers THEN "realm" ELSE "neighbor"

\* The phases in which a worker works on its object.
Phases == {"ports", "links", "hosts", "register", "release"}
Busy(w) == pc[w] \in Phases

TypeOK ==
  /\ queue \in [Realms -> Seq(Item)]
  /\ closed \in [Realms -> BOOLEAN]
  /\ workingOn \in SUBSET Objects
  /\ pc \in [AllWorkers -> Phases \cup {"idle", "received", "exited"}]
  /\ item \in [AllWorkers -> Item \cup {None}]
  /\ \A r \in Realms : Len(queue[r]) <= QueueDepth
  /\ \A w \in AllWorkers : item[w] = None <=> pc[w] \in {"idle", "exited"}

Init ==
  /\ queue = [r \in Realms |-> <<>>]
  /\ closed = [r \in Realms |-> FALSE]
  /\ workingOn = {}
  /\ pc = [w \in AllWorkers |-> "idle"]
  /\ item = [w \in AllWorkers |-> None]

------------------------------------------------------------------------------
(* The channels. *)

\* Mutant of Send: off by one at the capacity.
SendOverfull(r, i) ==
  /\ ~closed[r]
  /\ Len(queue[r]) <= QueueDepth
  /\ queue' = [queue EXCEPT ![r] = Append(@, i)]
  /\ UNCHANGED <<closed, workingOn, pc, item>>

\* A producer sends an object.  It blocks while the channel is full; sending
\* on a closed channel is a panic, which this action excludes.
Send(r, i) ==
  /\ ~closed[r]
  /\ Len(queue[r]) < QueueDepth
  /\ queue' = [queue EXCEPT ![r] = Append(@, i)]
  /\ UNCHANGED <<closed, workingOn, pc, item>>

\* Stop closes the channel; what it holds can still be received.
Close(r) ==
  /\ ~closed[r]
  /\ closed' = [closed EXCEPT ![r] = TRUE]
  /\ UNCHANGED <<queue, workingOn, pc, item>>

------------------------------------------------------------------------------
(* The workers.  Goto(w, from, to) moves w and leaves the rest to the action. *)

Goto(w, from, to) ==
  /\ pc[w] = from
  /\ pc' = [pc EXCEPT ![w] = to]

\* for object := range queue: the next object, in FIFO order.
Receive(w) ==
  /\ queue[RealmOf(w)] # <<>>
  /\ Goto(w, "idle", "received")
  /\ item' = [item EXCEPT ![w] = Head(queue[RealmOf(w)])]
  /\ queue' = [queue EXCEPT ![RealmOf(w)] = Tail(@)]
  /\ UNCHANGED <<closed, workingOn>>

\* Mutant of Exit: the loop ends on an empty channel, closed or not.
ExitOnEmpty(w) ==
  /\ queue[RealmOf(w)] = <<>>
  /\ Goto(w, "idle", "exited")
  /\ UNCHANGED <<queue, closed, workingOn, item>>

\* The range loop ends once the channel is closed and drained.
Exit(w) ==
  /\ queue[RealmOf(w)] = <<>>
  /\ closed[RealmOf(w)]
  /\ Goto(w, "idle", "exited")
  /\ UNCHANGED <<queue, closed, workingOn, item>>

FirstPhase(w) == IF w \in RealmWorkers THEN "ports" ELSE "register"

\* Mutants of Claim: no look-up, and a look-up among the workers of the realm.
ClaimUnchecked(w) ==
  /\ Goto(w, "received", FirstPhase(w))
  /\ workingOn' = workingOn \cup {item[w].id}
  /\ UNCHANGED <<queue, closed, item>>

ClaimInRealm(w) ==
  /\ Goto(w, "received", FirstPhase(w))
  /\ \A v \in AllWorkers :
       Busy(v) /\ RealmOf(v) = RealmOf(w) => item[v].id # item[w].id
  /\ workingOn' = workingOn \cup {item[w].id}
  /\ UNCHANGED <<queue, closed, item>>

\* Nobody works on the object: mark it as being worked on.
Claim(w) ==
  /\ Goto(w, "received", FirstPhase(w))
  /\ item[w].id \notin workingOn
  /\ workingOn' = workingOn \cup {item[w].id}
  /\ UNCHANGED <<queue, closed, item>>

\* Mutant of Drop: the object is dropped without a look-up.
DropAnyway(w) ==
  /\ Goto(w, "received", "idle")
  /\ item' = [item EXCEPT ![w] = None]
  /\ UNCHANGED <<queue, closed, workingOn>>

\* Somebody works on the object already: drop it.
Drop(w) ==
  /\ Goto(w, "received", "idle")
  /\ item[w].id \in workingOn
  /\ item' = [item EXCEPT ![w] = None]
  /\ UNCHANGED <<queue, closed, workingOn>>

DiscoverPorts(w) ==
  /\ Goto(w, "ports", "links")
  /\ UNCHANGED <<queue, closed, workingOn, item>>

DiscoverLinks(w) ==
  /\ Goto(w, "links", "hosts")
  /\ UNCHANGED <<queue, closed, workingOn, item>>

DiscoverHosts(w) ==
  /\ Goto(w, "hosts", "release")
  /\ UNCHANGED <<queue, closed, workingOn, item>>

RegisterAgent(w) ==
  /\ Goto(w, "register", "release")
  /\ UNCHANGED <<queue, closed, workingOn, item>>

\* Mutant of Release: the ID stays in workingOn.
ReleaseKeepsClaim(w) ==
  /\ Goto(w, "release", "idle")
  /\ item' = [item EXCEPT ![w] = None]
  /\ UNCHANGED <<queue, closed, workingOn>>

\* Done with the object: delete its ID from workingOn.
Release(w) ==
  /\ Goto(w, "release", "idle")
  /\ workingOn' = workingOn \ {item[w].id}
  /\ item' = [item EXCEPT ![w] = None]
  /\ UNCHANGED <<queue, closed>>

WorkerStep(w) ==
  \/ Receive(w) \/ Exit(w) \/ Claim(w) \/ Drop(w)
  \/ DiscoverPorts(w) \/ DiscoverLinks(w) \/ DiscoverHosts(w)
  \/ RegisterAgent(w) \/ Release(w)

Next ==
  \/ \E r \in Realms, i \in Item : Send(r, i)
  \/ \E r \in Realms : Close(r)
  \/ \E w \in AllWorkers : WorkerStep(w)

\* The goroutines keep running: every reconciler call returns in the end.
Fairness == \A w \in AllWorkers : WF_vars(WorkerStep(w))

SafeSpec == Init /\ [][Next]_vars
Spec == SafeSpec /\ Fairness

------------------------------------------------------------------------------
(* Properties. *)

\* No two workers, of whichever realm, work on the same object at the same
\* time: workingOn is looked up and updated in one critical section.
OneWorkerPerObject ==
  \A v, w \in AllWorkers :
    v # w /\ Busy(v) /\ Busy(w) => item[v].id # item[w].id

\* workingOn holds the IDs of the objects being worked on and no other: an ID
\* that outlived its session would keep the object from ever being discovered
\* again, since every later request for it would be dropped.
NoStaleClaim ==
  workingOn = {item[w].id : w \in {v \in AllWorkers : Busy(v)}}

\* The phase of the session of object o.
SessionOf(o) ==
  IF \E w \in AllWorkers : Busy(w) /\ item[w].id = o
  THEN pc[CHOOSE w \in AllWorkers : Busy(w) /\ item[w].id = o]
  ELSE "none"

\* The workers implement the serial sessions of DiscoverySessions.
Sessions == INSTANCE DiscoverySessions
              WITH session <- [o \in Objects |-> SessionOf(o)]
SessionsSpec == Sessions!Spec

Queued(o) == \E r \in Realms : \E n \in 1..Len(queue[r]) : queue[r][n].id = o

\* Dropping never loses an object: one that is queued is worked on after that
\* (a request is dropped only while the object is being worked on).
QueuedIsWorkedOn == \A o \in Objects : Queued(o) ~> o \in workingOn

\* Once Stop has closed a channel its workers finish what is queued, release
\* what they hold and end.
CloseDrains ==
  \A r \in Realms :
    closed[r] ~> /\ queue[r] = <<>>
                 /\ \A w \in AllWorkers : RealmOf(w) = r => pc[w] = "exited"

==============================================================================
