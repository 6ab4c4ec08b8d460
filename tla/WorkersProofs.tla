---------------------------- MODULE WorkersProofs ----------------------------
(***************************************************************************)
(* Proofs about Workers, for any objects, workers and channel depth: type  *)
(* correctness, mutual exclusion of the workers of one object, exactness   *)
(* of workingOn, and that the workers implement DiscoverySessions.         *)
(*                                                                         *)
(* OneWorkerPerObject is not inductive by itself: that a claim excludes    *)
(* the other workers follows from NoStaleClaim, and that a release leaves  *)
(* NoStaleClaim intact follows from OneWorkerPerObject.  The two and       *)
(* TypeOK together are inductive.                                          *)
(***************************************************************************)
EXTENDS Workers, TLAPS

IInv == TypeOK /\ NoStaleClaim /\ OneWorkerPerObject

------------------------------------------------------------------------------
(* Type correctness. *)

LEMMA TypeInit == Init => TypeOK
  BY WorkersAssumption DEF Init, TypeOK, Realms, AllWorkers, Phases

\* Every step of the channels and of the workers preserves the types, the
\* capacity of the channels, and that a worker holds an object exactly
\* between receiving it and dropping or releasing it.
LEMMA TypeStep == TypeOK /\ [Next]_vars => TypeOK'
<1> SUFFICES ASSUME TypeOK, [Next]_vars
             PROVE  TypeOK'
  OBVIOUS
<1> USE WorkersAssumption
<1>1. ASSUME NEW r \in Realms, NEW i \in Item, Send(r, i)
      PROVE  TypeOK'
  <2>1. queue'[r] \in Seq(Item) /\ Len(queue'[r]) <= QueueDepth
    BY <1>1 DEF Send, TypeOK
  <2>2. \A s \in Realms : s # r => queue'[s] = queue[s]
    BY <1>1 DEF Send, TypeOK
  <2> QED  BY <1>1, <2>1, <2>2 DEF Send, TypeOK
<1>2. ASSUME NEW r \in Realms, Close(r)
      PROVE  TypeOK'
  BY <1>2 DEF Close, TypeOK
<1>3. ASSUME NEW w \in AllWorkers, Receive(w)
      PROVE  TypeOK'
  <2> DEFINE r == RealmOf(w)
  <2>1. r \in Realms
    BY DEF RealmOf, Realms
  <2>2. /\ Head(queue[r]) \in Item
        /\ Tail(queue[r]) \in Seq(Item)
        /\ Len(Tail(queue[r])) <= QueueDepth
    BY <1>3, <2>1 DEF Receive, TypeOK
  <2>3. /\ queue' \in [Realms -> Seq(Item)]
        /\ \A s \in Realms : Len(queue'[s]) <= QueueDepth
    BY <1>3, <2>1, <2>2 DEF Receive, TypeOK
  <2>4. /\ item' \in [AllWorkers -> Item \cup {None}]
        /\ pc' \in [AllWorkers -> Phases \cup {"idle", "received", "exited"}]
        /\ \A v \in AllWorkers : item'[v] = None <=> pc'[v] \in {"idle", "exited"}
    BY <1>3, <2>2 DEF Receive, Goto, TypeOK
  <2> QED  BY <1>3, <2>3, <2>4 DEF Receive, TypeOK
<1>4. ASSUME NEW w \in AllWorkers, Exit(w)
      PROVE  TypeOK'
  BY <1>4 DEF Exit, Goto, TypeOK
<1>5. ASSUME NEW w \in AllWorkers, Claim(w)
      PROVE  TypeOK'
  <2>1. item[w] \in Item
    BY <1>5 DEF Claim, Goto, TypeOK
  <2> QED  BY <1>5, <2>1 DEF Claim, Goto, TypeOK, Item, FirstPhase, Phases
<1>6. ASSUME NEW w \in AllWorkers, Drop(w)
      PROVE  TypeOK'
  BY <1>6 DEF Drop, Goto, TypeOK
<1>7. ASSUME NEW w \in AllWorkers,
             \/ DiscoverPorts(w) \/ DiscoverLinks(w) \/ DiscoverHosts(w)
             \/ RegisterAgent(w)
      PROVE  TypeOK'
  BY <1>7 DEF DiscoverPorts, DiscoverLinks, DiscoverHosts, RegisterAgent, Goto,
              TypeOK, Phases
<1>8. ASSUME NEW w \in AllWorkers, Release(w)
      PROVE  TypeOK'
  BY <1>8 DEF Release, Goto, TypeOK
<1>9. CASE UNCHANGED vars
  BY <1>9 DEF vars, TypeOK
<1> QED
  BY <1>1, <1>2, <1>3, <1>4, <1>5, <1>6, <1>7, <1>8, <1>9 DEF Next, WorkerStep

\* The queues stay within their capacity and a worker holds an object exactly
\* from taking it off a channel to dropping or releasing it.
THEOREM TypeCorrect == SafeSpec => []TypeOK
  BY TypeInit, TypeStep, PTL DEF SafeSpec

------------------------------------------------------------------------------
(* Mutual exclusion of the workers of one object. *)

LEMMA IInvInit == Init => IInv
<1> SUFFICES ASSUME Init
             PROVE  NoStaleClaim /\ OneWorkerPerObject
  BY TypeInit DEF IInv
<1>1. \A w \in AllWorkers : ~Busy(w)
  BY DEF Init, Busy, Phases
<1> QED  BY <1>1 DEF Init, NoStaleClaim, OneWorkerPerObject

\* A step after which the same workers work on the same objects, with
\* workingOn as it was, preserves both parts.
LEMMA SameClaims ==
  ASSUME IInv,
         workingOn' = workingOn,
         \A w \in AllWorkers : Busy(w)' <=> Busy(w),
         \A w \in AllWorkers : Busy(w) => item'[w] = item[w]
  PROVE  NoStaleClaim' /\ OneWorkerPerObject'
BY DEF IInv, NoStaleClaim, OneWorkerPerObject

\* Every step keeps the workers of one object apart and workingOn exact.
LEMMA IInvStep == IInv /\ [Next]_vars => IInv'
<1> SUFFICES ASSUME IInv, [Next]_vars
             PROVE  NoStaleClaim' /\ OneWorkerPerObject'
  BY TypeStep DEF IInv
<1>0. TypeOK
  BY DEF IInv
<1>1. ASSUME NEW r \in Realms, NEW i \in Item, Send(r, i)
      PROVE  NoStaleClaim' /\ OneWorkerPerObject'
  BY <1>1, SameClaims DEF Send, Busy
<1>2. ASSUME NEW r \in Realms, Close(r)
      PROVE  NoStaleClaim' /\ OneWorkerPerObject'
  BY <1>2, SameClaims DEF Close, Busy
<1>3. ASSUME NEW w \in AllWorkers, Receive(w) \/ Exit(w) \/ Drop(w)
      PROVE  NoStaleClaim' /\ OneWorkerPerObject'
  <2>1. ~Busy(w) /\ ~Busy(w)'
    BY <1>0, <1>3 DEF Receive, Exit, Drop, Goto, Busy, Phases, TypeOK
  <2>2. \A v \in AllWorkers : v # w => pc'[v] = pc[v] /\ item'[v] = item[v]
    BY <1>0, <1>3 DEF Receive, Exit, Drop, Goto, TypeOK
  <2>3. \A v \in AllWorkers :
          (Busy(v)' <=> Busy(v)) /\ (Busy(v) => item'[v] = item[v])
    BY <2>1, <2>2 DEF Busy
  <2>4. workingOn' = workingOn
    BY <1>3 DEF Receive, Exit, Drop
  <2> QED  BY <2>3, <2>4, SameClaims
<1>4. ASSUME NEW w \in AllWorkers, Claim(w)
      PROVE  NoStaleClaim' /\ OneWorkerPerObject'
  <2>1. ~Busy(w) /\ Busy(w)'
    BY <1>0, <1>4 DEF Claim, Goto, FirstPhase, Busy, Phases, TypeOK
  <2>2. \A v \in AllWorkers : item'[v] = item[v] /\ (v # w => (Busy(v)' <=> Busy(v)))
    BY <1>0, <1>4 DEF Claim, Goto, Busy, TypeOK
  <2>3. \A v \in AllWorkers : Busy(v) => item[v].id # item[w].id
    BY <1>4 DEF Claim, IInv, NoStaleClaim
  <2>4. workingOn' = workingOn \cup {item[w].id}
    BY <1>4 DEF Claim
  <2>5. OneWorkerPerObject'
    BY <2>1, <2>2, <2>3 DEF IInv, OneWorkerPerObject
  <2>6. NoStaleClaim'
    BY <2>1, <2>2, <2>4 DEF IInv, NoStaleClaim
  <2> QED  BY <2>5, <2>6
<1>5. ASSUME NEW w \in AllWorkers,
             \/ DiscoverPorts(w) \/ DiscoverLinks(w) \/ DiscoverHosts(w)
             \/ RegisterAgent(w)
      PROVE  NoStaleClaim' /\ OneWorkerPerObject'
  <2>1. \A v \in AllWorkers : Busy(v)' <=> Busy(v)
    BY <1>0, <1>5 DEF DiscoverPorts, DiscoverLinks, DiscoverHosts, RegisterAgent,
                      Goto, Busy, Phases, TypeOK
  <2>2. item' = item /\ workingOn' = workingOn
    BY <1>5 DEF DiscoverPorts, DiscoverLinks, DiscoverHosts, RegisterAgent
  <2> QED  BY <2>1, <2>2, SameClaims
<1>6. ASSUME NEW w \in AllWorkers, Release(w)
      PROVE  NoStaleClaim' /\ OneWorkerPerObject'
  <2>1. Busy(w) /\ ~Busy(w)'
    BY <1>0, <1>6 DEF Release, Goto, Busy, Phases, TypeOK
  <2>2. \A v \in AllWorkers : v # w => item'[v] = item[v] /\ (Busy(v)' <=> Busy(v))
    BY <1>0, <1>6 DEF Release, Goto, Busy, TypeOK
  <2>3. \A v \in AllWorkers : v # w /\ Busy(v) => item[v].id # item[w].id
    BY <2>1 DEF IInv, OneWorkerPerObject
  <2>4. workingOn' = workingOn \ {item[w].id}
    BY <1>6 DEF Release
  <2>5. OneWorkerPerObject'
    BY <2>1, <2>2 DEF IInv, OneWorkerPerObject
  <2>6. NoStaleClaim'
    BY <2>1, <2>2, <2>3, <2>4 DEF IInv, NoStaleClaim
  <2> QED  BY <2>5, <2>6
<1>7. CASE UNCHANGED vars
  BY <1>7, SameClaims DEF vars, Busy
<1> QED
  BY <1>1, <1>2, <1>3, <1>4, <1>5, <1>6, <1>7 DEF Next, WorkerStep

LEMMA Inductive == SafeSpec => []IInv
  BY IInvInit, IInvStep, PTL DEF SafeSpec

\* No two workers ever work on the same object at the same time, whatever
\* their number and whichever realms they serve.
THEOREM MutualExclusion == SafeSpec => []OneWorkerPerObject
<1>1. IInv => OneWorkerPerObject
  BY DEF IInv
<1> QED  BY <1>1, Inductive, PTL

\* workingOn never holds an ID nobody works on, so no object is shut out of
\* discovery for good.
THEOREM ClaimsAreExact == SafeSpec => []NoStaleClaim
<1>1. IInv => NoStaleClaim
  BY DEF IInv
<1> QED  BY <1>1, Inductive, PTL

------------------------------------------------------------------------------
(* Refinement. *)

\* What SessionOf is: the phase of the one worker that works on the object.
SessionFacts ==
  \A o \in Objects :
    /\ \A w \in AllWorkers : Busy(w) /\ item[w].id = o => SessionOf(o) = pc[w]
    /\ (\A w \in AllWorkers : ~(Busy(w) /\ item[w].id = o)) => SessionOf(o) = "none"

LEMMA SessionIs == OneWorkerPerObject => SessionFacts
<1> SUFFICES ASSUME OneWorkerPerObject, NEW o \in Objects
             PROVE  /\ \A w \in AllWorkers :
                         Busy(w) /\ item[w].id = o => SessionOf(o) = pc[w]
                    /\ (\A w \in AllWorkers : ~(Busy(w) /\ item[w].id = o))
                         => SessionOf(o) = "none"
  BY DEF SessionFacts
<1>1. ASSUME NEW w \in AllWorkers, Busy(w), item[w].id = o
      PROVE  SessionOf(o) = pc[w]
  <2> DEFINE c == CHOOSE v \in AllWorkers : Busy(v) /\ item[v].id = o
  <2>1. c \in AllWorkers /\ Busy(c) /\ item[c].id = o
    BY <1>1
  <2>2. c = w
    BY <1>1, <2>1 DEF OneWorkerPerObject
  <2>3. SessionOf(o) = pc[c]
    BY <1>1 DEF SessionOf
  <2> QED  BY <2>2, <2>3
<1>2. ASSUME \A w \in AllWorkers : ~(Busy(w) /\ item[w].id = o)
      PROVE  SessionOf(o) = "none"
  BY <1>2 DEF SessionOf
<1> QED  BY <1>1, <1>2

LEMMA SessionFactsHold == IInv /\ IInv' => SessionFacts /\ SessionFacts'
<1>1. IInv => SessionFacts
  BY SessionIs DEF IInv
<1> QED  BY <1>1, PTL

\* The initial states: no session has begun.
LEMMA SessionsInit == Init => Sessions!Init
<1> SUFFICES ASSUME Init, NEW o \in Objects
             PROVE  SessionOf(o) = "none"
  BY DEF Sessions!Init
<1>1. \A w \in AllWorkers : ~Busy(w)
  BY DEF Init, Busy, Phases
<1> QED  BY <1>1 DEF SessionOf

\* A step that leaves the busy workers, their objects and their phases alone
\* leaves every session alone.
LEMMA SameSessions ==
  ASSUME IInv, IInv',
         \A w \in AllWorkers : Busy(w)' <=> Busy(w),
         \A w \in AllWorkers : Busy(w) => item'[w] = item[w] /\ pc'[w] = pc[w]
  PROVE  [o \in Objects |-> SessionOf(o)]' = [o \in Objects |-> SessionOf(o)]
<1> SUFFICES ASSUME NEW o \in Objects
             PROVE  SessionOf(o)' = SessionOf(o)
  OBVIOUS
<1>0. SessionFacts /\ SessionFacts'
  BY SessionFactsHold
<1>1. CASE \E w \in AllWorkers : Busy(w) /\ item[w].id = o
  BY <1>0, <1>1 DEF SessionFacts
<1>2. CASE \A w \in AllWorkers : ~(Busy(w) /\ item[w].id = o)
  BY <1>0, <1>2 DEF SessionFacts
<1> QED  BY <1>1, <1>2

\* A step of one worker w, alone on its object i before or after it, moves
\* that object's session from p to q and no other session.
LEMMA OneSession ==
  ASSUME IInv, IInv',
         NEW w \in AllWorkers, NEW i \in Objects, NEW p, NEW q,
         item[w].id = i,
         \A v \in AllWorkers : v # w => item'[v] = item[v] /\ pc'[v] = pc[v],
         Busy(w) \/ Busy(w)',
         Busy(w)' => item'[w] = item[w],
         \A v \in AllWorkers : v # w /\ Busy(v) => item[v].id # i,
         p = IF Busy(w) THEN pc[w] ELSE "none",
         q = IF Busy(w)' THEN pc'[w] ELSE "none"
  PROVE  /\ SessionOf(i) = p
         /\ [o \in Objects |-> SessionOf(o)]'
              = [[o \in Objects |-> SessionOf(o)] EXCEPT ![i] = q]
<1>0. \A v \in AllWorkers : v # w => (Busy(v)' <=> Busy(v))
  BY DEF Busy
<1>1. SessionFacts /\ SessionFacts'
  BY SessionFactsHold
<1>2. SessionOf(i) = p
  BY <1>1 DEF SessionFacts
<1>3. SessionOf(i)' = q
  <2>1. CASE Busy(w)'
    BY <2>1, <1>1 DEF SessionFacts
  <2>2. CASE ~Busy(w)'
    <3>1. \A v \in AllWorkers : ~(Busy(v)' /\ item'[v].id = i)
      BY <2>2, <1>0
    <3> QED  BY <3>1, <2>2, <1>1 DEF SessionFacts
  <2> QED  BY <2>1, <2>2
<1>4. ASSUME NEW o \in Objects, o # i
      PROVE  SessionOf(o)' = SessionOf(o)
  <2>1. CASE \E v \in AllWorkers : Busy(v) /\ item[v].id = o
    <3>1. PICK v \in AllWorkers : Busy(v) /\ item[v].id = o
      BY <2>1
    <3>2. v # w /\ Busy(v)' /\ item'[v].id = o /\ pc'[v] = pc[v]
      BY <3>1, <1>0, <1>4
    <3> QED  BY <3>1, <3>2, <1>1 DEF SessionFacts
  <2>2. CASE \A v \in AllWorkers : ~(Busy(v) /\ item[v].id = o)
    <3>1. \A v \in AllWorkers : ~(Busy(v)' /\ item'[v].id = o)
      BY <2>2, <1>0, <1>4
    <3> QED  BY <3>1, <2>2, <1>1 DEF SessionFacts
  <2> QED  BY <2>1, <2>2
<1> QED  BY <1>2, <1>3, <1>4

\* Every step of the workers is a step of one session, or changes no session.
LEMMA SessionsStep ==
  IInv /\ IInv' /\ [Next]_vars
    => [Sessions!Next]_([o \in Objects |-> SessionOf(o)])
<1> DEFINE S == [o \in Objects |-> SessionOf(o)]
<1> SUFFICES ASSUME IInv, IInv', [Next]_vars
             PROVE  Sessions!Next \/ S' = S
  OBVIOUS
<1>0. TypeOK
  BY DEF IInv
<1>1. ASSUME NEW r \in Realms, NEW i \in Item, Send(r, i)
      PROVE  S' = S
  BY <1>1, SameSessions DEF Send, Busy
<1>2. ASSUME NEW r \in Realms, Close(r)
      PROVE  S' = S
  BY <1>2, SameSessions DEF Close, Busy
<1>3. ASSUME NEW w \in AllWorkers, Receive(w) \/ Exit(w) \/ Drop(w)
      PROVE  S' = S
  <2>1. ~Busy(w) /\ ~Busy(w)'
    BY <1>0, <1>3 DEF Receive, Exit, Drop, Goto, Busy, Phases, TypeOK
  <2>2. \A v \in AllWorkers : v # w => pc'[v] = pc[v] /\ item'[v] = item[v]
    BY <1>0, <1>3 DEF Receive, Exit, Drop, Goto, TypeOK
  <2>3. \A v \in AllWorkers :
          (Busy(v)' <=> Busy(v)) /\ (Busy(v) => item'[v] = item[v] /\ pc'[v] = pc[v])
    BY <2>1, <2>2 DEF Busy
  <2> QED  BY <2>3, SameSessions
\* A step of w on object i that takes its session from p to q.
<1>4. ASSUME NEW w \in AllWorkers, NEW i \in Objects, NEW p, NEW q,
             SessionOf(i) = p,
             S' = [S EXCEPT ![i] = q],
             <<p, q>> \in Sessions!Successor,
             q \in Sessions!Phases \cup {"none"}
      PROVE  Sessions!Next
  BY <1>4 DEF Sessions!Next, Sessions!Step
<1>5. ASSUME NEW w \in AllWorkers, Claim(w)
      PROVE  Sessions!Next
  <2> DEFINE i == item[w].id
             q == FirstPhase(w)
  <2>1. i \in Objects /\ ~Busy(w) /\ Busy(w)' /\ pc'[w] = q /\ item' = item
    BY <1>0, <1>5 DEF Claim, Goto, FirstPhase, Busy, Phases, TypeOK, Item
  <2>2. \A v \in AllWorkers : v # w => item'[v] = item[v] /\ pc'[v] = pc[v]
    BY <1>0, <1>5 DEF Claim, Goto, TypeOK
  <2>3. \A v \in AllWorkers : v # w /\ Busy(v) => item[v].id # i
    BY <1>5 DEF Claim, IInv, NoStaleClaim
  <2>4. PICK j \in Objects : j = i
    BY <2>1
  <2>5. SessionOf(j) = "none" /\ S' = [S EXCEPT ![j] = q]
    BY <2>1, <2>2, <2>3, <2>4, OneSession
  <2>6. <<"none", q>> \in Sessions!Successor /\ q \in Sessions!Phases \cup {"none"}
    BY DEF FirstPhase, Sessions!Successor, Sessions!Phases
  <2> QED  BY <1>4, <2>5, <2>6
<1>6. ASSUME NEW w \in AllWorkers,
             \/ DiscoverPorts(w) \/ DiscoverLinks(w) \/ DiscoverHosts(w)
             \/ RegisterAgent(w)
      PROVE  Sessions!Next
  <2>1. /\ Busy(w) /\ Busy(w)'
        /\ <<pc[w], pc'[w]>> \in Sessions!Successor
        /\ pc'[w] \in Sessions!Phases
        /\ item' = item
    BY <1>0, <1>6 DEF DiscoverPorts, DiscoverLinks, DiscoverHosts, RegisterAgent,
                      Goto, Busy, Phases, TypeOK, Sessions!Successor, Sessions!Phases
  <2>2. \A v \in AllWorkers : v # w => item'[v] = item[v] /\ pc'[v] = pc[v]
    BY <1>0, <1>6 DEF DiscoverPorts, DiscoverLinks, DiscoverHosts, RegisterAgent,
                      Goto, TypeOK
  <2>3. \A v \in AllWorkers : v # w /\ Busy(v) => item[v].id # item[w].id
    BY <2>1 DEF IInv, OneWorkerPerObject
  <2>4. PICK j \in Objects : j = item[w].id
    BY <1>0, <2>1 DEF TypeOK, Busy, Phases, Item
  <2>5. SessionOf(j) = pc[w] /\ S' = [S EXCEPT ![j] = pc'[w]]
    BY <2>1, <2>2, <2>3, <2>4, OneSession
  <2> QED  BY <1>4, <2>1, <2>5
<1>7. ASSUME NEW w \in AllWorkers, Release(w)
      PROVE  Sessions!Next
  <2>1. Busy(w) /\ ~Busy(w)' /\ pc[w] = "release"
    BY <1>0, <1>7 DEF Release, Goto, Busy, Phases, TypeOK
  <2>2. \A v \in AllWorkers : v # w => item'[v] = item[v] /\ pc'[v] = pc[v]
    BY <1>0, <1>7 DEF Release, Goto, TypeOK
  <2>3. \A v \in AllWorkers : v # w /\ Busy(v) => item[v].id # item[w].id
    BY <2>1 DEF IInv, OneWorkerPerObject
  <2>4. PICK j \in Objects : j = item[w].id
    BY <1>0, <2>1 DEF TypeOK, Busy, Phases, Item
  <2>5. SessionOf(j) = "release" /\ S' = [S EXCEPT ![j] = "none"]
    BY <2>1, <2>2, <2>3, <2>4, OneSession
  <2>6. <<"release", "none">> \in Sessions!Successor
    BY DEF Sessions!Successor
  <2> QED  BY <1>4, <2>5, <2>6
<1>8. CASE UNCHANGED vars
  BY <1>8, SameSessions DEF vars, Busy
<1> QED
  BY <1>1, <1>2, <1>3, <1>5, <1>6, <1>7, <1>8 DEF Next, WorkerStep

\* The bank of workers implements the serial sessions of DiscoverySessions:
\* one object's discoveries never overlap and run their phases in order.
THEOREM WorkersImplementSessions == SafeSpec => SessionsSpec
  BY SessionsInit, SessionsStep, Inductive, PTL
     DEF SafeSpec, SessionsSpec, Sessions!Spec

==============================================================================
