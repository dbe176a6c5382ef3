--------------------------- MODULE SfuRoomProofs ----------------------------
(***************************************************************************)
(* What the SFU service keeps, for any number of participants, of requests *)
(* at work at once and of rounds.  Unconditionally: types, seats, a router *)
(* that stays, and objects behind what is offered.  Where no request is    *)
(* cut short: one router, and one for a crowded room.  Under the           *)
(* hypothesis of serialization that the source states: the roster, whatever*)
(* fails; and, where nothing fails, the engine matches the room.           *)
(***************************************************************************)
EXTENDS SfuRoom, FiniteSetTheorems, TLAPS

\* The part of the room the two theorems are about, and the only four steps
\* that touch it.
LEMMA RosterSteps ==
    ASSUME [Next]_vars
    PROVE  \/ \E t \in Slots : Remove(t) \/ Insert(t) \/ Commit(t)
           \/ UNCHANGED <<participants, router>>
<1> USE DEF roomVars
<1>1. ASSUME NEW t \in Slots, Step(t)
      PROVE  \/ Remove(t) \/ Insert(t) \/ Commit(t)
             \/ UNCHANGED <<participants, router>>
  BY <1>1
  DEF Step, Enter, RemoveAbsent, Unpublish, Clean, Touch, Share, Plan, CreateRouter,
      Provision, ProvisionFails, CommitLost, CommitGone, Lookup, Produce, Consume,
      EngineRefuses, RecordPublication, RecordSubscription, GiveUp
<1>2. ASSUME NEW t \in Tasks, NEW op \in Ops, NEW p \in Participants,
             NEW f \in Flows \cup {NoFlow}, Request(t, op, p, f)
      PROVE  UNCHANGED <<participants, router>>
  BY <1>2 DEF Request
<1>3. ASSUME NEW p \in Participants, Heartbeat(p) \/ Age(p) \/ Evict(p)
      PROVE  UNCHANGED <<participants, router>>
  BY <1>3 DEF Heartbeat, Age, Evict
<1>4. CASE Scan
  BY <1>4 DEF Scan
<1>5. CASE UNCHANGED vars
  BY <1>5 DEF vars
<1>6. QED
  BY <1>1, <1>2, <1>3, <1>4, <1>5 DEF Next

\* A room has finitely many participants, so they can be counted.
SeatInv == IsFiniteSet(participants) /\ SeatsRespected

LEMMA SeatInvHolds == Spec => []SeatInv
<1> DEFINE Inv == SeatInv
<1> USE DEF SeatInv
<1>1. Init => Inv
  BY FS_EmptySet, SfuAssumption DEF Init, SeatsRespected
<1>2. Inv /\ [Next]_vars => Inv'
  <2> SUFFICES ASSUME Inv, [Next]_vars PROVE Inv'
    OBVIOUS
  <2>0. Cardinality(participants) \in Nat /\ MaxSeats \in Nat
    BY FS_CardinalityType, SfuAssumption
  <2>1. ASSUME NEW t \in Slots, Remove(t) PROVE Inv'
    <3>1. PICK p : p \in participants /\ participants' = participants \ {p}
      BY <2>1 DEF Remove
    <3>2. /\ IsFiniteSet(participants \ {p})
          /\ Cardinality(participants \ {p}) = Cardinality(participants) - 1
      BY <3>1, FS_RemoveElement
    <3>3. QED
      BY <2>0, <3>1, <3>2 DEF SeatsRespected
  <2>2. ASSUME NEW t \in Slots, Insert(t) PROVE Inv'
    <3>1. CASE Full
      BY <2>2, <3>1 DEF Insert, roomVars, SeatsRespected
    <3>2. CASE ~Full
      <4>1. PICK p : participants' = participants \cup {p}
        BY <2>2, <3>2 DEF Insert
      <4>2. CASE p \in participants
        <5>1. participants' = participants
          BY <4>1, <4>2
        <5>2. QED
          BY <5>1 DEF SeatsRespected
      <4>3. CASE p \notin participants
        <5>1. /\ IsFiniteSet(participants \cup {p})
              /\ Cardinality(participants \cup {p}) = Cardinality(participants) + 1
          BY <4>3, FS_AddElement
        <5>2. QED
          BY <2>0, <3>2, <4>1, <5>1 DEF Full, SeatsRespected
      <4>4. QED
        BY <4>2, <4>3
    <3>3. QED
      BY <3>1, <3>2
  <2>3. CASE UNCHANGED participants
    BY <2>3 DEF SeatsRespected
  <2>4. QED
    BY <2>1, <2>2, <2>3, RosterSteps DEF Commit
<1>3. QED
  BY <1>1, <1>2, PTL DEF Spec

\* The seat check of join and its insertion are one critical section, so no
\* number of joins at once exceeds the seats.
THEOREM SeatsAlwaysRespected == Spec => []SeatsRespected
<1>1. SeatInv => SeatsRespected
  BY DEF SeatInv
<1>2. QED
  BY <1>1, SeatInvHolds, PTL

\* No race of migrations replaces the router of a room that has one: the loser
\* gives way, and only the departure of the last participant drops it.
THEOREM RouterIsKept == Spec => SfuIsSticky
<1>1. [Next]_vars => [router # 0 /\ participants' # {} => router' = router]_vars
  <2> SUFFICES ASSUME [Next]_vars, router # 0, participants' # {}
               PROVE  router' = router
    OBVIOUS
  <2>1. ASSUME NEW t \in Slots, Remove(t) PROVE router' = router
    BY <2>1 DEF Remove
  <2>2. ASSUME NEW t \in Slots, Insert(t) PROVE router' = router
    BY <2>2 DEF Insert, roomVars
  <2>3. ASSUME NEW t \in Slots, Commit(t) PROVE router' = router
    BY <2>3 DEF Commit
  <2>4. QED
    BY <2>1, <2>2, <2>3, RosterSteps
<1>2. QED
  BY <1>1, PTL DEF Spec, SfuIsSticky

-----------------------------------------------------------------------------
(* The types.                                                              *)

LEMMA TypeInit == Init => TypeOK
<1> SUFFICES ASSUME Init PROVE TypeOK
  OBVIOUS
<1>1. MaxRouters \in Nat /\ MaxPairs \in Nat /\ MaxFlows \in Nat
  BY SfuAssumption
<1>2. pair \in [Participants -> 0 .. MaxPairs] /\ \A p \in Participants : pair[p] = 0
  BY <1>1 DEF Init, NoPair
<1>3. /\ subscriptions \in [Participants -> [Flows -> 0 .. MaxFlows]]
      /\ \A p \in Participants, f \in Flows : subscriptions[p][f] = 0
  BY <1>1 DEF Init, NoSubscription
<1>4. RoomTypeOK
  <2>1. lastSeen \in [Participants -> {"never", "fresh", "old"}]
    BY DEF Init
  <2>2. \A p \in Participants : lastSeen[p] = "never"
    BY DEF Init
  <2>3. /\ participants = {} /\ publications = {} /\ router = 0
        /\ screensharing = FALSE /\ router \in 0 .. MaxRouters
        /\ outdated = FALSE
    BY <1>1 DEF Init
  <2>4. QED
    BY <1>2, <1>3, <2>1, <2>2, <2>3 DEF RoomTypeOK
<1>5. EngineTypeOK
  BY <1>1 DEF Init, EngineTypeOK
<1>6. task \in [Slots -> Jobs \cup {Idle}] /\ \A t \in Slots : task[t] = Idle
  BY DEF Init
<1>7. Idle.op = "none" /\ Idle.pc = "idle"
  BY DEF Idle
<1>8. \A t \in Slots : Equipped(task[t])
  BY <1>6, <1>7 DEF Equipped
<1>9. doomed \subseteq Participants
  BY DEF Init
<1>10. QED
  BY <1>4, <1>5, <1>6, <1>8, <1>9 DEF TypeOK

\* A task at work has the fields of a job.
LEMMA Working ==
    ASSUME TypeOK, NEW t \in Slots, task[t].pc # "idle"
    PROVE  task[t] \in Jobs
BY DEF TypeOK, Idle

LEMMA RoomTypeRemove ==
    ASSUME TypeOK, NEW t \in Slots, Remove(t) \/ Unpublish(t) \/ Insert(t) \/ Touch(t)
    PROVE  RoomTypeOK'
<1>1. RoomTypeOK /\ MaxRouters \in Nat /\ MaxPairs \in Nat /\ MaxFlows \in Nat
  BY SfuAssumption DEF TypeOK
<1>2. CASE Remove(t)
  <2> DEFINE p == task[t].who
             gone == {f \in publications : f[1] = p}
  <2>1. /\ p \in participants
        /\ participants' = participants \ {p}
        /\ pair' = [pair EXCEPT ![p] = 0]
        /\ lastSeen' = [lastSeen EXCEPT ![p] = "never"]
        /\ publications' = IF participants = {p} THEN {} ELSE publications \ gone
        /\ screensharing' = (screensharing /\ participants # {p})
        /\ router' = IF participants = {p} THEN 0 ELSE router
        /\ outdated' = (outdated /\ participants # {p})
        /\ subscriptions' = [q \in Participants |-> [f \in Flows |->
                IF q = p \/ f \in gone THEN 0 ELSE subscriptions[q][f]]]
    BY <1>2 DEF Remove
  <2> HIDE DEF p, gone
  <2>2. /\ subscriptions' \in [Participants -> [Flows -> 0 .. MaxFlows]]
        /\ \A q \in Participants, f \in Flows :
              q \notin participants' => subscriptions'[q][f] = 0
    BY <1>1, <2>1 DEF RoomTypeOK
  <2>3. /\ pair' \in [Participants -> 0 .. MaxPairs]
        /\ lastSeen' \in [Participants -> {"never", "fresh", "old"}]
        /\ \A q \in Participants \ participants' : pair'[q] = 0 /\ lastSeen'[q] = "never"
    BY <1>1, <2>1 DEF RoomTypeOK
  <2>4. /\ participants' \subseteq Participants /\ publications' \subseteq Flows
        /\ screensharing' \in BOOLEAN /\ router' \in 0 .. MaxRouters
        /\ outdated' \in BOOLEAN
        /\ participants' = {} => publications' = {} /\ router' = 0 /\ ~screensharing'
    <3>1. participants' = {} => participants = {p}
      BY <2>1
    <3>2. publications' \subseteq Flows /\ participants' \subseteq Participants
      BY <1>1, <2>1 DEF RoomTypeOK
    <3>3. /\ screensharing' \in BOOLEAN /\ router' \in 0 .. MaxRouters
          /\ outdated' \in BOOLEAN
      BY <1>1, <2>1 DEF RoomTypeOK
    <3>4. participants' = {} => publications' = {} /\ router' = 0 /\ ~screensharing'
      BY <2>1, <3>1
    <3>5. QED
      BY <3>2, <3>3, <3>4
  <2>5. QED
    BY <2>2, <2>3, <2>4 DEF RoomTypeOK
<1>3. CASE Unpublish(t)
  <2> DEFINE f == task[t].flow
  <2>1. UNCHANGED <<participants, pair, lastSeen, screensharing, router, outdated>>
    BY <1>3 DEF Unpublish
  <2>2. CASE UNCHANGED <<publications, subscriptions>>
    BY <1>1, <2>1, <2>2 DEF RoomTypeOK
  <2>3. CASE /\ participants # {}
             /\ publications' = publications \ {f}
             /\ subscriptions' = [q \in Participants |-> [subscriptions[q] EXCEPT ![f] = 0]]
    <3> HIDE DEF f
    <3>1. \A q \in Participants : [subscriptions[q] EXCEPT ![f] = 0] \in [Flows -> 0 .. MaxFlows]
      <4> SUFFICES ASSUME NEW q \in Participants
                   PROVE  [subscriptions[q] EXCEPT ![f] = 0] \in [Flows -> 0 .. MaxFlows]
        OBVIOUS
      <4>1. subscriptions[q] \in [Flows -> 0 .. MaxFlows] /\ 0 \in 0 .. MaxFlows
        BY <1>1 DEF RoomTypeOK
      <4>2. QED
        BY <4>1
    <3>2. /\ subscriptions' \in [Participants -> [Flows -> 0 .. MaxFlows]]
          /\ \A q \in Participants, g \in Flows :
                subscriptions[q][g] = 0 => subscriptions'[q][g] = 0
      BY <1>1, <2>3, <3>1 DEF RoomTypeOK
    <3>3. QED
      BY <1>1, <2>1, <2>3, <3>2 DEF RoomTypeOK
  <2>4. QED
    BY <1>3, <2>2, <2>3 DEF Unpublish
<1>4. CASE Insert(t)
  <2>1. task[t] \in Jobs
    BY <1>4, Working DEF Insert
  <2>2. task[t].who \in Participants
    BY <2>1 DEF Jobs
  <2>3. CASE UNCHANGED roomVars
    BY <1>1, <2>3 DEF RoomTypeOK, roomVars
  <2>4. CASE ~UNCHANGED roomVars
    <3> DEFINE p == task[t].who
    <3>1. /\ participants' = participants \cup {p}
          /\ pair' = [pair EXCEPT ![p] = 0]
          /\ lastSeen' = [lastSeen EXCEPT ![p] = "never"]
          /\ subscriptions' = [subscriptions EXCEPT ![p] = NoSubscription]
          /\ UNCHANGED <<publications, screensharing, router, outdated>>
      BY <1>4, <2>4 DEF Insert
    <3>2. NoSubscription \in [Flows -> 0 .. MaxFlows] /\ p \in Participants
      BY <1>1, <2>2 DEF NoSubscription
    <3> HIDE DEF p
    <3>3. QED
      BY <1>1, <3>1, <3>2 DEF RoomTypeOK
  <2>5. QED
    BY <2>3, <2>4
<1>5. CASE Touch(t)
  BY <1>1, <1>5 DEF Touch, RoomTypeOK
<1>6. QED
  BY <1>2, <1>3, <1>4, <1>5

LEMMA RoomTypeOther ==
    ASSUME TypeOK, NEW t \in Slots,
           Share(t) \/ Commit(t) \/ RecordPublication(t) \/ RecordSubscription(t)
    PROVE  RoomTypeOK'
<1>1. RoomTypeOK /\ MaxRouters \in Nat /\ MaxPairs \in Nat /\ MaxFlows \in Nat
  BY SfuAssumption DEF TypeOK
<1>2. CASE Share(t)
  BY <1>1, <1>2 DEF Share, RoomTypeOK
<1>3. CASE Commit(t)
  <2>1. task[t] \in Jobs
    BY <1>3, Working DEF Commit
  <2>2. task[t].router \in 0 .. MaxRouters /\ task[t].got \in [Participants -> 0 .. MaxPairs]
    BY <2>1 DEF Jobs
  <2>3. QED
    BY <1>1, <1>3, <2>2 DEF Commit, RoomTypeOK
<1>4. CASE RecordPublication(t)
  <2>1. task[t] \in Jobs
    BY <1>4, Working DEF RecordPublication
  <2>2. task[t].who \in Participants /\ task[t].made \in FlowIds
    BY <1>4, <2>1 DEF Jobs, RecordPublication, TypeOK, Equipped
  <2>3. <<task[t].who, task[t].made>> \in Flows
    BY <2>2 DEF Flows
  <2>4. QED
    BY <1>1, <1>4, <2>3 DEF RecordPublication, RoomTypeOK
<1>5. CASE RecordSubscription(t)
  <2>1. task[t] \in Jobs
    BY <1>5, Working DEF RecordSubscription
  <2>2. task[t].who \in Participants /\ task[t].made \in 0 .. MaxFlows
    BY <2>1 DEF Jobs
  <2>3. QED
    BY <1>1, <1>5, <2>2 DEF RecordSubscription, RoomTypeOK
<1>6. QED
  BY <1>2, <1>3, <1>4, <1>5

LEMMA RoomTypeStep ==
    ASSUME TypeOK, [Next]_vars
    PROVE  RoomTypeOK'
<1>1. RoomTypeOK
  BY DEF TypeOK
<1>2. CASE UNCHANGED roomVars
  BY <1>1, <1>2 DEF roomVars, RoomTypeOK
<1>3. ASSUME NEW t \in Slots, Step(t) PROVE RoomTypeOK'
  <2>1. CASE \/ Remove(t) \/ Unpublish(t) \/ Insert(t) \/ Touch(t) \/ Share(t) \/ Commit(t)
             \/ RecordPublication(t) \/ RecordSubscription(t)
    BY <2>1, RoomTypeRemove, RoomTypeOther
  <2>2. CASE UNCHANGED roomVars
    BY <1>2, <2>2
  <2>3. QED
    BY <1>3, <2>1, <2>2
    DEF Step, Enter, RemoveAbsent, Clean, Plan, CreateRouter, Provision, ProvisionFails,
        CommitLost, CommitGone, Lookup, Produce, Consume, EngineRefuses, GiveUp
<1>4. ASSUME NEW p \in Participants, Heartbeat(p) \/ Age(p) PROVE RoomTypeOK'
  <2>1. p \in participants
    BY <1>4 DEF Heartbeat, Age
  <2>2. PICK x \in {"fresh", "old"} : lastSeen' = [lastSeen EXCEPT ![p] = x]
    BY <1>4 DEF Heartbeat, Age
  <2>3. /\ lastSeen' \in [Participants -> {"never", "fresh", "old"}]
        /\ \A q \in Participants \ participants : lastSeen'[q] = "never"
    BY <1>1, <2>1, <2>2 DEF RoomTypeOK
  <2>4. UNCHANGED <<participants, pair, subscriptions, publications, screensharing,
                    router, outdated>>
    BY <1>4 DEF Heartbeat, Age
  <2>5. QED
    BY <1>1, <2>3, <2>4 DEF RoomTypeOK
<1>5. ASSUME NEW p \in Participants, Evict(p) PROVE RoomTypeOK'
  BY <1>2, <1>5 DEF Evict
<1>6. CASE Scan
  BY <1>2, <1>6 DEF Scan
<1>7. ASSUME NEW t \in Tasks, NEW op \in Ops, NEW p \in Participants,
             NEW f \in Flows \cup {NoFlow}, Request(t, op, p, f)
      PROVE  RoomTypeOK'
  BY <1>2, <1>7 DEF Request
<1>8. CASE UNCHANGED vars
  BY <1>2, <1>8 DEF vars, roomVars
<1>9. QED
  BY <1>3, <1>4, <1>5, <1>6, <1>7, <1>8 DEF Next

LEMMA EngineTypeStep ==
    ASSUME TypeOK, [Next]_vars
    PROVE  EngineTypeOK'
<1>1. EngineTypeOK /\ MaxRouters \in Nat \ {0} /\ MaxPairs \in Nat \ {0} /\ MaxFlows \in Nat
  BY SfuAssumption DEF TypeOK
<1>2. CASE UNCHANGED engineVars
  BY <1>1, <1>2 DEF engineVars, EngineTypeOK
<1>3. ASSUME NEW t \in Slots, Step(t) PROVE EngineTypeOK'
  <2>1. CASE Clean(t)
    <3>1. /\ \E X : producers' = [f \in Flows |-> IF f \in X THEN 0 ELSE producers[f]]
          /\ consumers' \subseteq consumers
          /\ routers' \subseteq routers
          /\ \E P, r : transports' = [y \in Pairs |->
                IF y \in P \/ (r \in routers /\ transports[y] = r) THEN 0 ELSE transports[y]]
      BY <2>1 DEF Clean
    <3>2. QED
      BY <1>1, <3>1 DEF EngineTypeOK
  <2>2. CASE CreateRouter(t)
    BY <1>1, <2>2 DEF CreateRouter, EngineTypeOK
  <2>3. CASE Provision(t) \/ ProvisionFails(t)
    <3>1. task[t] \in Jobs
      BY <2>3, Working DEF Provision, ProvisionFails
    <3>2. task[t].router \in 0 .. MaxRouters
      BY <3>1 DEF Jobs
    <3> DEFINE Moved(W, got) ==
                 [x \in Pairs |-> IF x[1] \in W /\ x[2] = got[x[1]]
                                 THEN task[t].router ELSE transports[x]]
    <3>3. \A W, got : Moved(W, got) \in [Pairs -> 0 .. MaxRouters]
      BY <1>1, <3>2 DEF EngineTypeOK
    <3> HIDE DEF Moved
    <3>4. UNCHANGED <<routers, producers, consumers>>
      BY <2>3 DEF Provision, ProvisionFails
    <3>5. CASE Provision(t)
      <4>1. PICK got : transports' = Moved(task[t].want, got)
        BY <3>5 DEF Provision, Moved
      <4>2. QED
        BY <1>1, <3>3, <3>4, <4>1 DEF EngineTypeOK
    <3>6. CASE ProvisionFails(t)
      <4>1. CASE UNCHANGED transports
        BY <1>1, <3>4, <4>1 DEF EngineTypeOK
      <4>2. CASE ~UNCHANGED transports
        <5>1. PICK some \in SUBSET task[t].want :
                 \E got \in [some -> PairIds] : transports' = Moved(some, got)
          BY <3>6, <4>2 DEF ProvisionFails, Moved
        <5>2. PICK got \in [some -> PairIds] : transports' = Moved(some, got)
          BY <5>1
        <5>3. QED
          BY <1>1, <3>3, <3>4, <5>2 DEF EngineTypeOK
      <4>3. QED
        BY <4>1, <4>2
    <3>7. QED
      BY <2>3, <3>5, <3>6
  <2>4. CASE CommitLost(t) \/ CommitGone(t)
    <3>1. UNCHANGED engineVars \/ \E r : CloseRouter(r)
      BY <2>4 DEF CommitLost, CommitGone
    <3>2. QED
      BY <1>1, <1>2, <3>1 DEF CloseRouter, EngineTypeOK
  <2>5. CASE Produce(t)
    <3>1. task[t] \in Jobs
      BY <2>5, Working DEF Produce
    <3>2. task[t].who \in Participants /\ task[t].got \in [Participants -> 0 .. MaxPairs]
      BY <3>1 DEF Jobs
    <3>3. task[t].got[task[t].who] \in 0 .. MaxPairs
      BY <3>2
    <3>4. /\ \E f : producers' = [producers EXCEPT ![f] = task[t].got[task[t].who]]
          /\ UNCHANGED <<routers, transports, consumers>>
      BY <2>5 DEF Produce
    <3>5. QED
      BY <1>1, <3>3, <3>4 DEF EngineTypeOK
  <2>6. CASE Consume(t)
    <3>1. task[t] \in Jobs
      BY <2>6, Working DEF Consume
    <3>2. task[t].who \in Participants
      BY <3>1 DEF Jobs
    <3>3. /\ \E n \in FlowIds : consumers' = consumers \cup {<<task[t].who, n>>}
          /\ UNCHANGED <<routers, transports, producers>>
      BY <2>6 DEF Consume
    <3>4. QED
      BY <1>1, <3>2, <3>3 DEF EngineTypeOK, Consumers
  <2>7. CASE UNCHANGED engineVars
    BY <1>2, <2>7
  <2>8. QED
    BY <1>3, <2>1, <2>2, <2>3, <2>4, <2>5, <2>6, <2>7
    DEF Step, Enter, Remove, RemoveAbsent, Unpublish, Insert, Touch, Share, Plan, Commit,
        Lookup, EngineRefuses, RecordPublication, RecordSubscription, GiveUp
<1>4. ASSUME NEW p \in Participants, Heartbeat(p) \/ Age(p) \/ Evict(p) PROVE EngineTypeOK'
  BY <1>2, <1>4 DEF Heartbeat, Age, Evict
<1>5. CASE Scan
  BY <1>2, <1>5 DEF Scan
<1>6. ASSUME NEW t \in Tasks, NEW op \in Ops, NEW p \in Participants,
             NEW f \in Flows \cup {NoFlow}, Request(t, op, p, f)
      PROVE  EngineTypeOK'
  BY <1>2, <1>6 DEF Request
<1>7. CASE UNCHANGED vars
  BY <1>2, <1>7 DEF vars, engineVars
<1>8. QED
  BY <1>3, <1>4, <1>5, <1>6, <1>7 DEF Next

TaskTypeOK ==
    /\ task \in [Slots -> Jobs \cup {Idle}]
    /\ \A t \in Slots : Equipped(task[t])

\* A step that replaces the job of one slot.
LEMMA NewJob ==
    ASSUME TypeOK, NEW t \in Slots, NEW j, j \in Jobs \/ j = Idle, Equipped(j),
           task' = [task EXCEPT ![t] = j]
    PROVE  TaskTypeOK'
BY DEF TypeOK, TaskTypeOK

\* A step that moves a job on.
LEMMA NextPc ==
    ASSUME TypeOK, NEW t \in Slots, task[t] \in Jobs, NEW pc,
           pc \in {"remove", "clean", "insert", "plan", "touch", "lookup"},
           Goto(t, pc)
    PROVE  TaskTypeOK'
<1> DEFINE j == [task[t] EXCEPT !.pc = pc]
<1>1. j \in Jobs /\ j.op = task[t].op /\ j.flow = task[t].flow /\ j.pc = pc
  BY DEF Jobs
<1>2. Equipped(j)
  BY <1>1 DEF Equipped, TypeOK
<1>3. task' = [task EXCEPT ![t] = j]
  BY DEF Goto
<1> HIDE DEF j
<1>4. QED
  BY <1>1, <1>2, <1>3, NewJob

LEMMA Finished ==
    ASSUME TypeOK, NEW t \in Slots, Finish(t)
    PROVE  TaskTypeOK'
<1>1. Equipped(Idle)
  BY DEF Equipped, Idle
<1>2. QED
  BY <1>1, NewJob DEF Finish

LEMMA Ensure ==
    ASSUME TypeOK, NEW t \in Slots, task[t] \in Jobs, Ensured(t)
    PROVE  TaskTypeOK'
<1>1. Goto(t, "touch") \/ Goto(t, "lookup") \/ Finish(t)
  BY DEF Ensured
<1>2. QED
  BY <1>1, NextPc, Finished

LEMMA TaskTypeStep ==
    ASSUME TypeOK, [Next]_vars
    PROVE  TaskTypeOK'
<1>1. CASE UNCHANGED task
  BY <1>1 DEF TypeOK, TaskTypeOK
<1>2. ASSUME NEW t \in Slots, Step(t) PROVE TaskTypeOK'
  <2>1. task[t] \in Jobs
    BY <1>2, Working
    DEF Step, Enter, Remove, RemoveAbsent, Unpublish, Clean, Insert, Touch, Share, Plan,
        CreateRouter, Provision, ProvisionFails, Commit, CommitLost, CommitGone, Lookup,
        Produce, Consume, EngineRefuses, RecordPublication, RecordSubscription, GiveUp
  <2>2. /\ task[t].who \in Participants /\ task[t].op \in AllOps
        /\ task[t].got \in [Participants -> 0 .. MaxPairs]
        /\ Equipped(task[t])
    BY <2>1 DEF Jobs, TypeOK
  <2>3. CASE Finish(t)
    BY <2>3, Finished
  <2>4. CASE Ensured(t)
    BY <2>1, <2>4, Ensure
  <2>5. CASE Enter(t) \/ Share(t) \/ Insert(t)
    BY <2>1, <2>5, <2>3, NextPc DEF Enter, Share, Insert
  <2>6. CASE Remove(t) \/ Unpublish(t)
    <3>1. CASE Finish(t)
      BY <2>3, <3>1
    <3>2. CASE ~Finish(t)
      <4>1. PICK x \in Trash : task' = [task EXCEPT ![t].pc = "clean", ![t].trash = x]
        <5>1. ASSUME NEW P, NEW F PROVE ConsumersOf(P, F) \subseteq Consumers
          BY SfuAssumption DEF ConsumersOf, Consumers, TypeOK, RoomTypeOK, FlowIds
        <5>2. CASE Remove(t)
          <6> DEFINE gone == {f \in publications : f[1] = task[t].who}
                     x == [producers |-> gone,
                           consumers |-> ConsumersOf({task[t].who}, gone),
                           pairs |-> {<<task[t].who, pair[task[t].who]>>} \cap Pairs,
                           router |-> IF participants = {task[t].who} THEN router ELSE 0]
          <6>1. gone \subseteq Flows /\ router \in 0 .. MaxRouters /\ 0 \in 0 .. MaxRouters
            BY SfuAssumption DEF TypeOK, RoomTypeOK
          <6>2. ConsumersOf({task[t].who}, gone) \subseteq Consumers
            BY <5>1
          <6>3. x \in Trash
            BY <6>1, <6>2 DEF Trash
          <6>4. task' = [task EXCEPT ![t].pc = "clean", ![t].trash = x]
            BY <5>2 DEF Remove
          <6> HIDE DEF x
          <6>5. QED
            BY <6>3, <6>4
        <5>3. CASE Unpublish(t)
          <6> DEFINE f == task[t].flow
                     x == [producers |-> {f}, consumers |-> ConsumersOf({}, {f}),
                           pairs |-> {}, router |-> 0]
          <6>1. /\ task' = [task EXCEPT ![t].pc = "clean", ![t].trash = x]
                /\ f \in Flows
            BY <3>2, <5>3 DEF Unpublish, TypeOK, RoomTypeOK
          <6>2. ConsumersOf({}, {f}) \subseteq Consumers
            BY <5>1
          <6>3. x \in Trash
            BY <6>1, <6>2, SfuAssumption DEF Trash
          <6> HIDE DEF x
          <6>4. QED
            BY <6>1, <6>3
        <5>4. QED
          BY <2>6, <5>2, <5>3
      <4> DEFINE j == [task[t] EXCEPT !.pc = "clean", !.trash = x]
      <4>2. j \in Jobs /\ j.op = task[t].op /\ j.flow = task[t].flow /\ j.pc = "clean"
        BY <2>1 DEF Jobs
      <4>3. Equipped(j)
        BY <2>2, <4>2 DEF Equipped
      <4>4. task' = [task EXCEPT ![t] = j]
        BY <4>1
      <4> HIDE DEF j
      <4>5. QED
        BY <4>2, <4>3, <4>4, NewJob
    <3>3. QED
      BY <3>1, <3>2
  <2>7. CASE Clean(t)
    <3>1. CASE ~Finish(t)
      <4> DEFINE j == [task[t] EXCEPT !.pc = "insert", !.trash = NoTrash]
      <4>1. NoTrash \in Trash
        BY SfuAssumption DEF Trash, NoTrash
      <4>2. j \in Jobs /\ j.op = task[t].op /\ j.flow = task[t].flow /\ j.pc = "insert"
        BY <2>1, <4>1 DEF Jobs
      <4>3. Equipped(j)
        BY <2>2, <4>2 DEF Equipped
      <4>4. task' = [task EXCEPT ![t] = j]
        BY <2>7, <3>1 DEF Clean
      <4> HIDE DEF j
      <4>5. QED
        BY <4>2, <4>3, <4>4, NewJob
    <3>2. QED
      BY <2>3, <3>1
  <2>8. CASE Plan(t)
    <3>1. CASE ~Finish(t) /\ ~Ensured(t)
      <4> DEFINE pc == IF router = 0 THEN "create" ELSE "provision"
                 j == [task[t] EXCEPT !.pc = pc, !.need = (router = 0), !.router = router,
                                      !.want = Missing, !.got = NoPair]
      <4>1. /\ Missing \subseteq Participants /\ router \in 0 .. MaxRouters
            /\ NoPair \in [Participants -> 0 .. MaxPairs]
            /\ (router = 0) \in BOOLEAN
        BY SfuAssumption DEF Missing, NoPair, TypeOK, RoomTypeOK
      <4>2. j \in Jobs /\ j.op = task[t].op /\ j.flow = task[t].flow /\ j.pc = pc
        BY <2>1, <4>1 DEF Jobs
      <4>3. Equipped(j)
        BY <2>2, <4>2 DEF Equipped
      <4>4. task' = [task EXCEPT ![t] = j]
        BY <2>8, <3>1 DEF Plan
      <4> HIDE DEF j
      <4>5. QED
        BY <4>2, <4>3, <4>4, NewJob
    <3>2. QED
      BY <2>3, <2>4, <3>1
  <2>9. CASE CreateRouter(t)
    <3>1. PICK r \in RouterIds : task' = [task EXCEPT ![t].pc = "provision", ![t].router = r]
      BY <2>9 DEF CreateRouter
    <3> DEFINE j == [task[t] EXCEPT !.pc = "provision", !.router = r]
    <3>0. r \in 0 .. MaxRouters
      BY SfuAssumption DEF RouterIds
    <3>2. j \in Jobs /\ j.op = task[t].op /\ j.flow = task[t].flow /\ j.pc = "provision"
      BY <2>1, <3>0 DEF Jobs
    <3>3. Equipped(j)
      BY <2>2, <3>2 DEF Equipped
    <3>4. task' = [task EXCEPT ![t] = j]
      BY <3>1
    <3> HIDE DEF j
    <3>5. QED
      BY <3>2, <3>3, <3>4, NewJob
  <2>10. CASE Provision(t)
    <3>1. PICK got \in [task[t].want -> PairIds] :
             task' = [task EXCEPT ![t].pc = "commit",
                ![t].got = [p \in Participants |-> IF p \in task[t].want THEN got[p] ELSE 0]]
      BY <2>10 DEF Provision
    <3> DEFINE g == [p \in Participants |-> IF p \in task[t].want THEN got[p] ELSE 0]
               j == [task[t] EXCEPT !.pc = "commit", !.got = g]
    <3>2. g \in [Participants -> 0 .. MaxPairs]
      BY SfuAssumption DEF PairIds
    <3> HIDE DEF g
    <3>3. j \in Jobs /\ j.op = task[t].op /\ j.flow = task[t].flow /\ j.pc = "commit"
      BY <2>1, <3>2 DEF Jobs
    <3>4. Equipped(j)
      BY <2>2, <3>3 DEF Equipped
    <3>5. task' = [task EXCEPT ![t] = j]
      BY <3>1 DEF g
    <3> HIDE DEF j
    <3>6. QED
      BY <3>3, <3>4, <3>5, NewJob
  <2>11. CASE CommitLost(t)
    <3>1. CASE ~Ensured(t)
      <4> DEFINE j == [task[t] EXCEPT !.pc = "plan", !.tour = @ + 1, !.router = 0, !.got = NoPair]
      <4>1. /\ NoPair \in [Participants -> 0 .. MaxPairs] /\ 0 \in 0 .. MaxRouters
            /\ task[t].tour + 1 \in 0 .. 3
        BY <2>1, <2>11, <3>1, SfuAssumption DEF NoPair, CommitLost, Jobs
      <4>2. j \in Jobs /\ j.op = task[t].op /\ j.flow = task[t].flow /\ j.pc = "plan"
        BY <2>1, <4>1 DEF Jobs
      <4>3. Equipped(j)
        BY <2>2, <4>2 DEF Equipped
      <4>4. task' = [task EXCEPT ![t] = j]
        BY <2>11, <3>1 DEF CommitLost
      <4> HIDE DEF j
      <4>5. QED
        BY <4>2, <4>3, <4>4, NewJob
    <3>2. QED
      BY <2>4, <3>1
  <2>12. CASE Lookup(t)
    <3>1. CASE ~Finish(t)
      <4> DEFINE g == [task[t].got EXCEPT ![task[t].who] = pair[task[t].who]]
                 j == [task[t] EXCEPT !.pc = "engine", !.got = g]
      <4>1. pair[task[t].who] \in 0 .. MaxPairs
        BY <2>2 DEF TypeOK, RoomTypeOK
      <4>2. g \in [Participants -> 0 .. MaxPairs]
        BY <2>2, <4>1
      <4>3. task' = [task EXCEPT ![t] = j]
        <5>1. task' = [task EXCEPT ![t].pc = "engine",
                                   ![t].got[task[t].who] = pair[task[t].who]]
          BY <2>12, <3>1 DEF Lookup
        <5>2. QED
          BY <2>1, <5>1 DEF Jobs
      <4> HIDE DEF g
      <4>4. j \in Jobs /\ j.op = task[t].op /\ j.flow = task[t].flow /\ j.pc = "engine"
        BY <2>1, <4>2 DEF Jobs
      <4>5. Equipped(j)
        BY <2>2, <4>4 DEF Equipped
      <4> HIDE DEF j
      <4>6. QED
        BY <4>3, <4>4, <4>5, NewJob
    <3>2. QED
      BY <2>3, <3>1
  <2>13. CASE Produce(t) \/ Consume(t)
    <3>1. PICK n \in FlowIds : task' = [task EXCEPT ![t].pc = "record", ![t].made = n]
      BY <2>13 DEF Produce, Consume
    <3> DEFINE j == [task[t] EXCEPT !.pc = "record", !.made = n]
    <3>0. n \in 0 .. MaxFlows
      BY SfuAssumption DEF FlowIds
    <3>2. /\ j \in Jobs /\ j.op = task[t].op /\ j.flow = task[t].flow
          /\ j.pc = "record" /\ j.made = n
      BY <2>1, <3>0 DEF Jobs
    <3>3. Equipped(j)
      BY <2>2, <3>2 DEF Equipped
    <3>4. task' = [task EXCEPT ![t] = j]
      BY <3>1
    <3> HIDE DEF j
    <3>5. QED
      BY <3>2, <3>3, <3>4, NewJob
  <2>14. QED
    BY <1>2, <2>3, <2>4, <2>5, <2>6, <2>7, <2>8, <2>9, <2>10, <2>11, <2>12, <2>13
    DEF Step, RemoveAbsent, Touch, ProvisionFails, Commit, CommitGone, EngineRefuses,
        RecordPublication, RecordSubscription, GiveUp
<1>3. ASSUME NEW p \in Participants, Evict(p) PROVE TaskTypeOK'
  <2>1. task' = [task EXCEPT ![Evictor] = Job("leave", p, NoFlow)]
    BY <1>3 DEF Evict
  <2>2. Job("leave", p, NoFlow) \in Jobs /\ Equipped(Job("leave", p, NoFlow))
    BY SfuAssumption
    DEF Job, Jobs, Equipped, FirstStep, NoPair, NoTrash, Trash, AllOps
  <2>3. QED
    BY <2>1, <2>2, NewJob DEF Slots
<1>4. ASSUME NEW t \in Tasks, NEW op \in Ops, NEW p \in Participants,
             NEW f \in Flows \cup {NoFlow}, Request(t, op, p, f)
      PROVE  TaskTypeOK'
  <2>1. /\ task' = [task EXCEPT ![t] = Job(op, p, f)]
        /\ op \in {"unpublish", "subscribe"} => f \in Flows
    BY <1>4 DEF Request
  <2>2. op \in AllOps
    BY SfuAssumption
  <2>3. Job(op, p, f) \in Jobs /\ Equipped(Job(op, p, f))
    <3>1. FirstStep(op) \in {"enter", "remove", "lookup", "plan", "share"}
      BY <2>2 DEF FirstStep, AllOps
    <3>2. NoTrash \in Trash /\ NoPair \in [Participants -> 0 .. MaxPairs]
      BY SfuAssumption DEF NoTrash, Trash, NoPair
    <3> HIDE DEF FirstStep
    <3>3. QED
      BY <2>1, <2>2, <3>1, <3>2, SfuAssumption DEF Job, Jobs, Equipped
  <2>4. QED
    BY <2>1, <2>3, NewJob DEF Slots
<1>5. QED
  BY <1>1, <1>2, <1>3, <1>4 DEF Next, Heartbeat, Age, Scan, vars

LEMMA TypeStep ==
    ASSUME TypeOK, [Next]_vars
    PROVE  TypeOK'
<1>0. doomed \subseteq Participants /\ participants \subseteq Participants
  BY DEF TypeOK, RoomTypeOK
<1>1. doomed' \subseteq Participants
  <2>1. ASSUME NEW t \in Slots, Step(t) PROVE doomed' = doomed
    BY <2>1
    DEF Step, Enter, Remove, RemoveAbsent, Unpublish, Clean, Insert, Touch, Share, Plan,
        CreateRouter, Provision, ProvisionFails, Commit, CommitLost, CommitGone, Lookup,
        Produce, Consume, EngineRefuses, RecordPublication, RecordSubscription, GiveUp
  <2>2. QED
    BY <1>0, <2>1 DEF Next, Request, Heartbeat, Age, Evict, Scan, vars
<1>2. QED
  BY <1>1, RoomTypeStep, EngineTypeStep, TaskTypeStep DEF TypeOK, TaskTypeOK

-----------------------------------------------------------------------------
(* What the hypothesis of the source buys: while the requests of the room  *)
(* follow one another, nothing a request has found or made is changed      *)
(* before it is recorded.                                                  *)

\* The requests, and the evictions of one pass, follow one another.
OneAtATime ==
    /\ \A t, u \in Slots : task[t] # Idle /\ task[u] # Idle => t = u
    /\ doomed # {} => \A t \in Tasks : task[t] = Idle

\* Consumers are numbered apart: closing one closes no other subscription.
OneConsumerEach ==
    \A p \in Participants : \A f, g \in Flows :
        subscriptions[p][f] # 0 /\ subscriptions[p][f] = subscriptions[p][g] => f = g

\* Who (re)joins is not in the room when it is inserted.
Joining(j) ==
    /\ j.pc \in {"enter", "insert"} => j.op = "join"
    /\ j.pc \in {"clean", "insert"} /\ j.op = "join" => j.who \notin participants

\* What a removal has still to close is no longer offered or received.
Closing(j) ==
    j.pc = "clean" =>
        /\ \A f \in publications : f \notin j.trash.producers
        /\ \A p \in Participants, f \in Flows :
              subscriptions[p][f] # 0 =>
                  <<p, subscriptions[p][f]>> \notin j.trash.consumers

\* A migration knows everybody who misses transports, and has made theirs.
Moving(j) ==
    /\ j.pc \in {"create", "provision"} => j.want = Missing
    /\ j.pc \in {"provision", "commit"} => j.router # 0
    /\ j.pc = "commit" => \A p \in participants : pair[p] = 0 => j.got[p] # 0

\* A flow or a consumer is made for somebody who is there, and is not recorded
\* yet by anybody.
Streaming(j) ==
    /\ j.pc = "lookup" => j.op \in {"publish", "screen", "subscribe"}
    /\ j.pc \in {"engine", "record"} =>
          /\ j.who \in participants
          /\ pair[j.who] # 0
          /\ j.op \in {"publish", "screen", "subscribe"}
          /\ j.op = "subscribe" => j.flow \in publications
    /\ j.pc = "engine" => j.got[j.who] # 0
    /\ j.pc = "record" /\ j.op # "subscribe" =>
          <<j.who, j.made>> \notin publications /\ producers[<<j.who, j.made>>] # 0
    /\ j.pc = "record" /\ j.op = "subscribe" =>
          /\ <<j.who, j.made>> \in consumers
          /\ \A f \in Flows : subscriptions[j.who][f] # j.made

Sound(j) == Joining(j) /\ Closing(j) /\ Moving(j) /\ Streaming(j)

RoomSound == NoGhostPublication /\ FlowsAreReal /\ OneConsumerEach

SerialInv ==
    /\ TypeOK
    /\ RoomSound
    /\ OneAtATime
    /\ \A t \in Slots : task[t] # Idle => Sound(task[t])

LEMMA SerialInit == Init => SerialInv
<1> SUFFICES ASSUME Init PROVE SerialInv
  OBVIOUS
<1>1. /\ publications = {} /\ doomed = {} /\ \A t \in Slots : task[t] = Idle
      /\ \A p \in Participants, f \in Flows : subscriptions[p][f] = 0
  BY DEF Init, NoSubscription
<1>2. RoomSound
  BY <1>1 DEF RoomSound, NoGhostPublication, FlowsAreReal, NoGhostSubscription,
              EngineBacksRoom, OneConsumerEach
<1>3. OneAtATime
  BY <1>1 DEF OneAtATime
<1>4. QED
  BY <1>1, <1>2, <1>3, TypeInit DEF SerialInv

\* Only the job of the slot that steps is changed.
LEMMA OneSlot ==
    ASSUME TypeOK, NEW t \in Slots, Step(t)
    PROVE  /\ task[t] \in Jobs
           /\ \A u \in Slots : u # t => task'[u] = task[u]
           /\ doomed' = doomed
<1>1. task[t] \in Jobs
  BY Working
  DEF Step, Enter, Remove, RemoveAbsent, Unpublish, Clean, Insert, Touch, Share, Plan,
      CreateRouter, Provision, ProvisionFails, Commit, CommitLost, CommitGone, Lookup,
      Produce, Consume, EngineRefuses, RecordPublication, RecordSubscription, GiveUp
<1>2. doomed' = doomed
  BY DEF Step, Enter, Remove, RemoveAbsent, Unpublish, Clean, Insert, Touch, Share, Plan,
      CreateRouter, Provision, ProvisionFails, Commit, CommitLost, CommitGone, Lookup,
      Produce, Consume, EngineRefuses, RecordPublication, RecordSubscription, GiveUp
<1>3. task \in [Slots -> Jobs \cup {Idle}]
  BY DEF TypeOK
<1>4. ASSUME NEW u \in Slots, u # t PROVE task'[u] = task[u]
  <2>1. CASE Finish(t)
    BY <1>3, <1>4, <2>1 DEF Finish
  <2>2. ASSUME NEW pc, Goto(t, pc) PROVE task'[u] = task[u]
    BY <1>3, <1>4, <2>2 DEF Goto
  <2>3. CASE Ensured(t)
    BY <2>1, <2>2, <2>3 DEF Ensured
  <2>4. CASE Enter(t) \/ Share(t) \/ Insert(t)
    BY <2>4, <2>1, <2>2 DEF Enter, Share, Insert
  <2>5. CASE Remove(t)
    BY <1>3, <1>4, <2>5 DEF Remove
  <2>6. CASE Unpublish(t)
    BY <1>3, <1>4, <2>1, <2>6 DEF Unpublish
  <2>7. CASE Clean(t)
    BY <1>3, <1>4, <2>1, <2>7 DEF Clean
  <2>8. CASE Plan(t)
    BY <1>3, <1>4, <2>1, <2>3, <2>8 DEF Plan
  <2>9. CASE CreateRouter(t)
    BY <1>3, <1>4, <2>9 DEF CreateRouter
  <2>10. CASE Provision(t)
    BY <1>3, <1>4, <2>10 DEF Provision
  <2>11. CASE CommitLost(t)
    BY <1>3, <1>4, <2>3, <2>11 DEF CommitLost
  <2>12. CASE Lookup(t)
    BY <1>3, <1>4, <2>1, <2>12 DEF Lookup
  <2>13. CASE Produce(t) \/ Consume(t)
    BY <1>3, <1>4, <2>13 DEF Produce, Consume
  <2>14. QED
    BY <2>1, <2>3, <2>4, <2>5, <2>6, <2>7, <2>8, <2>9, <2>10, <2>11, <2>12, <2>13
    DEF Step, RemoveAbsent, Touch, ProvisionFails, Commit, CommitGone, EngineRefuses,
        RecordPublication, RecordSubscription, GiveUp
<1>5. QED
  BY <1>1, <1>2, <1>4

\* The requests keep following one another.
LEMMA StillOne ==
    ASSUME SerialInv, NEW t \in Slots, Step(t)
    PROVE  /\ OneAtATime'
           /\ task[t] \in Jobs /\ task[t] # Idle /\ Sound(task[t])
           /\ \A u \in Slots : task'[u] # Idle => u = t
<1>1. /\ task[t] \in Jobs /\ doomed' = doomed
      /\ \A u \in Slots : u # t => task'[u] = task[u]
  BY OneSlot DEF SerialInv
<1>2. task[t] # Idle
  BY <1>1 DEF Jobs, Idle
<1>3. \A u \in Slots : u # t => task'[u] = Idle
  BY <1>1, <1>2 DEF SerialInv, OneAtATime
<1>4. doomed' # {} => t \notin Tasks
  BY <1>1, <1>2 DEF SerialInv, OneAtATime
<1>5. Tasks \subseteq Slots
  BY DEF Slots
<1>6. QED
  BY <1>1, <1>2, <1>3, <1>4, <1>5 DEF OneAtATime, SerialInv

\* What a step that only moves a job on leaves of it.
LEMMA MovedOn ==
    ASSUME TypeOK, NEW t \in Slots, task[t] \in Jobs, NEW pc, Goto(t, pc)
    PROVE  task'[t].pc = pc /\ task'[t].op = task[t].op /\ task'[t].who = task[t].who
BY DEF TypeOK, Goto, Jobs

\* A job that is about to look at the room has found nothing yet.
LEMMA SoundOnceMoved ==
    ASSUME TypeOK, NEW t \in Slots, task[t] \in Jobs,
           \/ Finish(t) \/ Ensured(t) \/ Goto(t, "remove") \/ Goto(t, "plan") \/ Goto(t, "touch")
           \/ Goto(t, "insert") /\ task[t].op = "join" /\ task[t].who \notin participants'
    PROVE  task'[t] # Idle => Sound(task[t])'
<1> USE DEF Sound, Joining, Closing, Moving, Streaming
<1>1. CASE Finish(t)
  BY <1>1 DEF Finish, TypeOK
<1>2. CASE Goto(t, "remove") \/ Goto(t, "plan") \/ Goto(t, "touch")
  <2>1. task'[t].pc \in {"remove", "plan", "touch"}
    BY <1>2, MovedOn
  <2>2. QED
    BY <2>1
<1>3. CASE Goto(t, "lookup") /\ task[t].op = "screen"
  <2>1. task'[t].pc = "lookup" /\ task'[t].op = "screen"
    BY <1>3, MovedOn
  <2>2. QED
    BY <2>1
<1>4. CASE Ensured(t)
  BY <1>1, <1>2, <1>3, <1>4 DEF Ensured
<1>5. CASE Goto(t, "insert") /\ task[t].op = "join" /\ task[t].who \notin participants'
  <2>1. /\ task'[t].pc = "insert" /\ task'[t].op = "join"
        /\ task'[t].who \notin participants'
    BY <1>5, MovedOn
  <2>2. QED
    BY <2>1
<1>6. QED
  BY <1>1, <1>2, <1>4, <1>5

\* A removal takes the flows of the participant and the subscriptions to them,
\* and lists what is left of them in the engine.
LEMMA RemoveSound ==
    ASSUME SerialInv, NEW t \in Slots, Remove(t)
    PROVE  RoomSound' /\ Sound(task[t])'
<1> DEFINE p == task[t].who
           gone == {f \in publications : f[1] = p}
           x == [producers |-> gone, consumers |-> ConsumersOf({p}, gone),
                 pairs |-> {<<p, pair[p]>>} \cap Pairs,
                 router |-> IF participants = {p} THEN router ELSE 0]
<1>1. /\ task[t] \in Jobs /\ TypeOK
      /\ task \in [Slots -> Jobs \cup {Idle}]
  BY Working DEF Remove, SerialInv, TypeOK
<1>2. /\ p \in participants
      /\ participants' = participants \ {p}
      /\ publications' = IF participants = {p} THEN {} ELSE publications \ gone
      /\ subscriptions' = [q \in Participants |-> [f \in Flows |->
              IF q = p \/ f \in gone THEN 0 ELSE subscriptions[q][f]]]
      /\ task' = [task EXCEPT ![t].pc = "clean", ![t].trash = x]
      /\ UNCHANGED engineVars
  BY DEF Remove
<1>3. /\ task'[t].pc = "clean" /\ task'[t].who = p
      /\ task'[t].trash.producers = gone
      /\ task'[t].trash.consumers = ConsumersOf({p}, gone)
  <2> HIDE DEF gone, p
  <2>1. /\ task'[t].pc = "clean" /\ task'[t].who = task[t].who /\ task'[t].trash = x
    <3> HIDE DEF x
    <3>1. QED
      BY <1>1, <1>2 DEF Jobs
  <2>2. QED
    BY <2>1 DEF p
<1>4. \A q \in Participants, f \in Flows :
         subscriptions'[q][f] # 0 =>
            q # p /\ f \notin gone /\ subscriptions'[q][f] = subscriptions[q][f]
  <2> HIDE DEF gone, p
  <2>1. QED
    BY <1>2
<1>5. \A f \in publications' : f \in publications /\ f \notin gone
  BY <1>2
<1> HIDE DEF x
<1>6. RoomSound /\ publications \subseteq Flows
  BY DEF SerialInv, TypeOK, RoomTypeOK
<1>7. NoGhostPublication'
  BY <1>2, <1>5, <1>6 DEF RoomSound, NoGhostPublication
<1>8. NoGhostSubscription'
  <2> SUFFICES ASSUME NEW q \in Participants, NEW f \in Flows, subscriptions'[q][f] # 0
               PROVE  q \in participants' /\ f \in publications'
    BY DEF NoGhostSubscription
  <2>1. q # p /\ f \notin gone /\ subscriptions[q][f] # 0
    BY <1>4
  <2>2. q \in participants /\ f \in publications
    BY <1>6, <2>1 DEF RoomSound, FlowsAreReal, NoGhostSubscription
  <2>3. QED
    BY <1>2, <2>1, <2>2
<1>9. EngineBacksRoom'
  <2>1. UNCHANGED <<producers, consumers>>
    BY <1>2 DEF engineVars
  <2> HIDE DEF gone, p
  <2>2. QED
    BY <1>4, <1>5, <1>6, <2>1 DEF RoomSound, FlowsAreReal, EngineBacksRoom
<1>10. OneConsumerEach'
  <2> HIDE DEF gone, p
  <2>1. QED
    BY <1>4, <1>6 DEF RoomSound, OneConsumerEach
<1>11. Closing(task[t])'
  <2>1. ASSUME NEW q \in Participants, NEW f \in Flows, subscriptions'[q][f] # 0
        PROVE  <<q, subscriptions'[q][f]>> \notin ConsumersOf({p}, gone)
    <3>1. q # p /\ f \notin gone /\ subscriptions'[q][f] = subscriptions[q][f]
      BY <1>4, <2>1
    <3>2. SUFFICES ASSUME NEW r \in Participants, NEW g \in Flows, subscriptions[r][g] # 0,
                          r \in {p} \/ g \in gone,
                          <<q, subscriptions[q][f]>> = <<r, subscriptions[r][g]>>
                   PROVE  FALSE
      <4> HIDE DEF gone, p
      <4>1. QED
        BY <3>1 DEF ConsumersOf
    <3>3. r = q /\ subscriptions[q][f] = subscriptions[q][g]
      BY <3>2
    <3>4. f = g
      BY <1>6, <3>2, <3>3 DEF RoomSound, OneConsumerEach
    <3>5. QED
      BY <3>1, <3>2, <3>3, <3>4
  <2>2. \A f \in publications' : f \notin gone
    BY <1>5
  <2> HIDE DEF gone, p
  <2>3. QED
    BY <1>3, <2>1, <2>2 DEF Closing
<1>12. QED
  BY <1>2, <1>3, <1>7, <1>8, <1>9, <1>10, <1>11
  DEF Sound, RoomSound, FlowsAreReal, Joining, Moving, Streaming

LEMMA UnpublishSound ==
    ASSUME SerialInv, NEW t \in Slots, Unpublish(t)
    PROVE  RoomSound' /\ (task'[t] # Idle => Sound(task[t])')
<1> DEFINE h == task[t].flow
           x == [producers |-> {h}, consumers |-> ConsumersOf({}, {h}),
                 pairs |-> {}, router |-> 0]
<1>1. /\ task[t] \in Jobs /\ TypeOK /\ RoomSound
      /\ task \in [Slots -> Jobs \cup {Idle}]
  BY Working DEF Unpublish, SerialInv, TypeOK
<1>2. CASE Finish(t) /\ UNCHANGED <<publications, subscriptions>>
  <2>1. UNCHANGED <<participants, publications, subscriptions, producers, consumers>>
    BY <1>2 DEF Unpublish, engineVars
  <2>2. RoomSound'
    BY <1>1, <2>1
    DEF RoomSound, NoGhostPublication, FlowsAreReal, NoGhostSubscription,
        EngineBacksRoom, OneConsumerEach
  <2>3. QED
    BY <1>1, <1>2, <2>2, SoundOnceMoved
<1>3. CASE ~(Finish(t) /\ UNCHANGED <<publications, subscriptions>>)
  <2>1. /\ publications' = publications \ {h}
        /\ subscriptions' = [q \in Participants |-> [subscriptions[q] EXCEPT ![h] = 0]]
        /\ task' = [task EXCEPT ![t].pc = "clean", ![t].trash = x]
        /\ UNCHANGED <<participants, producers, consumers>>
        /\ task[t].op = "unpublish"
    BY <1>3 DEF Unpublish, engineVars
  <2>2. /\ task'[t].pc = "clean" /\ task'[t].op = "unpublish"
        /\ task'[t].trash.producers = {h}
        /\ task'[t].trash.consumers = ConsumersOf({}, {h})
    <3> HIDE DEF h
    <3>1. task'[t].pc = "clean" /\ task'[t].op = task[t].op /\ task'[t].trash = x
      <4> HIDE DEF x
      <4>1. QED
        BY <1>1, <2>1 DEF Jobs
    <3>2. x.producers = {h} /\ x.consumers = ConsumersOf({}, {h})
      OBVIOUS
    <3> HIDE DEF x
    <3>3. QED
      BY <2>1, <3>1, <3>2
  <2> HIDE DEF x, h
  <2>3. \A q \in Participants, f \in Flows :
           subscriptions'[q][f] # 0 =>
              f # h /\ subscriptions'[q][f] = subscriptions[q][f]
    <3>1. \A q \in Participants : subscriptions[q] \in [Flows -> 0 .. MaxFlows]
      BY <1>1 DEF TypeOK, RoomTypeOK
    <3>2. SUFFICES ASSUME NEW q \in Participants, NEW f \in Flows, subscriptions'[q][f] # 0
                 PROVE  f # h /\ subscriptions'[q][f] = subscriptions[q][f]
      OBVIOUS
    <3>3. subscriptions'[q] = [subscriptions[q] EXCEPT ![h] = 0]
      BY <2>1
    <3>4. QED
      BY <3>1, <3>2, <3>3
  <2>4. NoGhostPublication'
    BY <1>1, <2>1 DEF RoomSound, NoGhostPublication
  <2>5. NoGhostSubscription'
    BY <1>1, <2>1, <2>3 DEF RoomSound, FlowsAreReal, NoGhostSubscription
  <2>6. EngineBacksRoom'
    BY <1>1, <2>1, <2>3 DEF RoomSound, FlowsAreReal, EngineBacksRoom
  <2>7. OneConsumerEach'
    BY <1>1, <2>3 DEF RoomSound, OneConsumerEach
  <2>8. Closing(task[t])'
    <3>1. ASSUME NEW q \in Participants, NEW f \in Flows, subscriptions'[q][f] # 0
          PROVE  <<q, subscriptions'[q][f]>> \notin ConsumersOf({}, {h})
      <4>1. f # h /\ subscriptions'[q][f] = subscriptions[q][f]
        BY <2>3, <3>1
      <4>2. SUFFICES ASSUME NEW r \in Participants, NEW g \in Flows, subscriptions[r][g] # 0,
                            g \in {h},
                            <<q, subscriptions[q][f]>> = <<r, subscriptions[r][g]>>
                     PROVE  FALSE
        BY <4>1 DEF ConsumersOf
      <4>3. r = q /\ subscriptions[q][f] = subscriptions[q][g]
        BY <4>2
      <4>4. f = g
        BY <1>1, <4>2, <4>3 DEF RoomSound, OneConsumerEach
      <4>5. QED
        BY <4>1, <4>2, <4>4
    <3>2. QED
      BY <2>1, <2>2, <3>1 DEF Closing
  <2>9. QED
    BY <2>2, <2>4, <2>5, <2>6, <2>7, <2>8
    DEF Sound, RoomSound, FlowsAreReal, Joining, Moving, Streaming
<1>4. QED
  BY <1>2, <1>3

\* Closing what nobody is offered or receives leaves the room as it is.
LEMMA CleanSound ==
    ASSUME SerialInv, NEW t \in Slots, Clean(t), Sound(task[t])
    PROVE  RoomSound' /\ (task'[t] # Idle => Sound(task[t])')
<1> DEFINE x == task[t].trash
<1>1. task[t] \in Jobs /\ TypeOK /\ RoomSound /\ task \in [Slots -> Jobs \cup {Idle}]
  BY Working DEF Clean, SerialInv, TypeOK
<1>2. /\ producers' = [f \in Flows |-> IF f \in x.producers THEN 0 ELSE producers[f]]
      /\ consumers' = consumers \ x.consumers
      /\ UNCHANGED <<participants, publications, subscriptions>>
  BY DEF Clean, roomVars
<1>3. /\ \A f \in publications : f \notin x.producers
      /\ \A p \in Participants, f \in Flows :
            subscriptions[p][f] # 0 => <<p, subscriptions[p][f]>> \notin x.consumers
  BY DEF Clean, Sound, Closing
<1>4. publications \subseteq Flows
  BY <1>1 DEF TypeOK, RoomTypeOK
<1> HIDE DEF x
<1>5. RoomSound'
  BY <1>1, <1>2, <1>3, <1>4
  DEF RoomSound, NoGhostPublication, FlowsAreReal, NoGhostSubscription,
      EngineBacksRoom, OneConsumerEach
<1>6. CASE Finish(t)
  BY <1>1, <1>5, <1>6, SoundOnceMoved
<1>7. CASE ~Finish(t)
  <2>1. /\ task' = [task EXCEPT ![t].pc = "insert", ![t].trash = NoTrash]
        /\ task[t].op = "join" /\ task[t].pc = "clean"
    BY <1>7 DEF Clean
  <2>2. /\ task'[t].pc = "insert" /\ task'[t].op = "join"
        /\ task'[t].who = task[t].who
    BY <1>1, <2>1 DEF Jobs
  <2>3. task'[t].who \notin participants'
    BY <1>2, <2>1, <2>2 DEF Sound, Joining
  <2>4. QED
    BY <1>5, <2>2, <2>3 DEF Sound, Joining, Closing, Moving, Streaming
<1>8. QED
  BY <1>6, <1>7

LEMMA InsertSound ==
    ASSUME SerialInv, NEW t \in Slots, Insert(t), Sound(task[t])
    PROVE  RoomSound' /\ (task'[t] # Idle => Sound(task[t])')
<1>1. task[t] \in Jobs /\ TypeOK /\ RoomSound
  BY Working DEF Insert, SerialInv
<1>2. Finish(t) \/ Goto(t, "plan") \/ Goto(t, "touch")
  BY DEF Insert
<1>3. CASE UNCHANGED roomVars
  BY <1>1, <1>2, <1>3, SoundOnceMoved
  DEF Insert, roomVars, engineVars, RoomSound, NoGhostPublication, FlowsAreReal,
      NoGhostSubscription, EngineBacksRoom, OneConsumerEach
<1>4. CASE ~UNCHANGED roomVars
  <2> DEFINE p == task[t].who
  <2>1. /\ participants' = participants \cup {p}
        /\ subscriptions' = [subscriptions EXCEPT ![p] = NoSubscription]
        /\ UNCHANGED <<publications, producers, consumers>>
    BY <1>4 DEF Insert, engineVars
  <2>2. \A q \in Participants, f \in Flows :
           subscriptions'[q][f] # 0 => subscriptions'[q][f] = subscriptions[q][f]
    BY <1>1, <2>1 DEF TypeOK, RoomTypeOK, NoSubscription
  <2> HIDE DEF p
  <2>3. NoGhostPublication' /\ NoGhostSubscription'
    BY <1>1, <2>1, <2>2
    DEF RoomSound, NoGhostPublication, FlowsAreReal, NoGhostSubscription
  <2>4. EngineBacksRoom' /\ OneConsumerEach'
    BY <1>1, <2>1, <2>2
    DEF RoomSound, FlowsAreReal, EngineBacksRoom, OneConsumerEach
  <2>5. QED
    BY <1>1, <1>2, <2>3, <2>4, SoundOnceMoved DEF RoomSound, FlowsAreReal
<1>5. QED
  BY <1>3, <1>4

\* The steps that change neither what the room offers nor what backs it.
LEMMA RoomSoundKept ==
    ASSUME RoomSound, UNCHANGED <<participants, publications, subscriptions, producers, consumers>>
    PROVE  RoomSound'
BY DEF RoomSound, NoGhostPublication, FlowsAreReal, NoGhostSubscription,
       EngineBacksRoom, OneConsumerEach

LEMMA MigrationSound ==
    ASSUME SerialInv, NEW t \in Slots, Sound(task[t]),
           \/ Plan(t) \/ CreateRouter(t) \/ Provision(t) \/ ProvisionFails(t)
           \/ Commit(t) \/ CommitLost(t) \/ CommitGone(t)
    PROVE  RoomSound' /\ (task'[t] # Idle => Sound(task[t])')
<1>1. /\ task[t] \in Jobs /\ TypeOK /\ RoomSound
      /\ task \in [Slots -> Jobs \cup {Idle}]
  BY Working
  DEF Plan, CreateRouter, Provision, ProvisionFails, Commit, CommitLost, CommitGone,
      SerialInv, TypeOK
<1>2. UNCHANGED <<participants, publications, subscriptions, producers, consumers>>
  BY DEF Plan, CreateRouter, Provision, ProvisionFails, Commit, CommitLost, CommitGone,
         CloseRouter, roomVars, engineVars
<1>3. RoomSound'
  BY <1>1, <1>2, RoomSoundKept
<1> USE DEF Sound, Joining, Closing, Moving, Streaming
<1>4. CASE Finish(t) \/ Ensured(t)
  BY <1>1, <1>3, <1>4, SoundOnceMoved
<1>5. CASE Plan(t) /\ ~Finish(t) /\ ~Ensured(t)
  <2> DEFINE pc == IF router = 0 THEN "create" ELSE "provision"
  <2>1. /\ task' = [task EXCEPT ![t].pc = pc, ![t].need = (router = 0), ![t].router = router,
                                ![t].want = Missing, ![t].got = NoPair]
        /\ UNCHANGED <<participants, pair>>
    BY <1>5 DEF Plan, roomVars
  <2>2. /\ task'[t].pc = pc /\ task'[t].router = router /\ task'[t].want = Missing
    BY <1>1, <2>1 DEF Jobs
  <2>3. Missing' = Missing
    BY <2>1 DEF Missing
  <2>4. QED
    BY <1>3, <2>2, <2>3
<1>6. CASE CreateRouter(t)
  <2>1. PICK r \in RouterIds : task' = [task EXCEPT ![t].pc = "provision", ![t].router = r]
    BY <1>6 DEF CreateRouter
  <2>2. r # 0
    BY SfuAssumption DEF RouterIds
  <2>3. task'[t].pc = "provision" /\ task'[t].router = r /\ task'[t].want = task[t].want
    BY <1>1, <2>1 DEF Jobs
  <2>4. Missing' = Missing /\ task[t].want = Missing
    BY <1>6 DEF Missing, CreateRouter, roomVars
  <2>5. QED
    BY <1>3, <2>2, <2>3, <2>4
<1>7. CASE Provision(t)
  <2>1. PICK got \in [task[t].want -> PairIds] :
           task' = [task EXCEPT ![t].pc = "commit",
              ![t].got = [p \in Participants |-> IF p \in task[t].want THEN got[p] ELSE 0]]
    BY <1>7 DEF Provision
  <2> DEFINE g == [p \in Participants |-> IF p \in task[t].want THEN got[p] ELSE 0]
  <2>2. /\ task[t].want = Missing /\ task[t].router # 0
        /\ UNCHANGED <<participants, pair>> /\ participants \subseteq Participants
    BY <1>1, <1>7 DEF Provision, roomVars, TypeOK, RoomTypeOK
  <2>3. \A p \in participants : pair[p] = 0 => g[p] \in PairIds
    BY <2>2 DEF Missing
  <2>4. 0 \notin PairIds
    BY SfuAssumption DEF PairIds
  <2> HIDE DEF g
  <2>5. task'[t].pc = "commit" /\ task'[t].router = task[t].router /\ task'[t].got = g
    BY <1>1, <2>1 DEF Jobs, g
  <2>6. QED
    BY <1>3, <2>2, <2>3, <2>4, <2>5
<1>8. CASE CommitLost(t) /\ ~Ensured(t)
  <2>1. task' = [task EXCEPT ![t].pc = "plan", ![t].tour = @ + 1, ![t].router = 0,
                             ![t].got = NoPair]
    BY <1>8 DEF CommitLost
  <2>2. task'[t].pc = "plan"
    BY <1>1, <2>1 DEF Jobs
  <2>3. QED
    BY <1>3, <2>2
<1>9. QED
  BY <1>4, <1>5, <1>6, <1>7, <1>8 DEF ProvisionFails, Commit, CommitGone, CommitLost

LEMMA EngineSound ==
    ASSUME SerialInv, NEW t \in Slots, Sound(task[t]),
           Lookup(t) \/ Produce(t) \/ Consume(t) \/ EngineRefuses(t)
    PROVE  RoomSound' /\ (task'[t] # Idle => Sound(task[t])')
<1>1. /\ task[t] \in Jobs /\ TypeOK /\ RoomSound
      /\ task \in [Slots -> Jobs \cup {Idle}]
  BY Working DEF Lookup, Produce, Consume, EngineRefuses, SerialInv, TypeOK
<1>2. UNCHANGED <<participants, pair, publications, subscriptions>>
  BY DEF Lookup, Produce, Consume, EngineRefuses, roomVars
<1>3. /\ task[t].who \in Participants /\ task[t].op \in AllOps
      /\ task[t].got \in [Participants -> 0 .. MaxPairs]
  BY <1>1 DEF Jobs
<1> USE DEF Sound, Joining, Closing, Moving, Streaming
<1>4. CASE Finish(t) /\ UNCHANGED engineVars
  <2>1. RoomSound'
    BY <1>1, <1>2, <1>4, RoomSoundKept DEF engineVars
  <2>2. QED
    BY <1>1, <1>4, <2>1, SoundOnceMoved
<1>5. CASE Lookup(t) /\ ~Finish(t)
  <2> DEFINE who == task[t].who
             g == [task[t].got EXCEPT ![who] = pair[who]]
  <2>1. /\ task' = [task EXCEPT ![t].pc = "engine", ![t].got[who] = pair[who]]
        /\ who \in participants /\ pair[who] # 0
        /\ Publishing(t) \/ task[t].flow \in publications
        /\ task[t].pc = "lookup"
        /\ UNCHANGED engineVars
    BY <1>5 DEF Lookup
  <2>2. /\ task'[t].pc = "engine" /\ task'[t].op = task[t].op /\ task'[t].who = who
        /\ task'[t].flow = task[t].flow /\ task'[t].got = g
    BY <1>1, <2>1 DEF Jobs
  <2>3. g[who] # 0
    BY <1>3, <2>1
  <2> HIDE DEF g, who
  <2>4. RoomSound'
    BY <1>1, <1>2, <2>1, RoomSoundKept DEF engineVars
  <2>5. task'[t].who \in participants' /\ pair'[task'[t].who] # 0
    BY <1>2, <2>1, <2>2
  <2>6. /\ task'[t].op \in {"publish", "screen", "subscribe"}
        /\ task'[t].op = "subscribe" => task'[t].flow \in publications'
    BY <1>2, <2>1, <2>2 DEF Publishing
  <2>7. task'[t].pc = "engine" /\ task'[t].got[task'[t].who] # 0
    BY <2>2, <2>3
  <2>8. QED
    BY <2>4, <2>5, <2>6, <2>7
<1>6. CASE Produce(t)
  <2>1. PICK n \in FlowIds :
           /\ n \in FreeFlows(task[t].who)
           /\ producers' = [producers EXCEPT ![<<task[t].who, n>>] = task[t].got[task[t].who]]
           /\ task' = [task EXCEPT ![t].pc = "record", ![t].made = n]
           /\ UNCHANGED consumers
    BY <1>6 DEF Produce, FirstOf
  <2> DEFINE h == <<task[t].who, n>>
  <2>2. h \notin publications /\ h \in Flows
    BY <1>3, <2>1 DEF FreeFlows, Flows
  <2>3. task[t].pc = "engine" /\ task[t].op \in {"publish", "screen"}
    BY <1>6 DEF Produce, Publishing
  <2>4. /\ task'[t].pc = "record" /\ task'[t].op = task[t].op /\ task'[t].who = task[t].who
        /\ task'[t].flow = task[t].flow /\ task'[t].made = n
    BY <1>1, <2>1 DEF Jobs
  <2>5. /\ producers'[h] # 0
        /\ \A f \in Flows : f # h => producers'[f] = producers[f]
    <3>1. producers \in [Flows -> 0 .. MaxPairs] /\ task[t].got[task[t].who] # 0
      BY <1>1, <2>3 DEF TypeOK, EngineTypeOK
    <3>2. QED
      BY <2>1, <2>2, <3>1
  <2>6. publications \subseteq Flows
    BY <1>1 DEF TypeOK, RoomTypeOK
  <2>7. RoomSound'
    <3> HIDE DEF h
    <3>1. QED
      BY <1>1, <1>2, <2>1, <2>2, <2>5, <2>6
      DEF RoomSound, NoGhostPublication, FlowsAreReal, NoGhostSubscription,
          EngineBacksRoom, OneConsumerEach
  <2>8. QED
    BY <1>2, <2>2, <2>3, <2>4, <2>5, <2>7
<1>7. CASE Consume(t)
  <2>1. PICK n \in FlowIds :
           /\ n \in FreeConsumers(task[t].who)
           /\ consumers' = consumers \cup {<<task[t].who, n>>}
           /\ task' = [task EXCEPT ![t].pc = "record", ![t].made = n]
           /\ UNCHANGED producers
    BY <1>7 DEF Consume, FirstOf
  <2>2. \A f \in Flows : subscriptions[task[t].who][f] # n
    BY <2>1 DEF FreeConsumers
  <2>3. task[t].pc = "engine" /\ task[t].op = "subscribe"
    BY <1>7 DEF Consume
  <2>4. /\ task'[t].pc = "record" /\ task'[t].op = task[t].op /\ task'[t].who = task[t].who
        /\ task'[t].flow = task[t].flow /\ task'[t].made = n
    BY <1>1, <2>1 DEF Jobs
  <2>5. RoomSound'
    BY <1>1, <1>2, <2>1
    DEF RoomSound, NoGhostPublication, FlowsAreReal, NoGhostSubscription,
        EngineBacksRoom, OneConsumerEach
  <2>6. /\ task'[t].who \in participants' /\ pair'[task'[t].who] # 0
        /\ task'[t].pc = "record" /\ task'[t].op = "subscribe"
        /\ task'[t].flow \in publications'
    BY <1>2, <2>3, <2>4
  <2>7. <<task'[t].who, task'[t].made>> \in consumers'
    <3>1. <<task[t].who, n>> \in consumers'
      BY <2>1
    <3>2. QED
      BY <2>4, <3>1
  <2>8. \A f \in Flows : subscriptions'[task'[t].who][f] # task'[t].made
    BY <1>2, <2>2, <2>4
  <2>9. QED
    BY <2>5, <2>6, <2>7, <2>8
<1>8. QED
  BY <1>4, <1>5, <1>6, <1>7 DEF Lookup, EngineRefuses, engineVars

LEMMA RecordSound ==
    ASSUME SerialInv, NEW t \in Slots, Sound(task[t]),
           RecordPublication(t) \/ RecordSubscription(t)
    PROVE  RoomSound' /\ (task'[t] # Idle => Sound(task[t])')
<1>1. task[t] \in Jobs /\ TypeOK /\ RoomSound /\ Equipped(task[t])
  BY Working DEF RecordPublication, RecordSubscription, SerialInv, TypeOK
<1>2. Finish(t) /\ task[t].pc = "record"
  BY DEF RecordPublication, RecordSubscription
<1>3. /\ task[t].who \in Participants /\ task[t].made \in FlowIds
      /\ UNCHANGED <<participants, producers, consumers>>
  BY <1>1, <1>2 DEF Jobs, Equipped, RecordPublication, RecordSubscription, engineVars
<1>4. task[t].who \in participants
  BY <1>2 DEF Sound, Streaming
<1>5. CASE RecordPublication(t)
  <2> DEFINE h == <<task[t].who, task[t].made>>
  <2>1. publications' = publications \cup {h} /\ UNCHANGED subscriptions
    BY <1>4, <1>5 DEF RecordPublication
  <2>2. producers[h] # 0 /\ h[1] \in participants
    BY <1>2, <1>4, <1>5 DEF RecordPublication, Publishing, Sound, Streaming
  <2> HIDE DEF h
  <2>3. RoomSound'
    BY <1>1, <1>3, <2>1, <2>2
    DEF RoomSound, NoGhostPublication, FlowsAreReal, NoGhostSubscription,
        EngineBacksRoom, OneConsumerEach
  <2>4. QED
    BY <1>1, <1>2, <2>3, SoundOnceMoved
<1>6. CASE RecordSubscription(t)
  <2> DEFINE p == task[t].who
             h == task[t].flow
             n == task[t].made
  <2>1. /\ subscriptions' = [subscriptions EXCEPT ![p][h] = n]
        /\ UNCHANGED publications
    BY <1>4, <1>6 DEF RecordSubscription
  <2>2. /\ h \in publications /\ <<p, n>> \in consumers
        /\ \A f \in Flows : subscriptions[p][f] # n
        /\ p \in participants
    BY <1>2, <1>4, <1>6 DEF RecordSubscription, Sound, Streaming
  <2> HIDE DEF p, h, n
  <2>3. \A q \in Participants, f \in Flows :
           \/ q = p /\ f = h /\ subscriptions'[q][f] = n
           \/ ~(q = p /\ f = h) /\ subscriptions'[q][f] = subscriptions[q][f]
    BY <1>1, <2>1 DEF TypeOK, RoomTypeOK
  <2>4. NoGhostSubscription' /\ NoGhostPublication'
    BY <1>1, <1>3, <2>1, <2>2, <2>3
    DEF RoomSound, FlowsAreReal, NoGhostSubscription, NoGhostPublication
  <2>5. EngineBacksRoom'
    BY <1>1, <1>3, <2>1, <2>2, <2>3 DEF RoomSound, FlowsAreReal, EngineBacksRoom
  <2>6. OneConsumerEach'
    <3> SUFFICES ASSUME NEW q \in Participants, NEW f \in Flows, NEW g \in Flows,
                        subscriptions'[q][f] # 0, subscriptions'[q][f] = subscriptions'[q][g]
                 PROVE  f = g
      BY DEF OneConsumerEach
    <3>1. CASE q = p /\ (f = h \/ g = h)
      BY <2>2, <2>3, <3>1
    <3>2. CASE ~(q = p /\ (f = h \/ g = h))
      <4>1. subscriptions'[q][f] = subscriptions[q][f] /\ subscriptions'[q][g] = subscriptions[q][g]
        BY <2>3, <3>2
      <4>2. QED
        BY <1>1, <4>1 DEF RoomSound, OneConsumerEach
    <3>3. QED
      BY <3>1, <3>2
  <2>7. QED
    BY <1>1, <1>2, <2>4, <2>5, <2>6, SoundOnceMoved DEF RoomSound, FlowsAreReal
<1>7. QED
  BY <1>5, <1>6

LEMMA OtherSound ==
    ASSUME SerialInv, NEW t \in Slots, Sound(task[t]),
           Enter(t) \/ RemoveAbsent(t) \/ Touch(t) \/ Share(t) \/ GiveUp(t)
    PROVE  RoomSound' /\ (task'[t] # Idle => Sound(task[t])')
<1>1. task[t] \in Jobs /\ TypeOK /\ RoomSound
  BY Working DEF Enter, RemoveAbsent, Touch, Share, GiveUp, SerialInv
<1>2. UNCHANGED <<participants, publications, subscriptions, producers, consumers>>
  BY DEF Enter, RemoveAbsent, Touch, Share, GiveUp, roomVars, engineVars
<1>3. RoomSound'
  BY <1>1, <1>2, RoomSoundKept
<1>4. \/ Finish(t) \/ Goto(t, "remove") \/ Goto(t, "plan")
      \/ Goto(t, "insert") /\ task[t].op = "join" /\ task[t].who \notin participants'
  BY <1>2 DEF Enter, RemoveAbsent, Touch, Share, GiveUp, Sound, Joining
<1>5. QED
  BY <1>1, <1>3, <1>4, SoundOnceMoved

LEMMA SerialStep ==
    ASSUME Serial, SerialInv, [Next]_vars
    PROVE  SerialInv'
<1>1. TypeOK'
  BY TypeStep DEF SerialInv
<1>2. ASSUME NEW t \in Slots, Step(t) PROVE SerialInv'
  <2>1. /\ OneAtATime' /\ Sound(task[t])
        /\ \A u \in Slots : task'[u] # Idle => u = t
    BY <1>2, StillOne
  <2>2. RoomSound' /\ (task'[t] # Idle => Sound(task[t])')
    BY <1>2, <2>1, RemoveSound, UnpublishSound, CleanSound, InsertSound, MigrationSound,
       EngineSound, RecordSound, OtherSound
    DEF Step
  <2>3. QED
    BY <1>1, <2>1, <2>2 DEF SerialInv
<1>3. ASSUME NEW t \in Slots, NEW op \in AllOps, NEW p, NEW f,
             task' = [task EXCEPT ![t] = Job(op, p, f)],
             \A u \in Slots : task[u] = Idle,
             doomed' # {} => t = Evictor,
             UNCHANGED <<roomVars, engineVars>>
      PROVE  SerialInv'
  <2>1. RoomSound'
    BY <1>3, RoomSoundKept DEF SerialInv, roomVars, engineVars
  <2>2. task'[t] = Job(op, p, f) /\ \A u \in Slots : u # t => task'[u] = Idle
    BY <1>3 DEF SerialInv, TypeOK
  <2>3. OneAtATime'
    <3>1. Evictor \notin Tasks /\ Tasks \subseteq Slots
      BY SfuAssumption DEF Slots
    <3>2. QED
      BY <1>3, <2>2, <3>1 DEF OneAtATime
  <2>4. Sound(Job(op, p, f))'
    <3>1. /\ Job(op, p, f).op = op
          /\ Job(op, p, f).pc = FirstStep(op)
      BY DEF Job
    <3>2. /\ FirstStep(op) \in {"enter", "remove", "lookup", "plan", "share"}
          /\ FirstStep(op) = "enter" => op = "join"
          /\ FirstStep(op) = "lookup" => op \in {"publish", "subscribe"}
      BY DEF FirstStep, AllOps
    <3> HIDE DEF FirstStep
    <3>3. QED
      BY <3>1, <3>2 DEF Sound, Joining, Closing, Moving, Streaming
  <2>5. QED
    BY <1>1, <2>1, <2>2, <2>3, <2>4 DEF SerialInv
<1>4. ASSUME NEW p \in Participants, Evict(p) PROVE SerialInv'
  <2>1. \A u \in Slots : task[u] = Idle
    BY <1>4 DEF Evict, SerialInv, OneAtATime, Slots
  <2>2. QED
    BY <1>3, <1>4, <2>1 DEF Evict, AllOps, Slots
<1>5. ASSUME NEW t \in Tasks, NEW op \in Ops, NEW p \in Participants,
             NEW f \in Flows \cup {NoFlow}, Request(t, op, p, f)
      PROVE  SerialInv'
  <2>1. \A u \in Slots : task[u] = Idle
    BY <1>5 DEF Request, Quiet, Busy
  <2>2. doomed' = {}
    BY <1>5 DEF Request, Quiet
  <2>3. QED
    BY <1>3, <1>5, <2>1, <2>2, SfuAssumption DEF Request, Slots
<1>6. ASSUME UNCHANGED <<participants, pair, publications, subscriptions, engineVars, task>>,
             OneAtATime'
      PROVE  SerialInv'
  <2>1. RoomSound'
    BY <1>6, RoomSoundKept DEF SerialInv, engineVars
  <2>2. Missing' = Missing
    BY <1>6 DEF Missing
  <2>3. ASSUME NEW t \in Slots, task'[t] # Idle PROVE Sound(task[t])'
    <3>1. Sound(task[t])
      BY <1>6, <2>3 DEF SerialInv
    <3>2. QED
      BY <1>6, <2>2, <3>1 DEF Sound, Joining, Closing, Moving, Streaming, engineVars
  <2>4. QED
    BY <1>1, <1>6, <2>1, <2>3 DEF SerialInv
<1>7. ASSUME NEW p \in Participants, Heartbeat(p) \/ Age(p) PROVE SerialInv'
  BY <1>6, <1>7 DEF Heartbeat, Age, OneAtATime, SerialInv
<1>8. CASE Scan
  <2>1. \A u \in Slots : task[u] = Idle
    BY <1>8 DEF Scan, Quiet, Busy
  <2>2. QED
    BY <1>6, <1>8, <2>1 DEF Scan, OneAtATime, Slots, roomVars
<1>9. CASE UNCHANGED vars
  BY <1>6, <1>9 DEF vars, engineVars, OneAtATime, SerialInv
<1>10. QED
  BY <1>2, <1>4, <1>5, <1>7, <1>8, <1>9 DEF Next

LEMMA RosterUnmoved ==
    ASSUME UNCHANGED <<participants, pair, publications, subscriptions, router>>
    PROVE  UNCHANGED Roster!vars
BY DEF Roster!vars

\* A removal is a departure.
LEMMA RemoveIsLeave ==
    ASSUME SerialInv, NEW t \in Slots, Remove(t)
    PROVE  \E p \in Participants : Roster!Leave(p)
<1> DEFINE p == task[t].who
           gone == {f \in publications : f[1] = p}
           heard == {h \in Participants \X Flows : subscriptions[h[1]][h[2]] # 0}
           wired == {q \in participants : pair[q] # 0}
           Owner == [f \in Flows |-> f[1]]
<1>1. /\ TypeOK /\ RoomSound /\ publications \subseteq Flows
      /\ participants \subseteq Participants
      /\ pair \in [Participants -> 0 .. MaxPairs]
  BY DEF SerialInv, TypeOK, RoomTypeOK
<1>2. /\ p \in participants
      /\ participants' = participants \ {p}
      /\ pair' = [pair EXCEPT ![p] = 0]
      /\ publications' = IF participants = {p} THEN {} ELSE publications \ gone
      /\ subscriptions' = [q \in Participants |-> [f \in Flows |->
              IF q = p \/ f \in gone THEN 0 ELSE subscriptions[q][f]]]
      /\ router' = IF participants = {p} THEN 0 ELSE router
  BY DEF Remove
<1>3. participants = {p} => publications = gone
  BY <1>1 DEF RoomSound, NoGhostPublication
<1>4. publications' = publications \ gone
  BY <1>2, <1>3
<1>5. gone = {f \in publications : Owner[f] = p}
  BY <1>1
<1>6. (router' # 0) = ((router # 0) /\ participants # {p})
  BY <1>2
<1> HIDE DEF p, Owner
<1>7. {q \in participants' : pair'[q] # 0} = wired \ {p}
  BY <1>1, <1>2
<1>8. heard' = {h \in heard : h[1] # p /\ h[2] \notin gone}
  <2> HIDE DEF gone
  <2>1. ASSUME NEW h \in Participants \X Flows
        PROVE  subscriptions'[h[1]][h[2]] =
                 IF h[1] = p \/ h[2] \in gone THEN 0 ELSE subscriptions[h[1]][h[2]]
    BY <1>2
  <2>2. QED
    BY <2>1
<1>9. QED
  BY <1>1, <1>2, <1>4, <1>5, <1>6, <1>7, <1>8 DEF Roster!Leave, Roster!OwnedBy, Owner

LEMMA UnpublishIsWithdraw ==
    ASSUME SerialInv, NEW t \in Slots, Unpublish(t)
    PROVE  (\E f \in Flows : Roster!Withdraw(f)) \/ UNCHANGED Roster!vars
<1> DEFINE f == task[t].flow
           heard == {h \in Participants \X Flows : subscriptions[h[1]][h[2]] # 0}
<1>1. /\ publications \subseteq Flows
      /\ subscriptions \in [Participants -> [Flows -> 0 .. MaxFlows]]
      /\ UNCHANGED <<participants, pair, router>>
  BY DEF SerialInv, TypeOK, RoomTypeOK, Unpublish
<1>2. CASE UNCHANGED <<publications, subscriptions>>
  BY <1>1, <1>2, RosterUnmoved
<1>3. CASE ~UNCHANGED <<publications, subscriptions>>
  <2>1. /\ f \in publications
        /\ publications' = publications \ {f}
        /\ subscriptions' = [q \in Participants |-> [subscriptions[q] EXCEPT ![f] = 0]]
    BY <1>3 DEF Unpublish
  <2> HIDE DEF f
  <2>2. f \in Flows
    BY <1>1, <2>1
  <2>3. ASSUME NEW q \in Participants, NEW g \in Flows
        PROVE  subscriptions'[q][g] = IF g = f THEN 0 ELSE subscriptions[q][g]
    <3>1. subscriptions[q] \in [Flows -> 0 .. MaxFlows]
      BY <1>1
    <3>2. subscriptions'[q] = [subscriptions[q] EXCEPT ![f] = 0]
      BY <2>1
    <3>3. QED
      BY <3>1, <3>2
  <2>4. heard' = {h \in heard : h[2] # f}
    BY <2>3
  <2>5. PICK g \in Flows : g = f
    BY <2>2
  <2>6. Roster!Withdraw(g)
    BY <1>1, <2>1, <2>4, <2>5 DEF Roster!Withdraw
  <2>7. QED
    BY <2>6
<1>4. QED
  BY <1>2, <1>3

LEMMA InsertIsJoin ==
    ASSUME SerialInv, IsFiniteSet(participants), NEW t \in Slots, Insert(t), Sound(task[t])
    PROVE  (\E p \in Participants : Roster!Join(p)) \/ UNCHANGED Roster!vars
<1> DEFINE p == task[t].who
           heard == {h \in Participants \X Flows : subscriptions[h[1]][h[2]] # 0}
           wired == {q \in participants : pair[q] # 0}
<1>1. /\ participants \subseteq Participants
      /\ pair \in [Participants -> 0 .. MaxPairs]
      /\ subscriptions \in [Participants -> [Flows -> 0 .. MaxFlows]]
      /\ \A q \in Participants \ participants :
            \A f \in Flows : subscriptions[q][f] = 0
  BY DEF SerialInv, TypeOK, RoomTypeOK
<1>2. p \in Participants
  BY Working DEF Insert, SerialInv, Jobs
<1>3. p \notin participants
  BY DEF Insert, Sound, Joining
<1>4. CASE UNCHANGED roomVars
  BY <1>4, RosterUnmoved DEF roomVars
<1>5. CASE ~UNCHANGED roomVars
  <2>1. /\ ~(Cardinality(participants) >= MaxSeats)
        /\ participants' = participants \cup {p}
        /\ pair' = [pair EXCEPT ![p] = 0]
        /\ subscriptions' = [subscriptions EXCEPT ![p] = NoSubscription]
        /\ UNCHANGED <<publications, router>>
    BY <1>5 DEF Insert, Full
  <2> HIDE DEF p
  <2>2. \A q \in Participants, f \in Flows : subscriptions'[q][f] = subscriptions[q][f]
    BY <1>1, <1>2, <1>3, <2>1 DEF NoSubscription
  <2>3. heard' = heard
    BY <2>2
  <2>4. {q \in participants' : pair'[q] # 0} = wired
    BY <1>1, <1>2, <1>3, <2>1
  <2>5. Cardinality(participants) \in Nat /\ MaxSeats \in Nat
    BY FS_CardinalityType, SfuAssumption
  <2>6. Cardinality(participants) < MaxSeats
    BY <2>1, <2>5
  <2>7. PICK q \in Participants : q = p
    BY <1>2
  <2>8. Roster!Cardinality(participants) = Cardinality(participants)
    BY DEF Cardinality, Roster!Cardinality
  <2>9. Roster!Join(q)
    BY <1>3, <2>1, <2>3, <2>4, <2>6, <2>7, <2>8 DEF Roster!Join
  <2>10. QED
    BY <2>9
<1>6. QED
  BY <1>4, <1>5

\* A migration is committed for everybody at once.
LEMMA CommitIsMigrate ==
    ASSUME SerialInv, NEW t \in Slots, Commit(t), Sound(task[t])
    PROVE  Roster!Migrate
<1> DEFINE heard == {h \in Participants \X Flows : subscriptions[h[1]][h[2]] # 0}
<1>1. /\ participants \subseteq Participants
      /\ task[t].router # 0
      /\ \A p \in participants : pair[p] = 0 => task[t].got[p] # 0
  BY DEF SerialInv, TypeOK, RoomTypeOK, Commit, Sound, Moving
<1>2. /\ participants # {}
      /\ router' = IF router = 0 THEN task[t].router ELSE router
      /\ pair' = [p \in Participants |->
            IF p \in participants /\ pair[p] = 0 THEN task[t].got[p] ELSE pair[p]]
      /\ UNCHANGED <<participants, subscriptions, publications>>
  BY DEF Commit
<1>3. router' # 0
  BY <1>1, <1>2
<1>4. {p \in participants' : pair'[p] # 0} = participants
  BY <1>1, <1>2
<1>5. heard' = heard
  BY <1>2
<1>6. QED
  BY <1>2, <1>3, <1>4, <1>5 DEF Roster!Migrate

LEMMA RecordIsPublish ==
    ASSUME SerialInv, NEW t \in Slots, RecordPublication(t), Sound(task[t])
    PROVE  \E f \in Flows : Roster!Publish(f)
<1> DEFINE f == <<task[t].who, task[t].made>>
           Owner == [g \in Flows |-> g[1]]
<1>1. task[t] \in Jobs /\ Equipped(task[t]) /\ participants \subseteq Participants
  BY Working DEF RecordPublication, SerialInv, TypeOK, RoomTypeOK
<1>2. f \in Flows
  BY <1>1 DEF RecordPublication, Jobs, Equipped, Flows
<1>3. /\ task[t].who \in participants /\ pair[task[t].who] # 0
      /\ f \notin publications
  BY DEF RecordPublication, Publishing, Sound, Streaming
<1>4. /\ publications' = publications \cup {f}
      /\ UNCHANGED <<participants, pair, subscriptions, router>>
  BY <1>3 DEF RecordPublication
<1>5. Owner[f] = task[t].who
  BY <1>2
<1> HIDE DEF f, Owner
<1>6. PICK g \in Flows : g = f
  BY <1>2
<1>7. Roster!Publish(g)
  BY <1>3, <1>4, <1>5, <1>6 DEF Roster!Publish, Owner
<1>8. QED
  BY <1>7

LEMMA RecordIsSubscribe ==
    ASSUME SerialInv, NEW t \in Slots, RecordSubscription(t), Sound(task[t])
    PROVE  \E p \in Participants, f \in Flows : Roster!Subscribe(p, f)
<1> DEFINE p == task[t].who
           f == task[t].flow
           heard == {h \in Participants \X Flows : subscriptions[h[1]][h[2]] # 0}
<1>1. /\ task[t] \in Jobs /\ Equipped(task[t])
      /\ participants \subseteq Participants /\ publications \subseteq Flows
      /\ subscriptions \in [Participants -> [Flows -> 0 .. MaxFlows]]
  BY Working DEF RecordSubscription, SerialInv, TypeOK, RoomTypeOK
<1>2. /\ p \in participants /\ pair[p] # 0 /\ f \in publications
      /\ task[t].made \in FlowIds
  BY <1>1 DEF RecordSubscription, Sound, Streaming, Equipped
<1>3. /\ subscriptions' = [subscriptions EXCEPT ![p][f] = task[t].made]
      /\ UNCHANGED <<participants, pair, publications, router>>
  BY <1>2 DEF RecordSubscription
<1>4. task[t].made # 0
  BY <1>2, SfuAssumption DEF FlowIds
<1> HIDE DEF p, f
<1>0. p \in Participants /\ f \in Flows
  BY <1>1, <1>2
<1>5. ASSUME NEW q \in Participants, NEW g \in Flows
      PROVE  subscriptions'[q][g] # 0 <=> subscriptions[q][g] # 0 \/ (q = p /\ g = f)
  BY <1>1, <1>2, <1>3, <1>4
<1>6. heard' = heard \cup {<<p, f>>}
  BY <1>1, <1>2, <1>5
<1>7. PICK q \in Participants, g \in Flows : q = p /\ g = f
  BY <1>0
<1>8. Roster!Subscribe(q, g)
  BY <1>2, <1>3, <1>6, <1>7 DEF Roster!Subscribe
<1>9. QED
  BY <1>8

LEMMA RosterInit == Init => Roster!Init
<1> SUFFICES ASSUME Init PROVE Roster!Init
  OBVIOUS
<1>1. \A p \in Participants, f \in Flows : subscriptions[p][f] = 0
  BY DEF Init, NoSubscription
<1>2. {h \in Participants \X Flows : subscriptions[h[1]][h[2]] # 0} = {}
  BY <1>1
<1>3. QED
  BY <1>2 DEF Init, Roster!Init

LEMMA RosterStep ==
    ASSUME SerialInv, IsFiniteSet(participants), [Next]_vars
    PROVE  [Roster!Next]_(Roster!vars)
<1>1. ASSUME NEW t \in Slots, Step(t) PROVE [Roster!Next]_(Roster!vars)
  <2>1. Sound(task[t])
    BY <1>1, StillOne
  <2>2. CASE Remove(t)
    BY <2>2, RemoveIsLeave DEF Roster!Next
  <2>3. CASE Unpublish(t)
    BY <2>3, UnpublishIsWithdraw DEF Roster!Next
  <2>4. CASE Insert(t)
    BY <2>1, <2>4, InsertIsJoin DEF Roster!Next
  <2>5. CASE Commit(t)
    BY <2>1, <2>5, CommitIsMigrate DEF Roster!Next
  <2>6. CASE RecordPublication(t)
    BY <2>1, <2>6, RecordIsPublish DEF Roster!Next
  <2>7. CASE RecordSubscription(t)
    BY <2>1, <2>7, RecordIsSubscribe DEF Roster!Next
  <2>8. CASE UNCHANGED <<participants, pair, publications, subscriptions, router>>
    BY <2>8, RosterUnmoved
  <2>9. QED
    BY <1>1, <2>2, <2>3, <2>4, <2>5, <2>6, <2>7, <2>8
    DEF Step, Enter, RemoveAbsent, Clean, Touch, Share, Plan, CreateRouter, Provision,
        ProvisionFails, CommitLost, CommitGone, Lookup, Produce, Consume, EngineRefuses,
        GiveUp, roomVars
<1>2. CASE UNCHANGED <<participants, pair, publications, subscriptions, router>>
  BY <1>2, RosterUnmoved
<1>3. QED
  BY <1>1, <1>2 DEF Next, Request, Heartbeat, Age, Evict, Scan, vars, roomVars

\* While the requests of the room follow one another, whatever fails, a flow
\* that is offered or received is there: its owner in the room, its objects in
\* the engine.
THEOREM OfferedFlowsAreReal == ASSUME Serial PROVE Spec => []FlowsAreReal
<1>1. SerialInv /\ [Next]_vars => SerialInv'
  BY SerialStep
<1>2. SerialInv => FlowsAreReal
  BY DEF SerialInv, RoomSound
<1>3. QED
  BY SerialInit, <1>1, <1>2, PTL DEF Spec

\* Under the same hypothesis the clients see every request take effect at once.
THEOREM RoomIsARoster == ASSUME Serial PROVE Spec => ImplementsRoster
<1>1. SerialInv /\ [Next]_vars => SerialInv'
  BY SerialStep
<1>2. SerialInv /\ SeatInv /\ [Next]_vars => [Roster!Next]_(Roster!vars)
  BY RosterStep DEF SeatInv
<1>3. QED
  BY SerialInit, RosterInit, SeatInvHolds, <1>1, <1>2, PTL DEF Spec, ImplementsRoster, Roster!Spec

\* However requests overlap, the state keeps its types.
THEOREM ServiceTyped == Spec => []TypeOK
BY TypeInit, TypeStep, PTL DEF Spec

-----------------------------------------------------------------------------
(* When, besides, the engine never fails and no client asks twice for a    *)
(* flow, the engine holds what the room refers to, where it refers to it.  *)

HeldPairs == {<<p, pair[p]>> : p \in participants} \cap Pairs

\* The engine holds what the room refers to, and the router r, the pairs xs,
\* the producers fs and the consumers cs.
Balance(r, xs, fs, cs) ==
    /\ routers = {router, r} \ {0}
    /\ {y \in Pairs : transports[y] # 0} = HeldPairs \cup xs
    /\ {f \in Flows : producers[f] # 0} = publications \cup fs
    /\ consumers = ConsumersOf(Participants, {}) \cup cs

\* What the room does not refer to any more, or not yet: what a removal has
\* still to close, what a request has made and not recorded.
Account(j) ==
    Balance(IF j.pc = "clean" THEN j.trash.router
            ELSE IF j.pc \in {"provision", "commit"} /\ j.need THEN j.router ELSE 0,
            IF j.pc = "clean" THEN j.trash.pairs
            ELSE IF j.pc = "commit" THEN {<<p, j.got[p]>> : p \in Missing} ELSE {},
            IF j.pc = "clean" THEN j.trash.producers
            ELSE IF j.pc = "record" /\ j.op # "subscribe" THEN {<<j.who, j.made>>} ELSE {},
            IF j.pc = "clean" THEN j.trash.consumers
            ELSE IF j.pc = "record" /\ j.op = "subscribe" THEN {<<j.who, j.made>>} ELSE {})

\* Transports live on the router of the room; in mesh there are none.
Wired ==
    /\ \A p \in participants : router # 0 /\ pair[p] # 0 => transports[<<p, pair[p]>>] = router
    /\ \A p \in participants : router = 0 => pair[p] = 0

Whole(j) ==
    /\ j.pc = "clean" =>
          /\ j.trash.router # 0 => router = 0
          /\ \A y \in j.trash.pairs : y[1] \notin participants
    /\ j.pc \in {"create", "provision", "commit"} => participants # {}
    /\ j.pc = "create" => j.need /\ router = 0
    /\ j.pc \in {"provision", "commit"} =>
          (j.need <=> router = 0) /\ (router # 0 => j.router = router)
    /\ j.pc = "commit" =>
          \A p \in Missing : j.got[p] \in PairIds /\ transports[<<p, j.got[p]>>] = j.router
    /\ router # 0 /\ Missing # {} => j.pc \in {"plan", "provision", "commit"}
    /\ j.op = "subscribe" => subscriptions[j.who][j.flow] = 0
    /\ \A p \in participants :
          lastSeen[p] = "never" =>
             /\ j.op = "join" /\ p = j.who
             /\ j.pc \in {"plan", "create", "provision", "commit", "touch"}

AtRest ==
    /\ Balance(0, {}, {}, {})
    /\ router # 0 => Missing = {}
    /\ \A p \in participants : lastSeen[p] # "never"

Booked(t) ==
    /\ Wired
    /\ task[t] = Idle => AtRest
    /\ task[t] # Idle => Account(task[t]) /\ Whole(task[t])

ExactInv ==
    /\ SerialInv
    /\ Wired
    /\ Busy = {} => AtRest
    /\ \A t \in Slots : task[t] # Idle => Booked(t)

LEMMA ExactInit == Init => ExactInv
<1> SUFFICES ASSUME Init PROVE ExactInv
  OBVIOUS
<1>1. /\ participants = {} /\ publications = {} /\ consumers = {} /\ routers = {} /\ router = 0
      /\ \A p \in Participants, f \in Flows : subscriptions[p][f] = 0
      /\ \A x \in Pairs : transports[x] = 0
      /\ \A f \in Flows : producers[f] = 0
      /\ \A t \in Slots : task[t] = Idle
  BY DEF Init, NoSubscription
<1>2. HeldPairs = {} /\ ConsumersOf(Participants, {}) = {}
  BY <1>1 DEF HeldPairs, ConsumersOf
<1>3. Balance(0, {}, {}, {})
  BY <1>1, <1>2 DEF Balance
<1>4. QED
  BY <1>1, <1>3, SerialInit DEF ExactInv, AtRest, Wired

\* The places where a request holds nothing and leaves nobody half moved in.
Calm == {"enter", "remove", "insert", "share", "lookup", "engine"}

LEMMA CalmIsRest ==
    ASSUME NEW t \in Slots, Booked(t), task[t] # Idle, task[t].pc \in Calm
    PROVE  AtRest /\ (task[t].op = "subscribe" => subscriptions[task[t].who][task[t].flow] = 0)
<1>1. Balance(0, {}, {}, {})
  BY DEF Booked, Account, Calm
<1>2. QED
  BY <1>1 DEF Booked, Whole, AtRest, Calm

\* A job that holds nothing in a room at rest is in order.
LEMMA BookedAtRest ==
    ASSUME NEW t \in Slots, Wired', AtRest',
           task'[t] # Idle => task'[t].pc \in Calm \cup {"plan", "touch"},
           task'[t] # Idle /\ task'[t].op = "subscribe" =>
               subscriptions'[task'[t].who][task'[t].flow] = 0
    PROVE  Booked(t)'
<1>1. CASE task'[t] = Idle
  BY <1>1 DEF Booked
<1>2. CASE task'[t] # Idle
  <2>1. task'[t].pc \in {"enter", "remove", "insert", "share", "lookup", "engine", "plan", "touch"}
    BY <1>2 DEF Calm
  <2>2. Account(task[t])'
    BY <2>1 DEF Account, AtRest
  <2>3. Whole(task[t])'
    BY <1>2, <2>1 DEF Whole, AtRest
  <2>4. QED
    BY <1>2, <2>2, <2>3 DEF Booked
<1>3. QED
  BY <1>1, <1>2

LEMMA RestKept ==
    ASSUME AtRest, Wired,
           UNCHANGED <<participants, pair, lastSeen, subscriptions, publications, router>>,
           UNCHANGED engineVars
    PROVE  AtRest' /\ Wired'
<1>1. HeldPairs' = HeldPairs /\ Missing' = Missing
  BY DEF HeldPairs, Missing
<1>2. ConsumersOf(Participants, {})' = ConsumersOf(Participants, {})
  BY DEF ConsumersOf
<1>3. Balance(0, {}, {}, {})'
  BY <1>1, <1>2 DEF AtRest, Balance, engineVars
<1>4. QED
  BY <1>1, <1>3 DEF AtRest, Wired, engineVars

\* The fields a step that only moves a job on leaves alone.
LEMMA MovedFields ==
    ASSUME TypeOK, NEW t \in Slots, task[t] \in Jobs, NEW pc, Goto(t, pc)
    PROVE  /\ task'[t].pc = pc /\ task'[t].op = task[t].op
           /\ task'[t].who = task[t].who /\ task'[t].flow = task[t].flow
           /\ task'[t] # Idle
BY DEF TypeOK, Goto, Jobs, Idle

LEMMA CalmBooked ==
    ASSUME ExactInv, NEW t \in Slots, Booked(t), task[t] \in Jobs,
           \/ Enter(t) \/ RemoveAbsent(t) \/ Share(t) \/ Lookup(t) \/ EngineRefuses(t)
    PROVE  Booked(t)'
<1>1. TypeOK /\ task \in [Slots -> Jobs \cup {Idle}] /\ task[t] # Idle
  BY DEF ExactInv, SerialInv, TypeOK, Jobs, Idle
<1>2. task[t].pc \in Calm
  BY DEF Enter, RemoveAbsent, Share, Lookup, EngineRefuses, Calm
<1>3. AtRest /\ Wired /\ (task[t].op = "subscribe" => subscriptions[task[t].who][task[t].flow] = 0)
  BY <1>1, <1>2, CalmIsRest DEF Booked
<1>4. /\ UNCHANGED <<participants, pair, lastSeen, subscriptions, publications, router>>
      /\ UNCHANGED engineVars
  BY DEF Enter, RemoveAbsent, Share, Lookup, EngineRefuses, roomVars
<1>5. AtRest' /\ Wired'
  BY <1>3, <1>4, RestKept
<1>6. CASE Finish(t)
  <2>1. task'[t] = Idle
    BY <1>1, <1>6 DEF Finish
  <2>2. QED
    BY <1>5, <2>1 DEF Booked
<1>7. ASSUME NEW pc \in {"remove", "insert", "plan"}, Goto(t, pc) PROVE Booked(t)'
  <2>1. /\ task'[t].pc = pc /\ task'[t].op = task[t].op /\ task'[t] # Idle
        /\ task'[t].who = task[t].who /\ task'[t].flow = task[t].flow
    BY <1>1, <1>7, MovedFields
  <2>2. QED
    BY <1>3, <1>4, <1>5, <2>1, BookedAtRest DEF Calm
<1>8. CASE Lookup(t) /\ ~Finish(t)
  <2>1. task' = [task EXCEPT ![t].pc = "engine",
                             ![t].got[task[t].who] = pair[task[t].who]]
    BY <1>8 DEF Lookup
  <2>2. /\ task'[t].pc = "engine" /\ task'[t].op = task[t].op /\ task'[t] # Idle
        /\ task'[t].who = task[t].who /\ task'[t].flow = task[t].flow
    BY <1>1, <2>1 DEF Jobs, Idle
  <2>3. QED
    BY <1>3, <1>4, <1>5, <2>2, BookedAtRest DEF Calm
<1>9. QED
  BY <1>6, <1>7, <1>8 DEF Enter, RemoveAbsent, Share, Lookup, EngineRefuses

LEMMA TouchBooked ==
    ASSUME ExactInv, NEW t \in Slots, Booked(t), task[t] \in Jobs, Touch(t)
    PROVE  Booked(t)'
<1>1. /\ TypeOK /\ task \in [Slots -> Jobs \cup {Idle}] /\ task[t] # Idle
      /\ lastSeen \in [Participants -> {"never", "fresh", "old"}]
      /\ participants \subseteq Participants
  BY DEF ExactInv, SerialInv, TypeOK, RoomTypeOK, Jobs, Idle
<1>2. /\ Balance(0, {}, {}, {}) /\ (router # 0 => Missing = {}) /\ Wired
      /\ \A p \in participants : lastSeen[p] = "never" => p = task[t].who
  BY <1>1 DEF Booked, Account, Whole, Touch
<1>3. /\ lastSeen' = IF task[t].who \in participants
                     THEN [lastSeen EXCEPT ![task[t].who] = "fresh"]
                     ELSE lastSeen
      /\ UNCHANGED <<participants, pair, subscriptions, publications, router>>
      /\ UNCHANGED engineVars
  BY DEF Touch
<1>4. task'[t] = Idle
  BY <1>1 DEF Touch, Finish
<1>5. HeldPairs' = HeldPairs /\ Missing' = Missing
  BY <1>3 DEF HeldPairs, Missing
<1>6. ConsumersOf(Participants, {})' = ConsumersOf(Participants, {})
  BY <1>3 DEF ConsumersOf
<1>7. Balance(0, {}, {}, {})' /\ Wired'
  BY <1>2, <1>3, <1>5, <1>6 DEF Balance, Wired, engineVars
<1>8. \A p \in participants' : lastSeen'[p] # "never"
  BY <1>1, <1>2, <1>3
<1>9. QED
  BY <1>2, <1>3, <1>4, <1>5, <1>7, <1>8 DEF Booked, AtRest

\* The consumers of a set of subscriptions, one by one.
LEMMA Counted ==
    ASSUME NEW s, NEW Y, NEW q, NEW f, <<q, f>> \in Y
    PROVE  <<q, s[q][f]>> \in {<<x[1], s[x[1]][x[2]]>> : x \in Y}
<1>1. <<q, f>>[1] = q /\ <<q, f>>[2] = f
  OBVIOUS
<1>2. QED
  BY <1>1, Zenon

LEMMA InsertBooked ==
    ASSUME ExactInv, NEW t \in Slots, Booked(t), task[t] \in Jobs, Sound(task[t]), Insert(t)
    PROVE  Booked(t)'
<1> DEFINE p == task[t].who
<1>1. /\ TypeOK /\ task \in [Slots -> Jobs \cup {Idle}] /\ task[t] # Idle
      /\ lastSeen \in [Participants -> {"never", "fresh", "old"}]
      /\ pair \in [Participants -> 0 .. MaxPairs]
      /\ subscriptions \in [Participants -> [Flows -> 0 .. MaxFlows]]
      /\ participants \subseteq Participants
      /\ \A q \in Participants \ participants :
            \A f \in Flows : subscriptions[q][f] = 0
  BY DEF ExactInv, SerialInv, TypeOK, RoomTypeOK, Jobs, Idle
<1>2. /\ AtRest /\ Wired
      /\ task[t].op = "join" /\ p \notin participants /\ p \in Participants
  BY <1>1, CalmIsRest DEF Insert, Calm, Booked, Sound, Joining, Jobs
<1>3. CASE UNCHANGED roomVars /\ Finish(t)
  <2>1. AtRest' /\ Wired'
    BY <1>2, <1>3, RestKept DEF Insert, roomVars
  <2>2. task'[t] = Idle
    BY <1>1, <1>3 DEF Finish
  <2>3. QED
    BY <2>1, <2>2 DEF Booked
<1>4. CASE ~(UNCHANGED roomVars /\ Finish(t))
  <2>1. /\ participants' = participants \cup {p}
        /\ pair' = [pair EXCEPT ![p] = 0]
        /\ lastSeen' = [lastSeen EXCEPT ![p] = "never"]
        /\ subscriptions' = [subscriptions EXCEPT ![p] = NoSubscription]
        /\ UNCHANGED <<publications, screensharing, router>>
        /\ UNCHANGED engineVars
    BY <1>4 DEF Insert
  <2>2. PICK pc \in {"plan", "touch"} : Goto(t, pc) /\ (router # 0 => pc = "plan")
    BY <1>4 DEF Insert, NeedsSfu
  <2>3. /\ task'[t].pc = pc /\ task'[t].op = "join" /\ task'[t] # Idle
        /\ task'[t].who = p
    BY <1>1, <1>2, <2>2, MovedFields
  <2> HIDE DEF p
  <2>4. \A q \in Participants, f \in Flows : subscriptions'[q][f] = subscriptions[q][f]
    BY <1>1, <1>2, <2>1 DEF NoSubscription
  <2>5. ConsumersOf(Participants, {})' = ConsumersOf(Participants, {})
    BY <2>4 DEF ConsumersOf
  <2>6. HeldPairs' = HeldPairs
    <3>1. <<p, pair'[p]>> \notin Pairs
      BY <1>1, <1>2, <2>1, SfuAssumption DEF Pairs, PairIds
    <3>2. \A q \in participants : pair'[q] = pair[q]
      BY <1>1, <1>2, <2>1
    <3>3. QED
      BY <2>1, <3>1, <3>2 DEF HeldPairs
  <2>7. Balance(0, {}, {}, {})'
    BY <1>2, <2>1, <2>5, <2>6 DEF AtRest, Balance, engineVars
  <2>8. Wired'
    BY <1>1, <1>2, <2>1 DEF Wired, engineVars
  <2>9. Account(task[t])'
    BY <2>3, <2>7 DEF Account
  <2>10. \A q \in participants' : lastSeen'[q] = "never" => q = p
    BY <1>1, <1>2, <2>1 DEF AtRest
  <2>11. Whole(task[t])'
    BY <2>1, <2>2, <2>3, <2>10 DEF Whole
  <2>12. QED
    BY <2>3, <2>8, <2>9, <2>11 DEF Booked
<1>5. QED
  BY <1>3, <1>4

LEMMA RemoveBooked ==
    ASSUME ExactInv, NEW t \in Slots, Booked(t), task[t] \in Jobs, Remove(t)
    PROVE  Booked(t)'
<1> DEFINE p == task[t].who
           gone == {f \in publications : f[1] = p}
           last == participants = {p}
           x == [producers |-> gone, consumers |-> ConsumersOf({p}, gone),
                 pairs |-> {<<p, pair[p]>>} \cap Pairs,
                 router |-> IF last THEN router ELSE 0]
<1>1. /\ TypeOK /\ task \in [Slots -> Jobs \cup {Idle}] /\ task[t] # Idle
      /\ lastSeen \in [Participants -> {"never", "fresh", "old"}]
      /\ pair \in [Participants -> 0 .. MaxPairs]
      /\ participants \subseteq Participants
      /\ NoGhostPublication
  BY DEF ExactInv, SerialInv, TypeOK, RoomTypeOK, Jobs, Idle, RoomSound
<1>2. AtRest /\ Wired /\ p \in participants /\ task[t].op \in {"join", "leave"}
  BY <1>1, CalmIsRest DEF Remove, Calm, Booked
<1>3. /\ participants' = participants \ {p}
      /\ pair' = [pair EXCEPT ![p] = 0]
      /\ lastSeen' = [lastSeen EXCEPT ![p] = "never"]
      /\ publications' = IF last THEN {} ELSE publications \ gone
      /\ router' = IF last THEN 0 ELSE router
      /\ subscriptions' = [q \in Participants |-> [f \in Flows |->
              IF q = p \/ f \in gone THEN 0 ELSE subscriptions[q][f]]]
      /\ task' = [task EXCEPT ![t].pc = "clean", ![t].trash = x]
      /\ UNCHANGED engineVars
  BY DEF Remove
<1>4. /\ task'[t].pc = "clean" /\ task'[t].op = task[t].op
      /\ task'[t].trash.producers = gone
      /\ task'[t].trash.consumers = ConsumersOf({p}, gone)
      /\ task'[t].trash.pairs = {<<p, pair[p]>>} \cap Pairs
      /\ task'[t].trash.router = (IF last THEN router ELSE 0)
      /\ task'[t] # Idle
  <2>1. x.producers = gone /\ x.consumers = ConsumersOf({p}, gone)
    OBVIOUS
  <2>2. x.pairs = {<<p, pair[p]>>} \cap Pairs /\ x.router = (IF last THEN router ELSE 0)
    OBVIOUS
  <2> HIDE DEF x, p, gone, last
  <2>3. /\ task'[t].pc = "clean" /\ task'[t].op = task[t].op
        /\ task'[t].trash = x /\ task'[t] # Idle
    BY <1>1, <1>3 DEF Jobs, Idle
  <2>4. QED
    BY <2>1, <2>2, <2>3
<1> HIDE DEF x
<1>5. last => publications = gone
  BY <1>1 DEF NoGhostPublication
<1>6. publications' \cup gone = publications
  BY <1>3, <1>5
<1> HIDE DEF gone
<1>7. HeldPairs' \cup ({<<p, pair[p]>>} \cap Pairs) = HeldPairs
  <2> HIDE DEF p
  <2>1. \A q \in participants' : pair'[q] = pair[q]
    BY <1>1, <1>3
  <2>2. HeldPairs' = {<<q, pair[q]>> : q \in participants \ {p}} \cap Pairs
    BY <1>3, <2>1 DEF HeldPairs
  <2>3. QED
    BY <1>2, <2>2 DEF HeldPairs
<1>8. {router', IF last THEN router ELSE 0} \ {0} = {router, 0} \ {0}
  BY <1>3
<1> HIDE DEF last, p
<1>9. ConsumersOf(Participants, {})' \cup ConsumersOf({p}, gone) = ConsumersOf(Participants, {})
  <2>1. ASSUME NEW c, c \in ConsumersOf(Participants, {})'
        PROVE  c \in ConsumersOf(Participants, {})
    BY <1>3, <2>1 DEF ConsumersOf
  <2>2. ASSUME NEW c, c \in ConsumersOf({p}, gone)
        PROVE  c \in ConsumersOf(Participants, {})
    BY <2>2 DEF ConsumersOf
  <2>3. ASSUME NEW q \in Participants, NEW f \in Flows, subscriptions[q][f] # 0,
               ~(q = p \/ f \in gone)
        PROVE  <<q, subscriptions[q][f]>> \in ConsumersOf(Participants, {})'
    <3>1. subscriptions'[q][f] = subscriptions[q][f]
      BY <1>3, <2>3
    <3> DEFINE Y == {y \in Participants \X Flows :
                        subscriptions'[y[1]][y[2]] # 0 /\ (y[1] \in Participants \/ y[2] \in {})}
    <3>2. <<q, f>> \in Y
      BY <2>3, <3>1
    <3>3. ConsumersOf(Participants, {})' = {<<z[1], subscriptions'[z[1]][z[2]]>> : z \in Y}
      BY DEF ConsumersOf
    <3> HIDE DEF Y
    <3>4. QED
      BY <3>1, <3>2, <3>3, Counted
  <2>4. ASSUME NEW c, c \in ConsumersOf(Participants, {})
        PROVE  c \in ConsumersOf(Participants, {})' \cup ConsumersOf({p}, gone)
    <3>1. PICK q \in Participants, f \in Flows :
             subscriptions[q][f] # 0 /\ c = <<q, subscriptions[q][f]>>
      BY <2>4 DEF ConsumersOf
    <3>2. CASE q = p \/ f \in gone
      <4>1. q \in {p} \/ f \in gone
        BY <3>2
      <4> DEFINE Y == {y \in Participants \X Flows :
                          subscriptions[y[1]][y[2]] # 0 /\ (y[1] \in {p} \/ y[2] \in gone)}
      <4>2. <<q, f>> \in Y
        BY <3>1, <4>1
      <4>3. ConsumersOf({p}, gone) = {<<z[1], subscriptions[z[1]][z[2]]>> : z \in Y}
        BY DEF ConsumersOf
      <4> HIDE DEF Y
      <4>4. QED
        BY <3>1, <4>2, <4>3, Counted
    <3>3. CASE ~(q = p \/ f \in gone)
      BY <2>3, <3>1, <3>3
    <3>4. QED
      BY <3>2, <3>3
  <2>5. QED
    BY <2>1, <2>2, <2>4
<1>10. Balance(0, {}, {}, {})
  BY <1>2 DEF AtRest
<1>11. Account(task[t])'
  <2>1. /\ routers' = {router', task'[t].trash.router} \ {0}
        /\ {y \in Pairs : transports'[y] # 0} = HeldPairs' \cup task'[t].trash.pairs
        /\ {f \in Flows : producers'[f] # 0} = publications' \cup task'[t].trash.producers
        /\ consumers' = ConsumersOf(Participants, {})' \cup task'[t].trash.consumers
    BY <1>3, <1>4, <1>6, <1>7, <1>8, <1>9, <1>10 DEF Balance, engineVars
  <2>2. QED
    BY <1>4, <2>1 DEF Account, Balance
<1>12. Wired'
  BY <1>1, <1>2, <1>3 DEF Wired, engineVars, last
<1>13. Whole(task[t])'
  <2>1. Missing' \subseteq Missing
    BY <1>1, <1>3 DEF Missing
  <2>2. task'[t].trash.router # 0 => router' = 0
    BY <1>3, <1>4
  <2>3. router' # 0 => Missing' = {}
    BY <1>2, <1>3, <2>1 DEF AtRest
  <2>4. \A q \in participants' : lastSeen'[q] # "never"
    BY <1>1, <1>2, <1>3 DEF AtRest
  <2>5. \A y \in task'[t].trash.pairs : y[1] \notin participants'
    <3>1. \A y \in {<<p, pair[p]>>} \cap Pairs : y[1] = p
      OBVIOUS
    <3>2. p \notin participants'
      BY <1>3
    <3>3. QED
      BY <1>4, <3>1, <3>2
  <2>6. QED
    BY <1>2, <1>4, <2>2, <2>3, <2>4, <2>5 DEF Whole
<1>14. QED
  BY <1>4, <1>11, <1>12, <1>13 DEF Booked

LEMMA UnpublishBooked ==
    ASSUME ExactInv, NEW t \in Slots, Booked(t), task[t] \in Jobs, Unpublish(t)
    PROVE  Booked(t)'
<1> DEFINE h == task[t].flow
           x == [producers |-> {h}, consumers |-> ConsumersOf({}, {h}),
                 pairs |-> {}, router |-> 0]
<1>1. /\ TypeOK /\ task \in [Slots -> Jobs \cup {Idle}] /\ task[t] # Idle
      /\ subscriptions \in [Participants -> [Flows -> 0 .. MaxFlows]]
      /\ publications \subseteq Flows
  BY DEF ExactInv, SerialInv, TypeOK, RoomTypeOK, Jobs, Idle
<1>2. AtRest /\ Wired
  BY <1>1, CalmIsRest DEF Unpublish, Calm, Booked
<1>3. UNCHANGED <<participants, pair, lastSeen, router>> /\ UNCHANGED engineVars
  BY DEF Unpublish
<1>4. CASE Finish(t) /\ UNCHANGED <<publications, subscriptions>>
  <2>1. AtRest' /\ Wired'
    BY <1>2, <1>3, <1>4, RestKept
  <2>2. task'[t] = Idle
    BY <1>1, <1>4 DEF Finish
  <2>3. QED
    BY <2>1, <2>2 DEF Booked
<1>5. CASE ~(Finish(t) /\ UNCHANGED <<publications, subscriptions>>)
  <2>1. /\ h \in publications /\ publications' = publications \ {h}
        /\ subscriptions' = [q \in Participants |-> [subscriptions[q] EXCEPT ![h] = 0]]
        /\ task' = [task EXCEPT ![t].pc = "clean", ![t].trash = x]
        /\ task[t].op = "unpublish"
    BY <1>5 DEF Unpublish
  <2>2. /\ task'[t].pc = "clean" /\ task'[t].op = "unpublish" /\ task'[t] # Idle
        /\ task'[t].trash.producers = {h}
        /\ task'[t].trash.consumers = ConsumersOf({}, {h})
        /\ task'[t].trash.pairs = {}
        /\ task'[t].trash.router = 0
    <3>1. /\ x.producers = {h} /\ x.consumers = ConsumersOf({}, {h})
          /\ x.pairs = {} /\ x.router = 0
      OBVIOUS
    <3> HIDE DEF x, h
    <3>2. /\ task'[t].pc = "clean" /\ task'[t].op = task[t].op
          /\ task'[t].trash = x /\ task'[t] # Idle
      BY <1>1, <2>1 DEF Jobs, Idle
    <3>3. QED
      BY <2>1, <3>1, <3>2
  <2> HIDE DEF x, h
  <2>3. \A q \in Participants, f \in Flows :
           subscriptions'[q][f] = IF f = h THEN 0 ELSE subscriptions[q][f]
    <3>1. SUFFICES ASSUME NEW q \in Participants, NEW f \in Flows
                   PROVE  subscriptions'[q][f] = IF f = h THEN 0 ELSE subscriptions[q][f]
      OBVIOUS
    <3>2. subscriptions'[q] = [subscriptions[q] EXCEPT ![h] = 0]
      BY <2>1
    <3>3. subscriptions[q] \in [Flows -> 0 .. MaxFlows]
      BY <1>1
    <3>4. QED
      BY <3>1, <3>2, <3>3
  <2>4. ConsumersOf(Participants, {})' \cup ConsumersOf({}, {h}) = ConsumersOf(Participants, {})
    <3>1. ASSUME NEW c, c \in ConsumersOf(Participants, {})'
          PROVE  c \in ConsumersOf(Participants, {})
      BY <2>3, <3>1 DEF ConsumersOf
    <3>2. ASSUME NEW c, c \in ConsumersOf({}, {h})
          PROVE  c \in ConsumersOf(Participants, {})
      BY <3>2 DEF ConsumersOf
    <3>3. ASSUME NEW q \in Participants, NEW f \in Flows, subscriptions[q][f] # 0, f # h
          PROVE  <<q, subscriptions[q][f]>> \in ConsumersOf(Participants, {})'
      <4> DEFINE Y == {y \in Participants \X Flows :
                          subscriptions'[y[1]][y[2]] # 0 /\ (y[1] \in Participants \/ y[2] \in {})}
      <4>1. subscriptions'[q][f] = subscriptions[q][f]
        BY <2>3, <3>3
      <4>2. <<q, f>> \in Y
        BY <3>3, <4>1
      <4>3. ConsumersOf(Participants, {})' = {<<z[1], subscriptions'[z[1]][z[2]]>> : z \in Y}
        BY DEF ConsumersOf
      <4> HIDE DEF Y
      <4>4. QED
        BY <4>1, <4>2, <4>3, Counted
    <3>4. ASSUME NEW c, c \in ConsumersOf(Participants, {})
          PROVE  c \in ConsumersOf(Participants, {})' \cup ConsumersOf({}, {h})
      <4>1. PICK q \in Participants, f \in Flows :
               subscriptions[q][f] # 0 /\ c = <<q, subscriptions[q][f]>>
        BY <3>4 DEF ConsumersOf
      <4>2. CASE f = h
        <5> DEFINE Y == {y \in Participants \X Flows :
                            subscriptions[y[1]][y[2]] # 0 /\ (y[1] \in {} \/ y[2] \in {h})}
        <5>1. <<q, f>> \in Y
          BY <4>1, <4>2
        <5>2. ConsumersOf({}, {h}) = {<<z[1], subscriptions[z[1]][z[2]]>> : z \in Y}
          BY DEF ConsumersOf
        <5> HIDE DEF Y
        <5>3. QED
          BY <4>1, <5>1, <5>2, Counted
      <4>3. CASE f # h
        BY <3>3, <4>1, <4>3
      <4>4. QED
        BY <4>2, <4>3
    <3>5. QED
      BY <3>1, <3>2, <3>4
  <2>5. HeldPairs' = HeldPairs /\ Missing' = Missing
    BY <1>3 DEF HeldPairs, Missing
  <2>6. Balance(0, {}, {}, {})
    BY <1>2 DEF AtRest
  <2>7. Account(task[t])'
    <3>1. publications' \cup {h} = publications
      BY <2>1
    <3>2. /\ routers' = {router', task'[t].trash.router} \ {0}
          /\ {y \in Pairs : transports'[y] # 0} = HeldPairs' \cup task'[t].trash.pairs
          /\ {f \in Flows : producers'[f] # 0} = publications' \cup task'[t].trash.producers
          /\ consumers' = ConsumersOf(Participants, {})' \cup task'[t].trash.consumers
      BY <1>3, <2>2, <2>4, <2>5, <2>6, <3>1 DEF Balance, engineVars
    <3>3. QED
      BY <2>2, <3>2 DEF Account, Balance
  <2>8. Whole(task[t])'
    BY <1>2, <1>3, <2>2, <2>5 DEF Whole, AtRest
  <2>9. Wired'
    BY <1>2, <1>3 DEF Wired, engineVars
  <2>10. QED
    BY <2>2, <2>7, <2>8, <2>9 DEF Booked
<1>6. QED
  BY <1>4, <1>5

LEMMA CleanBooked ==
    ASSUME ExactInv, NEW t \in Slots, Booked(t), task[t] \in Jobs, Sound(task[t]), Clean(t)
    PROVE  Booked(t)'
<1> DEFINE x == task[t].trash
<1>1. /\ TypeOK /\ task \in [Slots -> Jobs \cup {Idle}] /\ task[t] # Idle
      /\ publications \subseteq Flows /\ producers \in [Flows -> 0 .. MaxPairs]
      /\ transports \in [Pairs -> 0 .. MaxRouters]
  BY DEF ExactInv, SerialInv, TypeOK, RoomTypeOK, EngineTypeOK, Jobs, Idle
<1>2. /\ task[t].pc = "clean" /\ Balance(x.router, x.pairs, x.producers, x.consumers)
      /\ x.router # 0 => router = 0
      /\ \A y \in x.pairs : y[1] \notin participants
      /\ router # 0 => Missing = {}
      /\ task[t].op = "subscribe" => subscriptions[task[t].who][task[t].flow] = 0
      /\ \A p \in participants : lastSeen[p] # "never"
      /\ Wired
  BY <1>1 DEF Clean, Booked, Account, Whole
<1>3. /\ producers' = [f \in Flows |-> IF f \in x.producers THEN 0 ELSE producers[f]]
      /\ consumers' = consumers \ x.consumers
      /\ routers' = routers \ {x.router}
      /\ transports' = [y \in Pairs |->
            IF y \in x.pairs \/ (x.router \in routers /\ transports[y] = x.router)
            THEN 0 ELSE transports[y]]
      /\ UNCHANGED roomVars
  BY DEF Clean
<1>4. /\ \A f \in publications : f \notin x.producers
      /\ \A p \in Participants, f \in Flows :
            subscriptions[p][f] # 0 => <<p, subscriptions[p][f]>> \notin x.consumers
  BY <1>2 DEF Sound, Closing
<1>5. Finish(t) \/ (task[t].op = "join" /\
         task' = [task EXCEPT ![t].pc = "insert", ![t].trash = NoTrash])
  BY DEF Clean
<1>6. task'[t] # Idle => task'[t].pc = "insert" /\ task'[t].op = "join"
  BY <1>1, <1>5 DEF Finish, Jobs
<1> HIDE DEF x
<1>7. \A y \in HeldPairs : y \notin x.pairs /\ ~(x.router \in routers /\ transports[y] = x.router)
  <2>1. \A y \in HeldPairs : y \notin x.pairs
    BY <1>2 DEF HeldPairs
  <2>2. ASSUME NEW y \in HeldPairs, x.router \in routers PROVE FALSE
    <3>1. x.router # 0
      BY <1>2, <2>2 DEF Balance
    <3>2. PICK p \in participants : y = <<p, pair[p]>> /\ y \in Pairs
      BY <2>2 DEF HeldPairs
    <3>3. pair[p] = 0
      BY <1>2, <3>1 DEF Wired
    <3>4. QED
      BY <3>2, <3>3, SfuAssumption DEF Pairs, PairIds
  <2>3. QED
    BY <2>1, <2>2
<1>8. HeldPairs' = HeldPairs /\ Missing' = Missing
  BY <1>3 DEF HeldPairs, Missing, roomVars
<1>9. ConsumersOf(Participants, {})' = ConsumersOf(Participants, {})
  BY <1>3 DEF ConsumersOf, roomVars
<1>10. \A c \in ConsumersOf(Participants, {}) : c \notin x.consumers
  BY <1>4 DEF ConsumersOf
<1>11. Balance(0, {}, {}, {})'
  <2>1. routers' = {router', 0} \ {0}
    BY <1>2, <1>3 DEF Balance, roomVars
  <2>2. {y \in Pairs : transports'[y] # 0} = HeldPairs' \cup {}
    <3>1. {y \in Pairs : transports[y] # 0} = HeldPairs \cup x.pairs
      BY <1>2 DEF Balance
    <3>2. ASSUME NEW y \in Pairs PROVE transports'[y] # 0 <=> y \in HeldPairs
      BY <1>3, <1>7, <3>1
    <3>3. HeldPairs \subseteq Pairs
      BY DEF HeldPairs
    <3>4. QED
      BY <1>8, <3>2, <3>3
  <2>3. {f \in Flows : producers'[f] # 0} = publications' \cup {}
    <3>1. {f \in Flows : producers[f] # 0} = publications \cup x.producers
      BY <1>2 DEF Balance
    <3>2. ASSUME NEW f \in Flows PROVE producers'[f] # 0 <=> f \in publications
      BY <1>3, <1>4, <3>1
    <3>3. QED
      BY <1>1, <1>3, <3>2 DEF roomVars
  <2>4. consumers' = ConsumersOf(Participants, {})' \cup {}
    BY <1>2, <1>3, <1>9, <1>10 DEF Balance
  <2>5. QED
    BY <2>1, <2>2, <2>3, <2>4 DEF Balance
<1>12. Wired'
  <2>1. SUFFICES ASSUME NEW p \in participants
                 PROVE  /\ router # 0 /\ pair[p] # 0 => transports'[<<p, pair[p]>>] = router
                        /\ router = 0 => pair[p] = 0
    BY <1>3 DEF Wired, roomVars
  <2>2. CASE router # 0 /\ pair[p] # 0
    <3>1. transports[<<p, pair[p]>>] = router
      BY <1>2, <2>2 DEF Wired
    <3>2. <<p, pair[p]>> \in Pairs
      BY <1>1, <2>1, <2>2 DEF Pairs, PairIds, TypeOK, RoomTypeOK
    <3>3. <<p, pair[p]>> \in HeldPairs
      BY <2>1, <3>2 DEF HeldPairs
    <3>4. QED
      BY <1>3, <1>7, <2>2, <3>1, <3>2, <3>3
  <2>3. CASE router = 0
    BY <1>2, <2>1, <2>3 DEF Wired
  <2>4. QED
    BY <2>2, <2>3
<1>13. AtRest'
  BY <1>2, <1>3, <1>8, <1>11 DEF AtRest, roomVars
<1>14. QED
  BY <1>6, <1>12, <1>13, BookedAtRest DEF Calm

\* ensure_sfu ends with nobody left behind.
LEMMA EnsuredBooked ==
    ASSUME TypeOK, NEW t \in Slots, task[t] \in Jobs, Ensured(t),
           Wired', Balance(0, {}, {}, {})', router' # 0 => Missing' = {},
           \A p \in participants' :
               lastSeen'[p] = "never" => task[t].op = "join" /\ p = task[t].who,
           task[t].op = "subscribe" => subscriptions'[task[t].who][task[t].flow] = 0
    PROVE  Booked(t)'
<1>1. task \in [Slots -> Jobs \cup {Idle}]
  BY DEF TypeOK
<1>2. CASE task[t].op = "join"
  <2>1. Goto(t, "touch")
    BY <1>2 DEF Ensured
  <2>2. /\ task'[t].pc = "touch" /\ task'[t].op = "join" /\ task'[t] # Idle
        /\ task'[t].who = task[t].who
    BY <1>2, <2>1, MovedFields
  <2>3. Account(task[t])'
    BY <2>2 DEF Account
  <2>4. Whole(task[t])'
    BY <2>2 DEF Whole
  <2>5. QED
    BY <2>2, <2>3, <2>4 DEF Booked
<1>3. CASE task[t].op # "join"
  <2>1. AtRest'
    BY <1>3 DEF AtRest
  <2>2. CASE Goto(t, "lookup")
    <3>1. /\ task'[t].pc = "lookup" /\ task'[t].op = task[t].op /\ task'[t] # Idle
          /\ task'[t].who = task[t].who /\ task'[t].flow = task[t].flow
      BY <2>2, MovedFields
    <3>2. QED
      BY <2>1, <3>1, BookedAtRest DEF Calm
  <2>3. CASE Finish(t)
    <3>1. task'[t] = Idle
      BY <1>1, <2>3 DEF Finish
    <3>2. QED
      BY <2>1, <3>1 DEF Booked
  <2>4. QED
    BY <1>3, <2>2, <2>3 DEF Ensured
<1>4. QED
  BY <1>2, <1>3

LEMMA PlanBooked ==
    ASSUME ExactInv, NEW t \in Slots, Booked(t), task[t] \in Jobs, Plan(t)
    PROVE  Booked(t)'
<1>1. /\ TypeOK /\ task \in [Slots -> Jobs \cup {Idle}] /\ task[t] # Idle
      /\ task[t].pc = "plan"
  BY DEF ExactInv, SerialInv, TypeOK, Jobs, Idle, Plan
<1>2. Wired /\ Balance(0, {}, {}, {}) /\ Whole(task[t])
  BY <1>1 DEF Booked, Account
<1>3. UNCHANGED roomVars /\ UNCHANGED engineVars
  BY DEF Plan
<1>4. HeldPairs' = HeldPairs /\ Missing' = Missing
  BY <1>3 DEF HeldPairs, Missing, roomVars
<1>5. ConsumersOf(Participants, {})' = ConsumersOf(Participants, {})
  BY <1>3 DEF ConsumersOf, roomVars
<1>6. Balance(0, {}, {}, {})' /\ Wired'
  BY <1>2, <1>3, <1>4, <1>5 DEF Balance, Wired, engineVars, roomVars
<1>7. /\ \A p \in participants' :
            lastSeen'[p] = "never" => task[t].op = "join" /\ p = task[t].who
      /\ task[t].op = "subscribe" => subscriptions'[task[t].who][task[t].flow] = 0
  BY <1>2, <1>3 DEF Whole, roomVars
<1>8. CASE participants = {} /\ Finish(t)
  <2>1. task'[t] = Idle /\ participants' = {}
    BY <1>1, <1>3, <1>8 DEF Finish, roomVars
  <2>2. AtRest'
    BY <1>6, <2>1 DEF AtRest, Missing
  <2>3. QED
    BY <1>6, <2>1, <2>2 DEF Booked
<1>9. CASE router # 0 /\ Missing = {} /\ Ensured(t)
  BY <1>1, <1>4, <1>6, <1>7, <1>9, EnsuredBooked
<1>10. CASE /\ participants # {} /\ ~(router # 0 /\ Missing = {})
            /\ task' = [task EXCEPT
                ![t].pc = IF router = 0 THEN "create" ELSE "provision",
                ![t].need = (router = 0),
                ![t].router = router,
                ![t].want = Missing,
                ![t].got = NoPair]
  <2>1. /\ task'[t].pc = (IF router = 0 THEN "create" ELSE "provision")
        /\ task'[t].need = (router = 0) /\ task'[t].router = router
        /\ task'[t].op = task[t].op /\ task'[t].who = task[t].who
        /\ task'[t].flow = task[t].flow /\ task'[t] # Idle
    BY <1>1, <1>10 DEF Jobs, Idle
  <2>2. UNCHANGED <<router, participants>>
    BY <1>3 DEF roomVars
  <2>3. Account(task[t])'
    BY <1>6, <2>1 DEF Account
  <2>4. Whole(task[t])'
    <3>1. CASE router = 0
      <4>1. task'[t].pc = "create" /\ task'[t].need
        BY <2>1, <3>1
      <4>2. QED
        BY <1>7, <1>10, <2>1, <2>2, <3>1, <4>1 DEF Whole
    <3>2. CASE router # 0
      <4>1. task'[t].pc = "provision" /\ ~task'[t].need
        BY <2>1, <3>2
      <4>2. QED
        BY <1>7, <1>10, <2>1, <2>2, <3>2, <4>1 DEF Whole
    <3>3. QED
      BY <3>1, <3>2
  <2>5. QED
    BY <1>6, <2>1, <2>3, <2>4 DEF Booked
<1>11. QED
  BY <1>8, <1>9, <1>10 DEF Plan

LEMMA CreateBooked ==
    ASSUME ExactInv, NEW t \in Slots, Booked(t), task[t] \in Jobs, CreateRouter(t)
    PROVE  Booked(t)'
<1>1. /\ TypeOK /\ task \in [Slots -> Jobs \cup {Idle}] /\ task[t] # Idle
      /\ task[t].pc = "create"
  BY DEF ExactInv, SerialInv, TypeOK, Jobs, Idle, CreateRouter
<1>2. Wired /\ Balance(0, {}, {}, {}) /\ Whole(task[t])
  BY <1>1 DEF Booked, Account
<1>3. UNCHANGED roomVars /\ UNCHANGED <<transports, producers, consumers>>
  BY DEF CreateRouter
<1>4. PICK r \in RouterIds :
         /\ routers' = routers \cup {r}
         /\ task' = [task EXCEPT ![t].pc = "provision", ![t].router = r]
  BY DEF CreateRouter
<1>5. /\ task'[t].pc = "provision" /\ task'[t].need = task[t].need /\ task'[t].router = r
      /\ task'[t].op = task[t].op /\ task'[t].who = task[t].who
      /\ task'[t].flow = task[t].flow /\ task'[t] # Idle
  BY <1>1, <1>4 DEF Jobs, Idle
<1>6. task[t].need /\ router = 0 /\ participants # {}
  BY <1>1, <1>2 DEF Whole
<1>7. HeldPairs' = HeldPairs /\ Missing' = Missing
  BY <1>3 DEF HeldPairs, Missing, roomVars
<1>8. ConsumersOf(Participants, {})' = ConsumersOf(Participants, {})
  BY <1>3 DEF ConsumersOf, roomVars
<1>9. r # 0
  BY SfuAssumption DEF RouterIds
<1>10. Account(task[t])'
  <2>1. /\ routers' = {router', r} \ {0}
        /\ {y \in Pairs : transports'[y] # 0} = HeldPairs' \cup {}
        /\ {f \in Flows : producers'[f] # 0} = publications' \cup {}
        /\ consumers' = ConsumersOf(Participants, {})' \cup {}
    BY <1>2, <1>3, <1>4, <1>6, <1>7, <1>8, <1>9 DEF Balance, roomVars
  <2>2. QED
    BY <1>5, <1>6, <2>1 DEF Account, Balance
<1>11. Whole(task[t])'
  BY <1>1, <1>2, <1>3, <1>5, <1>6, <1>7 DEF Whole, roomVars
<1>12. Wired'
  BY <1>2, <1>3 DEF Wired, roomVars
<1>13. QED
  BY <1>5, <1>10, <1>11, <1>12 DEF Booked

LEMMA ProvisionBooked ==
    ASSUME ExactInv, NEW t \in Slots, Booked(t), task[t] \in Jobs, Sound(task[t]), Provision(t)
    PROVE  Booked(t)'
<1> DEFINE r == task[t].router
           extra == IF task[t].need THEN r ELSE 0
<1>1. /\ TypeOK /\ task \in [Slots -> Jobs \cup {Idle}] /\ task[t] # Idle
      /\ transports \in [Pairs -> 0 .. MaxRouters]
      /\ participants \subseteq Participants
      /\ task[t].pc = "provision"
  BY DEF ExactInv, SerialInv, TypeOK, RoomTypeOK, EngineTypeOK, Jobs, Idle, Provision
<1>2. Wired /\ Balance(extra, {}, {}, {}) /\ Whole(task[t])
  BY <1>1 DEF Booked, Account
<1>3. r # 0 /\ task[t].want = Missing
  BY <1>1 DEF Sound, Moving
<1>4. UNCHANGED roomVars /\ UNCHANGED <<routers, producers, consumers>>
  BY DEF Provision
<1>0. PICK got \in [task[t].want -> PairIds] :
         /\ transports' = [y \in Pairs |->
               IF y[1] \in task[t].want /\ y[2] = got[y[1]] THEN r ELSE transports[y]]
         /\ task' = [task EXCEPT ![t].pc = "commit",
               ![t].got = [p \in Participants |-> IF p \in task[t].want THEN got[p] ELSE 0]]
  BY DEF Provision
<1>5. /\ got \in [Missing -> PairIds]
      /\ transports' = [y \in Pairs |->
            IF y[1] \in Missing /\ y[2] = got[y[1]] THEN r ELSE transports[y]]
      /\ task' = [task EXCEPT ![t].pc = "commit",
            ![t].got = [p \in Participants |-> IF p \in Missing THEN got[p] ELSE 0]]
  BY <1>3, <1>0
<1> DEFINE g == [p \in Participants |-> IF p \in Missing THEN got[p] ELSE 0]
<1>6. \A p \in Missing : g[p] = got[p] /\ got[p] \in PairIds /\ p \in participants
                         /\ p \in Participants
  BY <1>1, <1>5 DEF Missing
<1>7. /\ task'[t].pc = "commit" /\ task'[t].need = task[t].need /\ task'[t].router = task[t].router
      /\ task'[t].op = task[t].op /\ task'[t].who = task[t].who
      /\ task'[t].flow = task[t].flow /\ task'[t] # Idle /\ task'[t].got = g
  <2> HIDE DEF g
  <2>1. task' = [task EXCEPT ![t].pc = "commit", ![t].got = g]
    BY <1>5 DEF g
  <2>2. QED
    BY <1>1, <2>1 DEF Jobs, Idle
<1> HIDE DEF g
<1>8. HeldPairs' = HeldPairs /\ Missing' = Missing
  BY <1>4 DEF HeldPairs, Missing, roomVars
<1>9. ConsumersOf(Participants, {})' = ConsumersOf(Participants, {})
  BY <1>4 DEF ConsumersOf, roomVars
<1> HIDE DEF r, extra
<1>10. {y \in Pairs : transports'[y] # 0} = HeldPairs \cup {<<p, g[p]>> : p \in Missing}
  <2>1. {y \in Pairs : transports[y] # 0} = HeldPairs
    BY <1>2 DEF Balance
  <2>2. \A p \in Missing : <<p, g[p]>> \in Pairs
    BY <1>6 DEF Pairs
  <2>3. \A p \in Missing : transports'[<<p, g[p]>>] = r
    BY <1>5, <1>6, <2>2
  <2>4. ASSUME NEW y \in Pairs, transports'[y] # 0
        PROVE  y \in HeldPairs \cup {<<p, g[p]>> : p \in Missing}
    <3>1. CASE y[1] \in Missing /\ y[2] = got[y[1]]
      <4>1. y = <<y[1], y[2]>>
        BY DEF Pairs
      <4>2. QED
        BY <1>6, <3>1, <4>1
    <3>2. CASE ~(y[1] \in Missing /\ y[2] = got[y[1]])
      BY <1>5, <2>1, <2>4, <3>2
    <3>3. QED
      BY <3>1, <3>2
  <2>5. \A y \in HeldPairs : y \in Pairs /\ transports'[y] # 0
    BY <1>3, <1>5, <2>1
  <2>6. QED
    BY <1>3, <2>2, <2>3, <2>4, <2>5
<1>11. Account(task[t])'
  <2>1. /\ routers' = {router', extra} \ {0}
        /\ {f \in Flows : producers'[f] # 0} = publications' \cup {}
        /\ consumers' = ConsumersOf(Participants, {})' \cup {}
    BY <1>2, <1>4, <1>9 DEF Balance, roomVars
  <2>2. extra = IF task'[t].need THEN task'[t].router ELSE 0
    BY <1>7 DEF extra, r
  <2>3. {<<p, task'[t].got[p]>> : p \in Missing'} = {<<p, g[p]>> : p \in Missing}
    BY <1>7, <1>8
  <2>4. QED
    BY <1>7, <1>8, <1>10, <2>1, <2>2, <2>3 DEF Account, Balance
<1>12. Whole(task[t])'
  <2>1. \A p \in Missing : g[p] \in PairIds /\ transports'[<<p, g[p]>>] = r
    <3>1. \A p \in Missing : <<p, g[p]>> \in Pairs
      BY <1>6 DEF Pairs
    <3>2. QED
      BY <1>5, <1>6, <3>1
  <2>2. \A p \in Missing' :
           task'[t].got[p] \in PairIds /\ transports'[<<p, task'[t].got[p]>>] = task'[t].router
    BY <1>7, <1>8, <2>1 DEF r
  <2>3. UNCHANGED <<participants, router, lastSeen, subscriptions>>
    BY <1>4 DEF roomVars
  <2>4. QED
    BY <1>1, <1>2, <1>7, <1>8, <2>2, <2>3 DEF Whole
<1>13. Wired'
  <2>1. SUFFICES ASSUME NEW p \in participants
                 PROVE  /\ router # 0 /\ pair[p] # 0 => transports'[<<p, pair[p]>>] = router
                        /\ router = 0 => pair[p] = 0
    BY <1>4 DEF Wired, roomVars
  <2>2. pair[p] # 0 => p \notin Missing
    BY DEF Missing
  <2>3. pair[p] # 0 => <<p, pair[p]>> \in Pairs
    BY <1>1, <2>1 DEF Pairs, PairIds, TypeOK, RoomTypeOK
  <2>4. QED
    BY <1>2, <1>5, <2>1, <2>2, <2>3 DEF Wired
<1>14. QED
  BY <1>7, <1>11, <1>12, <1>13 DEF Booked

LEMMA CommitBooked ==
    ASSUME ExactInv, NEW t \in Slots, Booked(t), task[t] \in Jobs, Commit(t)
    PROVE  Booked(t)'
<1> DEFINE r == task[t].router
           got == task[t].got
           extra == IF task[t].need THEN r ELSE 0
<1>1. /\ TypeOK /\ task \in [Slots -> Jobs \cup {Idle}] /\ task[t] # Idle
      /\ pair \in [Participants -> 0 .. MaxPairs]
      /\ participants \subseteq Participants
      /\ task[t].pc = "commit"
  BY DEF ExactInv, SerialInv, TypeOK, RoomTypeOK, Jobs, Idle, Commit
<1>2. /\ Wired /\ Whole(task[t])
      /\ Balance(extra, {<<p, got[p]>> : p \in Missing}, {}, {})
  BY <1>1 DEF Booked, Account
<1>3. /\ router' = IF router = 0 THEN r ELSE router
      /\ pair' = [p \in Participants |-> IF p \in participants /\ pair[p] = 0 THEN got[p] ELSE pair[p]]
      /\ Ensured(t)
      /\ UNCHANGED <<participants, lastSeen, subscriptions, publications>>
      /\ UNCHANGED engineVars
  BY DEF Commit
<1>4. /\ task[t].need <=> router = 0
      /\ router # 0 => r = router
      /\ \A p \in Missing : got[p] \in PairIds /\ transports[<<p, got[p]>>] = r
  BY <1>1, <1>2 DEF Whole
<1>5. router' = r
  BY <1>3, <1>4
<1> HIDE DEF got
<1>6. \A p \in participants :
         /\ p \in Missing => pair'[p] = got[p]
         /\ p \notin Missing => pair'[p] = pair[p] /\ pair[p] # 0
  BY <1>1, <1>3 DEF Missing
<1>7. Missing' = {}
  <2>1. 0 \notin PairIds
    BY SfuAssumption DEF PairIds
  <2>2. \A p \in participants : pair'[p] # 0
    BY <1>4, <1>6, <2>1
  <2>3. QED
    BY <1>3, <2>2 DEF Missing
<1>8. HeldPairs' = HeldPairs \cup {<<p, got[p]>> : p \in Missing}
  <2>1. \A p \in Missing : p \in participants /\ <<p, got[p]>> \in Pairs
    BY <1>1, <1>4 DEF Missing, Pairs
  <2>2. 0 \notin PairIds
    BY SfuAssumption DEF PairIds
  <2>3. \A p \in Missing : <<p, pair[p]>> \notin Pairs
    BY <2>2 DEF Missing, Pairs
  <2>4. HeldPairs' = {<<p, pair'[p]>> : p \in participants} \cap Pairs
    BY <1>3 DEF HeldPairs
  <2>5. QED
    BY <1>6, <2>1, <2>3, <2>4 DEF HeldPairs
<1>9. ConsumersOf(Participants, {})' = ConsumersOf(Participants, {})
  BY <1>3 DEF ConsumersOf
<1>10. Balance(0, {}, {}, {})'
  <2>1. routers' = {router', 0} \ {0}
    BY <1>2, <1>3, <1>4, <1>5 DEF Balance, engineVars
  <2>2. QED
    BY <1>2, <1>3, <1>8, <1>9, <2>1 DEF Balance, engineVars
<1>11. Wired'
  <2>1. \A p \in participants : transports[<<p, pair'[p]>>] = r
    <3>1. SUFFICES ASSUME NEW p \in participants PROVE transports[<<p, pair'[p]>>] = r
      OBVIOUS
    <3>2. CASE p \in Missing
      BY <1>4, <1>6, <3>2
    <3>3. CASE p \notin Missing
      BY <1>2, <1>4, <1>6, <3>3 DEF Wired
    <3>4. QED
      BY <3>2, <3>3
  <2>2. r # 0
    <3>1. Sound(task[t])
      BY <1>1 DEF ExactInv, SerialInv
    <3>2. QED
      BY <1>1, <3>1 DEF Sound, Moving
  <2>3. QED
    BY <1>3, <1>5, <2>1, <2>2 DEF Wired, engineVars
<1>12. /\ \A p \in participants' :
             lastSeen'[p] = "never" => task[t].op = "join" /\ p = task[t].who
       /\ task[t].op = "subscribe" => subscriptions'[task[t].who][task[t].flow] = 0
  BY <1>2, <1>3 DEF Whole
<1>13. QED
  BY <1>1, <1>3, <1>7, <1>10, <1>11, <1>12, EnsuredBooked

LEMMA EngineBooked ==
    ASSUME ExactInv, NEW t \in Slots, Booked(t), task[t] \in Jobs, Sound(task[t]),
           Produce(t) \/ Consume(t)
    PROVE  Booked(t)'
<1>1. /\ TypeOK /\ task \in [Slots -> Jobs \cup {Idle}] /\ task[t] # Idle
      /\ producers \in [Flows -> 0 .. MaxPairs]
      /\ task[t].pc = "engine"
  BY DEF ExactInv, SerialInv, TypeOK, EngineTypeOK, Jobs, Idle, Produce, Consume
<1>2. AtRest /\ Wired /\ (task[t].op = "subscribe" => subscriptions[task[t].who][task[t].flow] = 0)
  BY <1>1, CalmIsRest DEF Calm, Booked
<1>3. UNCHANGED roomVars /\ UNCHANGED <<routers, transports>>
  BY DEF Produce, Consume
<1>4. HeldPairs' = HeldPairs /\ Missing' = Missing
  BY <1>3 DEF HeldPairs, Missing, roomVars
<1>5. ConsumersOf(Participants, {})' = ConsumersOf(Participants, {})
  BY <1>3 DEF ConsumersOf, roomVars
<1>6. Wired'
  BY <1>2, <1>3 DEF Wired, roomVars
<1>7. task[t].got[task[t].who] # 0 /\ task[t].who \in Participants
  BY <1>1 DEF Sound, Streaming, Jobs
<1>8. PICK n \in FlowIds :
         /\ task' = [task EXCEPT ![t].pc = "record", ![t].made = n]
         /\ \/ /\ task[t].op # "subscribe"
               /\ producers' = [producers EXCEPT ![<<task[t].who, n>>] = task[t].got[task[t].who]]
               /\ consumers' = consumers
            \/ /\ task[t].op = "subscribe"
               /\ consumers' = consumers \cup {<<task[t].who, n>>}
               /\ producers' = producers
  BY DEF Produce, Consume, Publishing
<1>9. /\ task'[t].pc = "record" /\ task'[t].op = task[t].op /\ task'[t] # Idle
      /\ task'[t].who = task[t].who /\ task'[t].flow = task[t].flow /\ task'[t].made = n
  BY <1>1, <1>8 DEF Jobs, Idle
<1>10. /\ routers' = {router', 0} \ {0}
       /\ {y \in Pairs : transports'[y] # 0} = HeldPairs' \cup {}
  BY <1>2, <1>3, <1>4 DEF AtRest, Balance, roomVars
<1>11. Account(task[t])'
  <2>1. CASE task[t].op # "subscribe"
    <3> DEFINE h == <<task[t].who, n>>
    <3>1. /\ producers' = [producers EXCEPT ![h] = task[t].got[task[t].who]]
          /\ consumers' = consumers
      BY <1>8, <2>1
    <3>2. h \in Flows
      BY <1>7 DEF Flows
    <3> HIDE DEF h
    <3>3. ASSUME NEW f \in Flows PROVE producers'[f] # 0 <=> producers[f] # 0 \/ f = h
      BY <1>1, <1>7, <3>1, <3>2
    <3>4. {f \in Flows : producers[f] # 0} = publications
      BY <1>2 DEF AtRest, Balance
    <3>5. {f \in Flows : producers'[f] # 0} = publications' \cup {h}
      BY <1>3, <3>2, <3>3, <3>4 DEF roomVars
    <3>6. consumers' = ConsumersOf(Participants, {})' \cup {}
      BY <1>2, <1>5, <3>1 DEF AtRest, Balance
    <3>7. h = <<task'[t].who, task'[t].made>>
      BY <1>9 DEF h
    <3>8. QED
      BY <1>9, <1>10, <2>1, <3>5, <3>6, <3>7 DEF Account, Balance
  <2>2. CASE task[t].op = "subscribe"
    <3>1. producers' = producers /\ consumers' = consumers \cup {<<task[t].who, n>>}
      BY <1>8, <2>2
    <3>2. {f \in Flows : producers'[f] # 0} = publications' \cup {}
      BY <1>2, <1>3, <3>1 DEF AtRest, Balance, roomVars
    <3>3. consumers' = ConsumersOf(Participants, {})' \cup {<<task'[t].who, task'[t].made>>}
      BY <1>2, <1>5, <1>9, <3>1 DEF AtRest, Balance
    <3>4. QED
      BY <1>9, <1>10, <2>2, <3>2, <3>3 DEF Account, Balance
  <2>3. QED
    BY <2>1, <2>2
<1>12. Whole(task[t])'
  BY <1>2, <1>3, <1>4, <1>9 DEF Whole, AtRest, roomVars
<1>13. QED
  BY <1>6, <1>9, <1>11, <1>12 DEF Booked

LEMMA RecordBooked ==
    ASSUME ExactInv, NEW t \in Slots, Booked(t), task[t] \in Jobs, Sound(task[t]),
           RecordPublication(t) \/ RecordSubscription(t)
    PROVE  Booked(t)'
<1> DEFINE p == task[t].who
           n == task[t].made
           h == task[t].flow
<1>1. /\ TypeOK /\ task \in [Slots -> Jobs \cup {Idle}] /\ task[t] # Idle
      /\ subscriptions \in [Participants -> [Flows -> 0 .. MaxFlows]]
      /\ task[t].pc = "record" /\ Equipped(task[t])
  BY DEF ExactInv, SerialInv, TypeOK, RoomTypeOK, Jobs, Idle,
         RecordPublication, RecordSubscription
<1>2. Wired /\ Account(task[t]) /\ Whole(task[t])
  BY <1>1 DEF Booked
<1>3. /\ UNCHANGED <<participants, pair, lastSeen, router>> /\ UNCHANGED engineVars
      /\ task'[t] = Idle
  BY <1>1 DEF RecordPublication, RecordSubscription, Finish
<1>4. HeldPairs' = HeldPairs /\ Missing' = Missing
  BY <1>3 DEF HeldPairs, Missing
<1>5. Wired'
  BY <1>2, <1>3 DEF Wired, engineVars
<1>6. p \in participants /\ p \in Participants /\ n \in FlowIds /\ n # 0
  BY <1>1, SfuAssumption DEF Sound, Streaming, Jobs, Equipped, FlowIds
<1>7. (router' # 0 => Missing' = {}) /\ \A q \in participants' : lastSeen'[q] # "never"
  BY <1>1, <1>2, <1>3, <1>4 DEF Whole
<1>8. CASE RecordPublication(t)
  <2>1. /\ task[t].op # "subscribe"
        /\ publications' = publications \cup {<<p, n>>} /\ UNCHANGED subscriptions
    BY <1>6, <1>8 DEF RecordPublication, Publishing
  <2>2. Balance(0, {}, {<<p, n>>}, {})
    BY <1>1, <1>2, <2>1 DEF Account
  <2>3. ConsumersOf(Participants, {})' = ConsumersOf(Participants, {})
    BY <2>1 DEF ConsumersOf
  <2>4. Balance(0, {}, {}, {})'
    BY <1>3, <1>4, <2>1, <2>2, <2>3 DEF Balance, engineVars
  <2>5. QED
    BY <1>3, <1>5, <1>7, <2>4 DEF Booked, AtRest
<1>9. CASE RecordSubscription(t)
  <2>1. /\ task[t].op = "subscribe"
        /\ subscriptions' = [subscriptions EXCEPT ![p][h] = n] /\ UNCHANGED publications
    BY <1>6, <1>9 DEF RecordSubscription
  <2>2. Balance(0, {}, {}, {<<p, n>>}) /\ subscriptions[p][h] = 0 /\ h \in Flows
    BY <1>1, <1>2, <2>1 DEF Account, Whole, Equipped
  <2> HIDE DEF p, n, h
  <2>3. \A q \in Participants, f \in Flows :
           subscriptions'[q][f] = IF q = p /\ f = h THEN n ELSE subscriptions[q][f]
    BY <1>1, <1>6, <2>1, <2>2
  <2>4. ConsumersOf(Participants, {})' = ConsumersOf(Participants, {}) \cup {<<p, n>>}
    <3> DEFINE Y == {y \in Participants \X Flows :
                        subscriptions'[y[1]][y[2]] # 0 /\ (y[1] \in Participants \/ y[2] \in {})}
    <3>1. ConsumersOf(Participants, {})' = {<<z[1], subscriptions'[z[1]][z[2]]>> : z \in Y}
      BY DEF ConsumersOf
    <3>2. <<p, n>> \in ConsumersOf(Participants, {})'
      <4>1. subscriptions'[p][h] = n
        BY <1>6, <2>2, <2>3
      <4>2. <<p, h>> \in Y
        BY <1>6, <2>2, <4>1
      <4> HIDE DEF Y
      <4>3. QED
        BY <3>1, <4>1, <4>2, Counted
    <3>3. ASSUME NEW c, c \in ConsumersOf(Participants, {})
          PROVE  c \in ConsumersOf(Participants, {})'
      <4>1. PICK q \in Participants, f \in Flows :
               subscriptions[q][f] # 0 /\ c = <<q, subscriptions[q][f]>>
        BY <3>3 DEF ConsumersOf
      <4>2. subscriptions'[q][f] = subscriptions[q][f]
        BY <2>2, <2>3, <4>1
      <4>3. <<q, f>> \in Y
        BY <4>1, <4>2
      <4> HIDE DEF Y
      <4>4. QED
        BY <3>1, <4>1, <4>2, <4>3, Counted
    <3>4. ASSUME NEW c, c \in ConsumersOf(Participants, {})'
          PROVE  c \in ConsumersOf(Participants, {}) \cup {<<p, n>>}
      <4>1. PICK q \in Participants, f \in Flows :
               subscriptions'[q][f] # 0 /\ c = <<q, subscriptions'[q][f]>>
        BY <3>4 DEF ConsumersOf
      <4>2. CASE q = p /\ f = h
        BY <2>3, <4>1, <4>2
      <4>3. CASE ~(q = p /\ f = h)
        <5> DEFINE Z == {y \in Participants \X Flows :
                            subscriptions[y[1]][y[2]] # 0 /\ (y[1] \in Participants \/ y[2] \in {})}
        <5>1. ConsumersOf(Participants, {}) = {<<z[1], subscriptions[z[1]][z[2]]>> : z \in Z}
          BY DEF ConsumersOf
        <5>2. subscriptions'[q][f] = subscriptions[q][f]
          BY <2>3, <4>3
        <5>3. <<q, f>> \in Z
          BY <4>1, <5>2
        <5> HIDE DEF Y, Z
        <5>4. QED
          BY <4>1, <5>1, <5>2, <5>3, Counted
      <4>4. QED
        BY <4>2, <4>3
    <3>5. QED
      BY <3>2, <3>3, <3>4
  <2>5. Balance(0, {}, {}, {})'
    BY <1>3, <1>4, <2>1, <2>2, <2>4 DEF Balance, engineVars
  <2>6. QED
    BY <1>3, <1>5, <1>7, <2>5 DEF Booked, AtRest
<1>10. QED
  BY <1>8, <1>9

\* While requests follow one another and the engine works, no migration finds
\* its router closed, its race lost or its room gone.
LEMMA NoSetback ==
    ASSUME ~Failures, ExactInv, NEW t \in Slots, Booked(t), task[t] \in Jobs, Sound(task[t])
    PROVE  ~(ProvisionFails(t) \/ CommitLost(t) \/ CommitGone(t) \/ GiveUp(t))
<1>1. task[t] # Idle
  BY DEF Jobs, Idle
<1>2. Account(task[t]) /\ Whole(task[t])
  BY <1>1 DEF Booked
<1>3. ASSUME ProvisionFails(t) PROVE FALSE
  <2>1. task[t].pc = "provision" /\ task[t].router \notin routers
    BY <1>3 DEF ProvisionFails
  <2>2. Balance(IF task[t].need THEN task[t].router ELSE 0, {}, {}, {})
    BY <1>2, <2>1 DEF Account
  <2>3. task[t].router # 0
    BY <2>1 DEF Sound, Moving
  <2>4. QED
    BY <1>2, <2>1, <2>2, <2>3 DEF Whole, Balance
<1>4. ASSUME CommitLost(t) \/ CommitGone(t) PROVE FALSE
  BY <1>2, <1>4 DEF CommitLost, CommitGone, LostRace, Whole
<1>5. QED
  BY <1>3, <1>4 DEF GiveUp

LEMMA ExactStep ==
    ASSUME Serial, ~Failures, ~Resubscribe, ExactInv, [Next]_vars
    PROVE  ExactInv'
<1>1. SerialInv' /\ SerialInv
  BY SerialStep DEF ExactInv
<1>2. ASSUME NEW t \in Slots, Booked(t)', \A u \in Slots : task'[u] # Idle => u = t
      PROVE  ExactInv'
  BY <1>1, <1>2 DEF ExactInv, Booked, Busy
<1>3. ASSUME NEW t \in Slots, Step(t) PROVE ExactInv'
  <2>1. /\ task[t] \in Jobs /\ task[t] # Idle /\ Sound(task[t])
        /\ \A u \in Slots : task'[u] # Idle => u = t
    BY <1>1, <1>3, StillOne
  <2>2. Booked(t)
    BY <2>1 DEF ExactInv
  <2>3. ~(ProvisionFails(t) \/ CommitLost(t) \/ CommitGone(t) \/ GiveUp(t))
    BY <2>1, <2>2, NoSetback
  <2>4. Booked(t)'
    BY <1>3, <2>1, <2>2, <2>3, CalmBooked, TouchBooked, InsertBooked, RemoveBooked,
       UnpublishBooked, CleanBooked, PlanBooked, CreateBooked, ProvisionBooked,
       CommitBooked, EngineBooked, RecordBooked
    DEF Step
  <2>5. QED
    BY <1>2, <2>1, <2>4
<1>4. ASSUME NEW t \in Slots, NEW op \in AllOps, NEW p, NEW f,
             task' = [task EXCEPT ![t] = Job(op, p, f)],
             \A u \in Slots : task[u] = Idle,
             op = "subscribe" => subscriptions[p][f] = 0,
             UNCHANGED <<roomVars, engineVars>>
      PROVE  ExactInv'
  <2>1. task'[t] = Job(op, p, f) /\ \A u \in Slots : u # t => task'[u] = Idle
    BY <1>4 DEF ExactInv, SerialInv, TypeOK
  <2>2. AtRest' /\ Wired'
    BY <1>4, RestKept DEF ExactInv, Busy, roomVars, engineVars
  <2>3. /\ Job(op, p, f).op = op /\ Job(op, p, f).who = p /\ Job(op, p, f).flow = f
        /\ Job(op, p, f).pc = FirstStep(op)
    BY DEF Job
  <2>4. FirstStep(op) \in {"enter", "remove", "lookup", "plan", "share"}
    BY DEF FirstStep, AllOps
  <2>5. UNCHANGED subscriptions
    BY <1>4 DEF roomVars
  <2> HIDE DEF FirstStep
  <2>6. Booked(t)'
    BY <1>4, <2>1, <2>2, <2>3, <2>4, <2>5, BookedAtRest DEF Calm
  <2>7. QED
    BY <1>2, <2>1, <2>6
<1>5. ASSUME NEW p \in Participants, Evict(p) PROVE ExactInv'
  <2>1. \A u \in Slots : task[u] = Idle
    BY <1>1, <1>5 DEF Evict, SerialInv, OneAtATime, Slots
  <2>2. QED
    BY <1>4, <1>5, <2>1 DEF Evict, AllOps, Slots
<1>6. ASSUME NEW t \in Tasks, NEW op \in Ops, NEW p \in Participants,
             NEW f \in Flows \cup {NoFlow}, Request(t, op, p, f)
      PROVE  ExactInv'
  <2>1. \A u \in Slots : task[u] = Idle
    BY <1>6 DEF Request, Quiet, Busy
  <2>2. QED
    BY <1>4, <1>6, <2>1, SfuAssumption DEF Request, Slots
<1>7. ASSUME UNCHANGED <<participants, pair, subscriptions, publications, router, engineVars, task>>,
             \A p \in participants : lastSeen'[p] = "never" => lastSeen[p] = "never"
      PROVE  ExactInv'
  <2>1. HeldPairs' = HeldPairs /\ Missing' = Missing
    BY <1>7 DEF HeldPairs, Missing
  <2>2. ConsumersOf(Participants, {})' = ConsumersOf(Participants, {})
    BY <1>7 DEF ConsumersOf
  <2>3. Wired'
    BY <1>7 DEF ExactInv, Wired, engineVars
  <2>4. AtRest => AtRest'
    BY <1>7, <2>1, <2>2 DEF AtRest, Balance, engineVars
  <2>5. Busy' = {} => AtRest'
    BY <1>7, <2>4 DEF ExactInv, Busy
  <2>6. ASSUME NEW t \in Slots, task'[t] # Idle PROVE Booked(t)'
    <3>1. Account(task[t]) /\ Whole(task[t])
      BY <1>7, <2>6 DEF ExactInv, Booked
    <3>2. Account(task[t])'
      BY <1>7, <2>1, <2>2, <3>1 DEF Account, Balance, engineVars
    <3>3. Whole(task[t])'
      BY <1>7, <2>1, <3>1 DEF Whole, engineVars
    <3>4. QED
      BY <2>3, <2>6, <3>2, <3>3 DEF Booked
  <2>7. QED
    BY <1>1, <2>3, <2>5, <2>6 DEF ExactInv
<1>8. ASSUME NEW p \in Participants, Heartbeat(p) \/ Age(p) PROVE ExactInv'
  <2>1. lastSeen \in [Participants -> {"never", "fresh", "old"}] /\ participants \subseteq Participants
    BY <1>1 DEF SerialInv, TypeOK, RoomTypeOK
  <2>2. \A q \in participants : lastSeen'[q] = "never" => lastSeen[q] = "never"
    BY <1>8, <2>1 DEF Heartbeat, Age
  <2>3. QED
    BY <1>7, <1>8, <2>2 DEF Heartbeat, Age
<1>9. CASE Scan
  BY <1>7, <1>9 DEF Scan, roomVars
<1>10. CASE UNCHANGED vars
  BY <1>7, <1>10 DEF vars, engineVars
<1>11. QED
  BY <1>3, <1>5, <1>6, <1>8, <1>9, <1>10 DEF Next

\* A room no request works on is in the engine as its participants see it:
\* its router and everybody on it, nothing left over and nothing missing.
THEOREM EngineIsExact ==
    ASSUME Serial, ~Failures, ~Resubscribe
    PROVE  Spec => []EngineMatchesRoom
<1>1. ExactInv /\ [Next]_vars => ExactInv'
  BY ExactStep
<1>2. ExactInv => EngineMatchesRoom
  <2>1. SUFFICES ASSUME ExactInv, Quiet
                 PROVE  RouterMatches /\ AllOnOneRouter /\ NoObjectLeak
    BY DEF ExactInv, SerialInv, EngineMatchesRoom, RouterMatches, AllOnOneRouter, NoObjectLeak
  <2>2. AtRest /\ Wired
    BY <2>1 DEF ExactInv, Quiet
  <2>3. AllOnOneRouter
    BY <2>2 DEF AllOnOneRouter, AtRest, Wired, Missing
  <2>4. NoObjectLeak
    BY <2>2 DEF NoObjectLeak, AtRest, Balance, HeldPairs
  <2>5. RouterMatches
    BY <2>2 DEF RouterMatches, AtRest, Balance
  <2>6. QED
    BY <2>3, <2>4, <2>5
<1>3. QED
  BY ExactInit, <1>1, <1>2, PTL DEF Spec

\* Nobody stays in the room whom silence cannot evict: between two requests
\* every participant has been seen.
THEOREM EverybodyCanBeEvicted ==
    ASSUME Serial, ~Failures, ~Resubscribe
    PROVE  Spec => []NoImmortalGhost
<1>1. ExactInv /\ [Next]_vars => ExactInv'
  BY ExactStep
<1>2. ExactInv => NoImmortalGhost
  BY DEF ExactInv, NoImmortalGhost, Quiet, AtRest
<1>3. QED
  BY ExactInit, <1>1, <1>2, PTL DEF Spec

-----------------------------------------------------------------------------
(* What is kept however requests overlap, for each object of the engine is *)
(* known to one place at a time.  That of flows and consumers survives a   *)
(* request cut short; that of routers does not.                            *)

\* Where a step can leave its job.
LEMMA Landing ==
    ASSUME TypeOK, NEW t \in Slots, Step(t)
    PROVE  /\ task'[t].pc = "clean" => Remove(t) \/ Unpublish(t)
           /\ task'[t].pc = "record" => Produce(t) \/ Consume(t)
           /\ task'[t].pc = "engine" => Lookup(t)
           /\ task'[t].pc = "create" => Plan(t)
           /\ task'[t].pc = "provision" => Plan(t) \/ CreateRouter(t)
           /\ task'[t].pc = "commit" => Provision(t)
<1>1. task \in [Slots -> Jobs \cup {Idle}] /\ task[t] \in Jobs
  BY OneSlot DEF TypeOK
<1> DEFINE Harmless == task'[t].pc \in {"idle", "remove", "insert", "plan", "touch", "lookup"}
<1>2. CASE Finish(t)
  BY <1>1, <1>2 DEF Finish, Idle
<1>3. ASSUME NEW pc \in {"remove", "insert", "plan", "touch", "lookup"}, Goto(t, pc)
      PROVE  Harmless
  <2>1. task'[t].pc = pc
    BY <1>1, <1>3, MovedOn
  <2>2. QED
    BY <2>1
<1>4. CASE Ensured(t)
  <2>1. Finish(t) \/ Goto(t, "touch") \/ Goto(t, "lookup")
    BY <1>4 DEF Ensured
  <2>2. Finish(t) => Harmless
    BY <1>1 DEF Finish, Idle
  <2>3. QED
    BY <1>3, <2>1, <2>2
<1>5. CASE Clean(t) /\ ~Finish(t)
  <2>1. task' = [task EXCEPT ![t].pc = "insert", ![t].trash = NoTrash]
    BY <1>5 DEF Clean
  <2>2. task'[t].pc = "insert"
    BY <1>1, <2>1 DEF Jobs
  <2>3. QED
    BY <2>2
<1>6. CASE CommitLost(t) /\ ~Ensured(t)
  <2>1. task' = [task EXCEPT ![t].pc = "plan", ![t].tour = @ + 1,
                             ![t].router = 0, ![t].got = NoPair]
    BY <1>6 DEF CommitLost
  <2>2. task'[t].pc = "plan"
    BY <1>1, <2>1 DEF Jobs
  <2>3. QED
    BY <2>2
<1>7. CASE Plan(t) /\ ~Finish(t) /\ ~Ensured(t)
  <2>1. task' = [task EXCEPT ![t].pc = IF router = 0 THEN "create" ELSE "provision",
                             ![t].need = (router = 0), ![t].router = router,
                             ![t].want = Missing, ![t].got = NoPair]
    BY <1>7 DEF Plan
  <2>2. task'[t].pc = IF router = 0 THEN "create" ELSE "provision"
    BY <1>1, <2>1 DEF Jobs
  <2>3. QED
    BY <1>7, <2>2
<1>8. CASE CreateRouter(t)
  <2>1. PICK r \in RouterIds : task' = [task EXCEPT ![t].pc = "provision", ![t].router = r]
    BY <1>8 DEF CreateRouter
  <2>2. task'[t].pc = "provision"
    BY <1>1, <2>1 DEF Jobs
  <2>3. QED
    BY <1>8, <2>2
<1>9. CASE Provision(t)
  <2>1. PICK g : task' = [task EXCEPT ![t].pc = "commit", ![t].got = g]
    BY <1>9 DEF Provision
  <2>2. task'[t].pc = "commit"
    BY <1>1, <2>1 DEF Jobs
  <2>3. QED
    BY <1>9, <2>2
<1>10. CASE Lookup(t) /\ ~Finish(t)
  <2>1. task' = [task EXCEPT ![t].pc = "engine",
                             ![t].got[task[t].who] = pair[task[t].who]]
    BY <1>10 DEF Lookup
  <2>2. task'[t].pc = "engine"
    BY <1>1, <2>1 DEF Jobs
  <2>3. QED
    BY <1>10, <2>2
<1>11. CASE Produce(t) \/ Consume(t)
  <2>1. PICK n \in FlowIds : task' = [task EXCEPT ![t].pc = "record", ![t].made = n]
    BY <1>11 DEF Produce, Consume
  <2>2. task'[t].pc = "record"
    BY <1>1, <2>1 DEF Jobs
  <2>3. QED
    BY <1>11, <2>2
<1>12. CASE Remove(t) \/ (Unpublish(t) /\ ~Finish(t))
  <2>1. PICK x : task' = [task EXCEPT ![t].pc = "clean", ![t].trash = x]
    BY <1>12 DEF Remove, Unpublish
  <2>2. task'[t].pc = "clean"
    BY <1>1, <2>1 DEF Jobs
  <2>3. QED
    BY <1>12, <2>2
<1>13. CASE Enter(t) \/ (Insert(t) /\ ~Finish(t)) \/ (Share(t) /\ ~Finish(t))
  <2>1. \E pc \in {"remove", "insert", "plan", "touch", "lookup"} : Goto(t, pc)
    BY <1>13 DEF Enter, Insert, Share
  <2>2. QED
    BY <1>3, <2>1
<1>14. QED
  BY <1>2, <1>4, <1>5, <1>6, <1>7, <1>8, <1>9, <1>10, <1>11, <1>12, <1>13
  DEF Step, RemoveAbsent, Touch, ProvisionFails, Commit, CommitGone, EngineRefuses,
      RecordPublication, RecordSubscription, GiveUp

\* What a slot has made and must record, and what it must close.
Producing(t) == task[t].pc = "record" /\ Publishing(t)
ToPublish(t) == IF Producing(t) THEN {<<task[t].who, task[t].made>>} ELSE {}
ToWithdraw(t) == IF task[t].pc = "clean" THEN task[t].trash.producers ELSE {}

\* A flow is published, about to be, or about to be closed: never two of these.
FlowInv ==
    /\ \A f \in publications : producers[f] # 0
    /\ \A t \in Slots : task[t].pc = "engine" => task[t].got[task[t].who] # 0
    /\ \A t \in Slots : \A f \in ToPublish(t) : f \notin publications /\ producers[f] # 0
    /\ \A t \in Slots : ToWithdraw(t) \cap publications = {}
    /\ \A t, u \in Slots : ToPublish(t) \cap ToWithdraw(u) = {}
    /\ \A t, u \in Slots : t # u => ToPublish(t) \cap ToPublish(u) = {}

LEMMA FlowInit == Init => FlowInv
<1> SUFFICES ASSUME Init PROVE FlowInv
  OBVIOUS
<1>1. publications = {} /\ \A t \in Slots : task[t].pc = "idle"
  BY DEF Init, Idle
<1>2. QED
  BY <1>1 DEF FlowInv, ToPublish, ToWithdraw, Producing

\* The claims of the slots that do not step stay as they are.
LEMMA OtherFlows ==
    ASSUME TypeOK, NEW t \in Slots, Step(t), NEW u \in Slots, u # t
    PROVE  /\ ToPublish(u)' = ToPublish(u) /\ ToWithdraw(u)' = ToWithdraw(u)
           /\ task'[u] = task[u]
<1>1. task'[u] = task[u]
  BY OneSlot
<1>2. QED
  BY <1>1 DEF ToPublish, ToWithdraw, Producing, Publishing

\* A step that takes on nothing to record or close, and leaves the flows alone.
LEMMA FlowsCalm ==
    ASSUME TypeOK, FlowInv, NEW t \in Slots, Step(t),
           UNCHANGED <<publications, producers>>,
           task'[t].pc \notin {"clean", "record", "engine"}
    PROVE  FlowInv'
<1>1. ToPublish(t)' = {} /\ ToWithdraw(t)' = {}
  BY DEF ToPublish, ToWithdraw, Producing
<1>2. QED
  BY <1>1, OtherFlows DEF FlowInv

LEMMA FlowStep ==
    ASSUME TypeOK, FlowInv, [Next]_vars
    PROVE  FlowInv'
<1> USE DEF engineVars, roomVars
<1>1. ASSUME NEW t \in Slots, Step(t) PROVE FlowInv'
  <2>1. task \in [Slots -> Jobs \cup {Idle}] /\ task[t] \in Jobs
    BY <1>1, OneSlot DEF TypeOK
  <2>2. CASE Remove(t) \/ (Unpublish(t) /\ publications' # publications)
    <3>1. PICK x : /\ task' = [task EXCEPT ![t].pc = "clean", ![t].trash = x]
                   /\ x.producers \subseteq publications
                   /\ publications' \subseteq publications \ x.producers
      <4>1. CASE Remove(t)
        <5> DEFINE gone == {f \in publications : f[1] = task[t].who}
                   y == [producers |-> gone, consumers |-> ConsumersOf({task[t].who}, gone),
                         pairs |-> {<<task[t].who, pair[task[t].who]>>} \cap Pairs,
                         router |-> IF participants = {task[t].who} THEN router ELSE 0]
        <5>1. /\ task' = [task EXCEPT ![t].pc = "clean", ![t].trash = y]
              /\ publications' \subseteq publications \ gone
          BY <4>1 DEF Remove
        <5>2. y.producers = gone /\ gone \subseteq publications
          OBVIOUS
        <5> HIDE DEF y, gone
        <5>3. QED
          BY <5>1, <5>2
      <4>2. CASE Unpublish(t) /\ publications' # publications
        <5> DEFINE h == task[t].flow
                   y == [producers |-> {h}, consumers |-> ConsumersOf({}, {h}),
                         pairs |-> {}, router |-> 0]
        <5>1. /\ task' = [task EXCEPT ![t].pc = "clean", ![t].trash = y]
              /\ publications' = publications \ {h} /\ h \in publications
          BY <4>2 DEF Unpublish
        <5>2. y.producers = {h}
          OBVIOUS
        <5> HIDE DEF y, h
        <5>3. QED
          BY <5>1, <5>2
      <4>3. QED
        BY <2>2, <4>1, <4>2
    <3>2. task'[t].pc = "clean" /\ task'[t].trash = x
      BY <2>1, <3>1 DEF Jobs
    <3>3. ToPublish(t)' = {} /\ ToWithdraw(t)' = x.producers
      BY <3>2 DEF ToPublish, ToWithdraw, Producing
    <3>4. producers' = producers
      BY <2>2 DEF Remove, Unpublish
    <3>5. /\ x.producers \subseteq publications
          /\ publications' \subseteq publications \ x.producers
      BY <3>1
    <3>6. QED
      BY <1>1, <3>2, <3>3, <3>4, <3>5, OtherFlows DEF FlowInv
  <2>3. CASE Clean(t)
    <3>1. task'[t].pc \notin {"clean", "record", "engine"}
      BY <1>1, <2>3, Landing
      DEF Clean, Remove, Unpublish, Produce, Consume, Lookup
    <3>2. ToPublish(t)' = {} /\ ToWithdraw(t)' = {}
      BY <3>1 DEF ToPublish, ToWithdraw, Producing
    <3>3. /\ producers' = [f \in Flows |-> IF f \in ToWithdraw(t) THEN 0 ELSE producers[f]]
          /\ publications' = publications
      BY <2>3 DEF Clean, ToWithdraw
    <3>4. publications \subseteq Flows /\ \A u \in Slots : ToPublish(u) \subseteq Flows
      <4>1. ASSUME NEW u \in Slots, task[u].pc = "record" PROVE <<task[u].who, task[u].made>> \in Flows
        BY <4>1, Working DEF TypeOK, Equipped, Flows, Jobs
      <4>2. QED
        BY <4>1 DEF TypeOK, RoomTypeOK, ToPublish, Producing
    <3>5. \A f \in publications : f \notin ToWithdraw(t)
      BY DEF FlowInv
    <3>6. QED
      BY <1>1, <3>1, <3>2, <3>3, <3>4, <3>5, OtherFlows DEF FlowInv
  <2>4. CASE Lookup(t) /\ ~Finish(t)
    <3>1. /\ task' = [task EXCEPT ![t].pc = "engine",
                                  ![t].got[task[t].who] = pair[task[t].who]]
          /\ pair[task[t].who] # 0
          /\ UNCHANGED <<publications, producers>>
      BY <2>4 DEF Lookup
    <3>2. /\ task'[t].pc = "engine" /\ task'[t].who = task[t].who
          /\ task'[t].got[task[t].who] = pair[task[t].who]
      BY <2>1, <3>1 DEF Jobs
    <3>3. ToPublish(t)' = {} /\ ToWithdraw(t)' = {}
      BY <3>2 DEF ToPublish, ToWithdraw, Producing
    <3>4. task'[t].got[task'[t].who] # 0 /\ UNCHANGED <<publications, producers>>
      BY <3>1, <3>2
    <3>5. QED
      BY <1>1, <3>3, <3>4, OtherFlows DEF FlowInv
  <2>5. CASE Produce(t)
    <3> DEFINE p == task[t].who
    <3>1. PICK n \in FlowIds :
             /\ n \in FreeFlows(p)
             /\ producers' = [producers EXCEPT ![<<p, n>>] = task[t].got[p]]
             /\ task' = [task EXCEPT ![t].pc = "record", ![t].made = n]
      BY <2>5 DEF Produce, FirstOf
    <3>2. task'[t].pc = "record" /\ task'[t].made = n /\ task'[t].who = p
      BY <2>1, <3>1 DEF Jobs
    <3> DEFINE h == <<p, n>>
    <3>3. ToPublish(t)' \subseteq {h} /\ ToWithdraw(t)' = {}
      BY <3>2 DEF ToPublish, ToWithdraw, Producing
    <3>4. /\ h \in Flows /\ h \notin publications
      BY <2>1, <3>1 DEF FreeFlows, Flows, Jobs
    <3>5. \A u \in Slots : h \notin ToPublish(u) /\ h \notin ToWithdraw(u)
      <4> SUFFICES ASSUME NEW u \in Slots PROVE h \notin ToPublish(u) /\ h \notin ToWithdraw(u)
        OBVIOUS
      <4>1. CASE task[u] = Idle
        BY <4>1 DEF Idle, ToPublish, ToWithdraw, Producing
      <4>2. CASE task[u] # Idle
        BY <3>1, <4>2 DEF FreeFlows, Busy, ToPublish, ToWithdraw, Producing, Publishing
      <4>3. QED
        BY <4>1, <4>2
    <3>6. /\ producers'[h] # 0 /\ \A f \in Flows : f # h => producers'[f] = producers[f]
      <4>1. task[t].got[p] # 0
        BY <2>5 DEF Produce, FlowInv
      <4>2. producers \in [Flows -> 0 .. MaxPairs]
        BY DEF TypeOK, EngineTypeOK
      <4>3. QED
        BY <3>1, <3>4, <4>1, <4>2
    <3>7. publications' = publications
      BY <2>5 DEF Produce
    <3>8. publications \subseteq Flows /\ \A u \in Slots : ToPublish(u) \subseteq Flows
      <4>1. ASSUME NEW u \in Slots, task[u].pc = "record" PROVE <<task[u].who, task[u].made>> \in Flows
        BY <4>1, Working DEF TypeOK, Equipped, Flows, Jobs
      <4>2. QED
        BY <4>1 DEF TypeOK, RoomTypeOK, ToPublish, Producing
    <3> HIDE DEF h, p
    <3>9. QED
      BY <1>1, <3>2, <3>3, <3>4, <3>5, <3>6, <3>7, <3>8, OtherFlows DEF FlowInv
  <2>6. CASE RecordPublication(t)
    <3>1. task'[t].pc = "idle"
      BY <2>1, <2>6 DEF RecordPublication, Finish, Idle
    <3>2. ToPublish(t)' = {} /\ ToWithdraw(t)' = {}
      BY <3>1 DEF ToPublish, ToWithdraw, Producing
    <3>3. publications' \subseteq publications \cup ToPublish(t) /\ producers' = producers
      BY <2>6 DEF RecordPublication, ToPublish, Producing
    <3>4. QED
      BY <1>1, <3>1, <3>2, <3>3, OtherFlows DEF FlowInv
  <2>7. CASE ~ (Remove(t) \/ Unpublish(t) \/ Clean(t)
                \/ (Lookup(t) /\ ~Finish(t)) \/ Produce(t) \/ RecordPublication(t))
    <3>1. UNCHANGED <<publications, producers>>
      BY <1>1, <2>7
      DEF Step, Enter, RemoveAbsent, Unpublish, Insert, Touch, Share, Plan, CreateRouter,
          Provision, ProvisionFails, Commit, CommitLost, CommitGone, CloseRouter, Lookup,
          Consume, EngineRefuses, RecordSubscription, GiveUp
    <3>2. Finish(t) => task'[t].pc = "idle"
      BY <2>1 DEF Finish, Idle
    <3>3. CASE Consume(t)
      <4>1. PICK n \in FlowIds : task' = [task EXCEPT ![t].pc = "record", ![t].made = n]
        BY <3>3 DEF Consume
      <4>2. task'[t].pc = "record" /\ task'[t].op = "subscribe"
        BY <2>1, <3>3, <4>1 DEF Consume, Jobs
      <4>3. ToPublish(t)' = {} /\ ToWithdraw(t)' = {}
        BY <4>2 DEF ToPublish, ToWithdraw, Producing, Publishing
      <4>4. QED
        BY <1>1, <3>1, <4>2, <4>3, OtherFlows DEF FlowInv
    <3>4. CASE ~Consume(t)
      <4>1. task'[t].pc \notin {"clean", "record", "engine"}
        BY <1>1, <2>7, <3>2, <3>4, Landing
      <4>2. QED
        BY <1>1, <3>1, <4>1, FlowsCalm
    <3>5. QED
      BY <3>3, <3>4
  <2>8. CASE Unpublish(t) /\ publications' = publications
    <3>1. Finish(t) /\ UNCHANGED <<publications, producers>>
      BY <2>8 DEF Unpublish
    <3>2. task'[t].pc = "idle"
      BY <2>1, <3>1 DEF Finish, Idle
    <3>3. QED
      BY <1>1, <3>1, <3>2, FlowsCalm
  <2>9. QED
    BY <2>2, <2>3, <2>4, <2>5, <2>6, <2>7, <2>8
<1>2. ASSUME NEW t \in Slots, NEW j, task' = [task EXCEPT ![t] = j], task[t] = Idle,
             j.pc \notin {"clean", "record", "engine"},
             UNCHANGED <<publications, producers>>
      PROVE  FlowInv'
  <2>1. task \in [Slots -> Jobs \cup {Idle}]
    BY DEF TypeOK
  <2>2. task'[t].pc \notin {"clean", "record", "engine"}
        /\ \A u \in Slots : u # t => task'[u] = task[u]
    BY <1>2, <2>1
  <2>3. ToPublish(t)' = {} /\ ToWithdraw(t)' = {}
    BY <2>2 DEF ToPublish, ToWithdraw, Producing
  <2>4. \A u \in Slots : u # t => ToPublish(u)' = ToPublish(u) /\ ToWithdraw(u)' = ToWithdraw(u)
    BY <2>2 DEF ToPublish, ToWithdraw, Producing, Publishing
  <2>5. QED
    BY <1>2, <2>2, <2>3, <2>4 DEF FlowInv
<1>3. CASE UNCHANGED <<task, publications, producers>>
  BY <1>3 DEF FlowInv, ToPublish, ToWithdraw, Producing, Publishing
<1>4. ASSUME NEW t \in Slots, NEW op, NEW p, NEW f, Request(t, op, p, f) \/
             (t = Evictor /\ op = "leave" /\ f = NoFlow /\ Evict(p)), op \in AllOps
      PROVE  FlowInv'
  <2>1. Job(op, p, f).pc \notin {"clean", "record", "engine"}
    BY <1>4 DEF Job, FirstStep, AllOps
  <2>2. QED
    BY <1>2, <1>4, <2>1 DEF Request, Evict
<1>5. QED
  <2>1. Evictor \in Slots /\ Tasks \subseteq Slots /\ Ops \subseteq AllOps
    BY SfuAssumption DEF Slots
  <2>2. ASSUME NEW p \in Participants, Evict(p) PROVE FlowInv'
    <3>1. "leave" \in AllOps
      BY DEF AllOps
    <3>2. QED
      BY <1>4, <2>1, <2>2, <3>1
  <2>3. QED
    BY <1>1, <1>3, <1>4, <2>1, <2>2 DEF Next, Heartbeat, Age, Scan, vars

\* The consumers of the subscriptions, and what a slot has made and must record,
\* and what it must close.
Received == ConsumersOf(Participants, {})
Consuming(t) == task[t].pc = "record" /\ task[t].op = "subscribe"
ToReceive(t) == IF Consuming(t) THEN {<<task[t].who, task[t].made>>} ELSE {}
ToDrop(t) == IF task[t].pc = "clean" THEN task[t].trash.consumers ELSE {}

\* A consumer is that of one subscription, about to be, or about to be closed.
ConsumerInv ==
    /\ OneConsumerEach
    /\ Received \subseteq consumers
    /\ \A t \in Slots : ToReceive(t) \subseteq consumers \ Received
    /\ \A t \in Slots : ToDrop(t) \cap Received = {}
    /\ \A t, u \in Slots : ToReceive(t) \cap ToDrop(u) = {}
    /\ \A t, u \in Slots : t # u => ToReceive(t) \cap ToReceive(u) = {}

LEMMA IsReceived ==
    \A x : x \in Received <=>
        \E p \in Participants, f \in Flows :
            subscriptions[p][f] # 0 /\ x = <<p, subscriptions[p][f]>>
<1> SUFFICES ASSUME NEW x
             PROVE  x \in Received <=>
                       \E p \in Participants, f \in Flows :
                          subscriptions[p][f] # 0 /\ x = <<p, subscriptions[p][f]>>
  OBVIOUS
<1>1. ASSUME x \in Received
      PROVE  \E p \in Participants, f \in Flows :
                subscriptions[p][f] # 0 /\ x = <<p, subscriptions[p][f]>>
  BY <1>1 DEF Received, ConsumersOf
<1>2. ASSUME NEW p \in Participants, NEW f \in Flows,
             subscriptions[p][f] # 0, x = <<p, subscriptions[p][f]>>
      PROVE  x \in Received
  <2>1. /\ <<p, f>> \in Participants \X Flows
        /\ <<p, f>>[1] = p /\ <<p, f>>[2] = f
    OBVIOUS
  <2>2. PICK y \in Participants \X Flows : y[1] = p /\ y[2] = f
    BY <2>1
  <2>3. /\ subscriptions[y[1]][y[2]] # 0 /\ y[1] \in Participants
        /\ x = <<y[1], subscriptions[y[1]][y[2]]>>
    BY <1>2, <2>2
  <2>4. QED
    BY <2>2, <2>3 DEF Received, ConsumersOf
<1>3. QED
  BY <1>1, <1>2

LEMMA ConsumerInit == Init => ConsumerInv
<1> SUFFICES ASSUME Init PROVE ConsumerInv
  OBVIOUS
<1>1. /\ \A t \in Slots : task[t].pc = "idle"
      /\ \A p \in Participants, f \in Flows : subscriptions[p][f] = 0
  BY DEF Init, Idle, NoSubscription
<1>2. Received = {} /\ OneConsumerEach
  BY <1>1, IsReceived DEF OneConsumerEach
<1>3. QED
  BY <1>1, <1>2 DEF ConsumerInv, ToReceive, ToDrop, Consuming

LEMMA OtherConsumers ==
    ASSUME TypeOK, NEW t \in Slots, Step(t), NEW u \in Slots, u # t
    PROVE  ToReceive(u)' = ToReceive(u) /\ ToDrop(u)' = ToDrop(u)
<1>1. task'[u] = task[u]
  BY OneSlot
<1>2. QED
  BY <1>1 DEF ToReceive, ToDrop, Consuming

\* A step that makes and closes no consumer: what it subscribes to it had made,
\* and what it must close was received until then.
LEMMA ConsumersKept ==
    ASSUME TypeOK, ConsumerInv, NEW t \in Slots, Step(t),
           consumers' = consumers, OneConsumerEach',
           Received' \subseteq Received \cup ToReceive(t),
           ToReceive(t)' = {}, ToDrop(t)' \subseteq Received \ Received'
    PROVE  ConsumerInv'
BY OtherConsumers DEF ConsumerInv

LEMMA ConsumersCalm ==
    ASSUME TypeOK, ConsumerInv, NEW t \in Slots, Step(t),
           UNCHANGED <<subscriptions, consumers>>,
           task'[t].pc \notin {"clean", "record"}
    PROVE  ConsumerInv'
<1>1. ToReceive(t)' = {} /\ ToDrop(t)' = {}
  BY DEF ToReceive, ToDrop, Consuming
<1>2. Received' = Received /\ OneConsumerEach'
  BY DEF Received, ConsumersOf, ConsumerInv, OneConsumerEach
<1>3. QED
  BY <1>1, <1>2, ConsumersKept

\* A removal forgets subscriptions and closes the consumers of these.
LEMMA ConsumersLeft ==
    ASSUME TypeOK, ConsumerInv, NEW t \in Slots, Step(t),
           NEW ps, NEW fs,
           \A p \in Participants, f \in Flows :
              subscriptions'[p][f] = IF p \in ps \/ f \in fs THEN 0 ELSE subscriptions[p][f],
           task'[t].pc = "clean", task'[t].trash.consumers = ConsumersOf(ps, fs),
           consumers' = consumers
    PROVE  ConsumerInv'
<1>1. ToReceive(t)' = {} /\ ToDrop(t)' = ConsumersOf(ps, fs)
  BY DEF ToReceive, ToDrop, Consuming
<1>2. OneConsumerEach /\ OneConsumerEach'
  BY DEF ConsumerInv, OneConsumerEach
<1>3. ASSUME NEW y \in Received'
      PROVE  y \in Received /\ y \notin ConsumersOf(ps, fs)
  <2>1. PICK p \in Participants, f \in Flows :
           subscriptions'[p][f] # 0 /\ y = <<p, subscriptions'[p][f]>>
    BY <1>3 DEF Received, ConsumersOf
  <2>2. /\ p \notin ps /\ f \notin fs
        /\ subscriptions[p][f] # 0 /\ y = <<p, subscriptions[p][f]>>
    BY <2>1
  <2>3. SUFFICES ASSUME NEW q \in Participants, NEW g \in Flows, subscriptions[q][g] # 0,
                        q \in ps \/ g \in fs, y = <<q, subscriptions[q][g]>>
                 PROVE  FALSE
    BY <2>2, IsReceived DEF ConsumersOf
  <2>4. q = p /\ g = f
    BY <1>2, <2>2, <2>3 DEF OneConsumerEach
  <2>5. QED
    BY <2>2, <2>3, <2>4
<1>4. ConsumersOf(ps, fs) \subseteq Received
  BY IsReceived DEF ConsumersOf
<1>5. QED
  BY <1>1, <1>2, <1>3, <1>4, ConsumersKept

LEMMA ConsumerStep ==
    ASSUME TypeOK, ConsumerInv, [Next]_vars
    PROVE  ConsumerInv'
<1> USE DEF engineVars, roomVars
<1>1. ASSUME NEW t \in Slots, Step(t) PROVE ConsumerInv'
  <2>1. task \in [Slots -> Jobs \cup {Idle}] /\ task[t] \in Jobs
    BY <1>1, OneSlot DEF TypeOK
  <2>2. CASE Remove(t)
    <3> DEFINE p == task[t].who
               gone == {f \in publications : f[1] = p}
               x == [producers |-> gone, consumers |-> ConsumersOf({p}, gone),
                     pairs |-> {<<p, pair[p]>>} \cap Pairs,
                     router |-> IF participants = {p} THEN router ELSE 0]
    <3>1. /\ task' = [task EXCEPT ![t].pc = "clean", ![t].trash = x]
          /\ consumers' = consumers
          /\ subscriptions' = [q \in Participants |-> [f \in Flows |->
                  IF q = p \/ f \in gone THEN 0 ELSE subscriptions[q][f]]]
      BY <2>2 DEF Remove
    <3>2. x.consumers = ConsumersOf({p}, gone)
      OBVIOUS
    <3> HIDE DEF p, gone, x
    <3>3. task'[t].pc = "clean" /\ task'[t].trash = x
      BY <2>1, <3>1 DEF Jobs
    <3>4. \A q \in Participants, f \in Flows :
             subscriptions'[q][f] =
                IF q \in {p} \/ f \in gone THEN 0 ELSE subscriptions[q][f]
      BY <3>1
    <3>5. QED
      BY <1>1, <3>1, <3>2, <3>3, <3>4, ConsumersLeft
  <2>3. CASE Unpublish(t) /\ publications' # publications
    <3> DEFINE h == task[t].flow
               x == [producers |-> {h}, consumers |-> ConsumersOf({}, {h}),
                     pairs |-> {}, router |-> 0]
    <3>1. /\ task' = [task EXCEPT ![t].pc = "clean", ![t].trash = x]
          /\ consumers' = consumers
          /\ subscriptions' = [q \in Participants |-> [subscriptions[q] EXCEPT ![h] = 0]]
      BY <2>3 DEF Unpublish
    <3>2. x.consumers = ConsumersOf({}, {h})
      OBVIOUS
    <3> HIDE DEF h, x
    <3>3. task'[t].pc = "clean" /\ task'[t].trash = x
      BY <2>1, <3>1 DEF Jobs
    <3>4. \A q \in Participants, f \in Flows :
             subscriptions'[q][f] = IF q \in {} \/ f \in {h} THEN 0 ELSE subscriptions[q][f]
      <4>1. \A q \in Participants : subscriptions[q] \in [Flows -> 0 .. MaxFlows]
        BY DEF TypeOK, RoomTypeOK
      <4>2. SUFFICES ASSUME NEW q \in Participants, NEW f \in Flows
                     PROVE  subscriptions'[q][f] = IF f = h THEN 0 ELSE subscriptions[q][f]
        OBVIOUS
      <4>3. subscriptions'[q] = [subscriptions[q] EXCEPT ![h] = 0]
        BY <3>1
      <4>4. QED
        BY <4>1, <4>3
    <3>5. PICK ps, fs : ps = {} /\ fs = {h}
      OBVIOUS
    <3>6. \A q \in Participants, f \in Flows :
             subscriptions'[q][f] = IF q \in ps \/ f \in fs THEN 0 ELSE subscriptions[q][f]
      BY <3>4, <3>5
    <3>7. task'[t].trash.consumers = ConsumersOf(ps, fs)
      BY <3>2, <3>3, <3>5
    <3>8. consumers' = consumers /\ task'[t].pc = "clean"
      BY <3>1, <3>3
    <3>9. QED
      BY <1>1, <3>6, <3>7, <3>8, ConsumersLeft
  <2>4. CASE Unpublish(t) /\ publications' = publications
    <3>1. Finish(t) /\ UNCHANGED <<subscriptions, consumers>>
      BY <2>4 DEF Unpublish
    <3>2. task'[t].pc = "idle"
      BY <2>1, <3>1 DEF Finish, Idle
    <3>3. QED
      BY <1>1, <3>1, <3>2, ConsumersCalm
  <2>5. CASE Clean(t)
    <3>1. task'[t].pc \notin {"clean", "record"}
      BY <1>1, <2>5, Landing DEF Clean, Remove, Unpublish, Produce, Consume
    <3>2. ToReceive(t)' = {} /\ ToDrop(t)' = {}
      BY <3>1 DEF ToReceive, ToDrop, Consuming
    <3>3. consumers' = consumers \ ToDrop(t) /\ subscriptions' = subscriptions
      BY <2>5 DEF Clean, ToDrop
    <3>4. Received' = Received /\ OneConsumerEach'
      BY <3>3 DEF Received, ConsumersOf, ConsumerInv, OneConsumerEach
    <3>5. QED
      BY <1>1, <3>2, <3>3, <3>4, OtherConsumers DEF ConsumerInv
  <2>6. CASE Insert(t)
    <3>1. /\ UNCHANGED consumers
          /\ \/ subscriptions' = subscriptions
             \/ subscriptions' = [subscriptions EXCEPT ![task[t].who] = NoSubscription]
      BY <2>6 DEF Insert
    <3>2. \A q \in Participants, f \in Flows :
             subscriptions'[q][f] # 0 => subscriptions'[q][f] = subscriptions[q][f]
      BY <3>1 DEF TypeOK, RoomTypeOK, NoSubscription
    <3>3. Received' \subseteq Received /\ OneConsumerEach'
      BY <3>2 DEF Received, ConsumersOf, ConsumerInv, OneConsumerEach
    <3>4. task'[t].pc \notin {"clean", "record"}
      BY <1>1, <2>6, Landing DEF Insert, Remove, Unpublish, Produce, Consume
    <3>5. ToReceive(t)' = {} /\ ToDrop(t)' = {}
      BY <3>4 DEF ToReceive, ToDrop, Consuming
    <3>6. QED
      BY <1>1, <3>1, <3>3, <3>5, ConsumersKept
  <2>7. CASE Consume(t)
    <3> DEFINE p == task[t].who
    <3>1. PICK n \in FlowIds :
             /\ n \in FreeConsumers(p)
             /\ consumers' = consumers \cup {<<p, n>>}
             /\ task' = [task EXCEPT ![t].pc = "record", ![t].made = n]
      BY <2>7 DEF Consume, FirstOf
    <3>2. task'[t].pc = "record" /\ task'[t].made = n /\ task'[t].who = p
      BY <2>1, <3>1 DEF Jobs
    <3> DEFINE h == <<p, n>>
    <3>3. ToReceive(t)' \subseteq {h} /\ ToDrop(t)' = {}
      BY <3>2 DEF ToReceive, ToDrop, Consuming
    <3>4. \A u \in Slots : h \notin ToReceive(u) /\ h \notin ToDrop(u)
      <4> SUFFICES ASSUME NEW u \in Slots PROVE h \notin ToReceive(u) /\ h \notin ToDrop(u)
        OBVIOUS
      <4>1. CASE task[u] = Idle
        BY <4>1 DEF Idle, ToReceive, ToDrop, Consuming
      <4>2. CASE task[u] # Idle
        BY <3>1, <4>2 DEF FreeConsumers, Busy, ToReceive, ToDrop, Consuming
      <4>3. QED
        BY <4>1, <4>2
    <3>5. h \notin consumers
      BY <3>1 DEF FreeConsumers
    <3>6. subscriptions' = subscriptions
      BY <2>7 DEF Consume
    <3>7. Received' = Received /\ OneConsumerEach'
      BY <3>6 DEF Received, ConsumersOf, ConsumerInv, OneConsumerEach
    <3>8. consumers' = consumers \cup {h}
      BY <3>1
    <3> HIDE DEF h, p
    <3>9. QED
      BY <1>1, <3>3, <3>4, <3>5, <3>7, <3>8, OtherConsumers DEF ConsumerInv
  <2>8. CASE RecordSubscription(t)
    <3> DEFINE p == task[t].who
               n == task[t].made
    <3>1. task'[t].pc = "idle"
      BY <2>1, <2>8 DEF RecordSubscription, Finish, Idle
    <3>2. ToReceive(t)' = {} /\ ToDrop(t)' = {} /\ ToReceive(t) = {<<p, n>>}
      BY <2>8, <3>1 DEF RecordSubscription, ToReceive, ToDrop, Consuming
    <3>3. /\ consumers' = consumers
          /\ \/ subscriptions' = subscriptions
             \/ subscriptions' = [subscriptions EXCEPT ![p][task[t].flow] = n]
      BY <2>8 DEF RecordSubscription
    <3>4. p \in Participants /\ subscriptions \in [Participants -> [Flows -> 0 .. MaxFlows]]
      BY <2>1 DEF Jobs, TypeOK, RoomTypeOK
    <3>5. \A f \in Flows : subscriptions[p][f] # 0 => subscriptions[p][f] # n
      <4>1. <<p, n>> \notin Received
        BY <3>2 DEF ConsumerInv
      <4>2. QED
        BY <3>4, <4>1, IsReceived
    <3> DEFINE g == task[t].flow
    <3> HIDE DEF p, n, g
    <3>6. \A q \in Participants, f \in Flows :
             \/ subscriptions'[q][f] = subscriptions[q][f]
             \/ q = p /\ f = g /\ subscriptions'[q][f] = n
      BY <3>3, <3>4 DEF g
    <3>7. Received' \subseteq Received \cup {<<p, n>>}
      <4>1. SUFFICES ASSUME NEW q \in Participants, NEW f \in Flows, subscriptions'[q][f] # 0
                     PROVE  <<q, subscriptions'[q][f]>> \in Received \cup {<<p, n>>}
        BY DEF Received, ConsumersOf
      <4>2. CASE subscriptions'[q][f] = subscriptions[q][f]
        BY <4>1, <4>2, IsReceived
      <4>3. QED
        BY <3>6, <4>2
    <3>8. OneConsumerEach'
      <4>1. OneConsumerEach
        BY DEF ConsumerInv
      <4>2. QED
        BY <3>5, <3>6, <4>1 DEF OneConsumerEach
    <3>9. QED
      BY <1>1, <3>2, <3>3, <3>7, <3>8, ConsumersKept
  <2>9. CASE ~ (Remove(t) \/ Unpublish(t) \/ Clean(t) \/ Insert(t) \/ Consume(t)
                \/ RecordSubscription(t))
    <3>1. UNCHANGED <<subscriptions, consumers>>
      BY <1>1, <2>9
      DEF Step, Enter, RemoveAbsent, Touch, Share, Plan, CreateRouter,
          Provision, ProvisionFails, Commit, CommitLost, CommitGone, CloseRouter, Lookup,
          Produce, EngineRefuses, RecordPublication, GiveUp
    <3>2. CASE Produce(t)
      <4>1. PICK n \in FlowIds : task' = [task EXCEPT ![t].pc = "record", ![t].made = n]
        BY <3>2 DEF Produce
      <4>2. task'[t].pc = "record" /\ task'[t].op # "subscribe"
        BY <2>1, <3>2, <4>1 DEF Produce, Publishing, Jobs
      <4>3. ToReceive(t)' = {} /\ ToDrop(t)' = {}
        BY <4>2 DEF ToReceive, ToDrop, Consuming
      <4>4. Received' = Received /\ OneConsumerEach'
        BY <3>1 DEF Received, ConsumersOf, ConsumerInv, OneConsumerEach
      <4>5. QED
        BY <1>1, <3>1, <4>3, <4>4, ConsumersKept
    <3>3. CASE ~Produce(t)
      <4>1. task'[t].pc \notin {"clean", "record"}
        BY <1>1, <2>9, <3>3, Landing
      <4>2. QED
        BY <1>1, <3>1, <4>1, ConsumersCalm
    <3>4. QED
      BY <3>2, <3>3
  <2>10. QED
    BY <2>2, <2>3, <2>4, <2>5, <2>6, <2>7, <2>8, <2>9
<1>2. ASSUME UNCHANGED <<subscriptions, consumers>>
      PROVE  Received' = Received /\ (OneConsumerEach => OneConsumerEach')
  BY <1>2 DEF Received, ConsumersOf, OneConsumerEach
<1>3. ASSUME NEW t \in Slots, NEW j, task' = [task EXCEPT ![t] = j],
             j.pc \notin {"clean", "record"},
             UNCHANGED <<subscriptions, consumers>>
      PROVE  ConsumerInv'
  <2>1. task \in [Slots -> Jobs \cup {Idle}]
    BY DEF TypeOK
  <2>2. task'[t].pc \notin {"clean", "record"}
        /\ \A u \in Slots : u # t => task'[u] = task[u]
    BY <1>3, <2>1
  <2>3. ToReceive(t)' = {} /\ ToDrop(t)' = {}
    BY <2>2 DEF ToReceive, ToDrop, Consuming
  <2>4. \A u \in Slots : u # t => ToReceive(u)' = ToReceive(u) /\ ToDrop(u)' = ToDrop(u)
    BY <2>2 DEF ToReceive, ToDrop, Consuming
  <2>5. consumers' = consumers
    BY <1>3
  <2>6. QED
    BY <1>2, <1>3, <2>3, <2>4, <2>5 DEF ConsumerInv
<1>4. CASE UNCHANGED <<task, subscriptions, consumers>>
  BY <1>2, <1>4 DEF ConsumerInv, ToReceive, ToDrop, Consuming
<1>5. ASSUME NEW t \in Slots, NEW op, NEW p, NEW f, Request(t, op, p, f) \/
             (t = Evictor /\ op = "leave" /\ f = NoFlow /\ Evict(p)), op \in AllOps
      PROVE  ConsumerInv'
  <2>1. Job(op, p, f).pc \notin {"clean", "record"}
    BY <1>5 DEF Job, FirstStep, AllOps
  <2>2. QED
    BY <1>3, <1>5, <2>1 DEF Request, Evict
<1>6. QED
  <2>1. Evictor \in Slots /\ Tasks \subseteq Slots /\ Ops \subseteq AllOps
    BY SfuAssumption DEF Slots
  <2>2. ASSUME NEW p \in Participants, Evict(p) PROVE ConsumerInv'
    <3>1. "leave" \in AllOps
      BY DEF AllOps
    <3>2. QED
      BY <1>5, <2>1, <2>2, <3>1
  <2>3. QED
    BY <1>1, <1>4, <1>5, <2>1, <2>2 DEF Next, Heartbeat, Age, Scan, vars

\* The router that a migration creates, that it works on, that a removal must
\* close.
Making(t) == task[t].pc \in {"provision", "commit"} /\ task[t].need
Own(t) == IF Making(t) THEN {task[t].router} ELSE {}
Uses(t) == IF task[t].pc \in {"provision", "commit"} THEN {task[t].router} ELSE {}
Drops(t) == IF task[t].pc = "clean" THEN {task[t].trash.router} \ {0} ELSE {}

\* A router that a migration creates is nobody else's, and every router is the
\* room's or has somebody to commit it or to close it.
RouterInv ==
    /\ \A t \in Slots : task[t].pc = "create" => task[t].need
    /\ \A t \in Slots : 0 \notin Uses(t)
    /\ \A t \in Slots : Own(t) \subseteq routers /\ router \notin Own(t)
    /\ \A t, u \in Slots : t # u => Own(t) \cap Uses(u) = {}
    /\ \A t, u \in Slots : Own(t) \cap Drops(u) = {}
    /\ \A r \in routers : r = router \/ \E t \in Slots : r \in Own(t) \cup Drops(t)

\* A crowded room in mesh has a migration under way.
Migrating(t) == task[t].pc \in {"plan", "create"} \/ Making(t)
CrowdInv ==
    Cardinality(participants) > MeshThreshold /\ router = 0 =>
        \E t \in Slots : Migrating(t)

LEMMA RouterInit == Init => RouterInv /\ CrowdInv
<1> SUFFICES ASSUME Init PROVE RouterInv /\ CrowdInv
  OBVIOUS
<1>1. routers = {} /\ participants = {} /\ \A t \in Slots : task[t].pc = "idle"
  BY DEF Init, Idle
<1>2. RouterInv
  BY <1>1 DEF RouterInv, Own, Uses, Drops, Making
<1>3. CrowdInv
  BY <1>1, FS_EmptySet, SfuAssumption DEF CrowdInv
<1>4. QED
  BY <1>2, <1>3

LEMMA OtherRouters ==
    ASSUME TypeOK, NEW t \in Slots, Step(t), NEW u \in Slots, u # t
    PROVE  /\ Own(u)' = Own(u) /\ Uses(u)' = Uses(u) /\ Drops(u)' = Drops(u)
           /\ task'[u] = task[u] /\ (Migrating(u) => Migrating(u)')
<1>1. task'[u] = task[u]
  BY OneSlot
<1>2. QED
  BY <1>1 DEF Own, Uses, Drops, Making, Migrating

\* A step that takes on no router and had none to itself.
LEMMA RoutersCalm ==
    ASSUME TypeOK, RouterInv, NEW t \in Slots, Step(t),
           UNCHANGED <<router, routers>>, Own(t) = {}, Drops(t) = {},
           task'[t].pc \notin {"clean", "create", "provision", "commit"}
    PROVE  RouterInv'
<1>1. Own(t)' = {} /\ Uses(t)' = {} /\ Drops(t)' = {}
  BY DEF Own, Uses, Drops, Making
<1>2. QED
  BY <1>1, OtherRouters DEF RouterInv

LEMMA RouterStep ==
    ASSUME TypeOK, ~Failures, RouterInv, [Next]_vars
    PROVE  RouterInv'
<1> USE DEF engineVars, roomVars
<1>0. routers \subseteq RouterIds /\ 0 \notin RouterIds
  BY SfuAssumption DEF TypeOK, EngineTypeOK, RouterIds
<1>1. ASSUME NEW t \in Slots, Step(t) PROVE RouterInv'
  <2>1. task \in [Slots -> Jobs \cup {Idle}] /\ task[t] \in Jobs
    BY <1>1, OneSlot DEF TypeOK
  <2>2. Finish(t) => task'[t].pc = "idle"
    BY <2>1 DEF Finish, Idle
  <2>3. CASE Remove(t)
    <3> DEFINE last == participants = {task[t].who}
               x == [producers |-> {f \in publications : f[1] = task[t].who},
                     consumers |-> ConsumersOf({task[t].who},
                                               {f \in publications : f[1] = task[t].who}),
                     pairs |-> {<<task[t].who, pair[task[t].who]>>} \cap Pairs,
                     router |-> IF last THEN router ELSE 0]
    <3>1. /\ task' = [task EXCEPT ![t].pc = "clean", ![t].trash = x]
          /\ router' = IF last THEN 0 ELSE router
          /\ routers' = routers
          /\ task[t].pc = "remove"
      BY <2>3 DEF Remove
    <3>2. x.router = IF last THEN router ELSE 0
      OBVIOUS
    <3> HIDE DEF x, last
    <3>3. task'[t].pc = "clean" /\ task'[t].trash = x
      BY <2>1, <3>1 DEF Jobs
    <3>4. /\ Own(t)' = {} /\ Uses(t)' = {} /\ Own(t) = {} /\ Drops(t) = {}
          /\ Drops(t)' = IF last THEN {router} \ {0} ELSE {}
      BY <3>1, <3>2, <3>3 DEF Own, Uses, Drops, Making
    <3>5. router' = (IF last THEN 0 ELSE router) /\ routers' = routers
      BY <3>1
    <3>6. task'[t].pc # "create"
      BY <3>3
    <3>7. \A u \in Slots : 0 \notin Own(u)
      BY DEF RouterInv, Own, Uses, Making
    <3>8. QED
      BY <1>0, <1>1, <3>4, <3>5, <3>6, <3>7, OtherRouters DEF RouterInv
  <2>4. CASE Unpublish(t)
    <3>1. UNCHANGED <<router, routers>> /\ task[t].pc = "remove"
      BY <2>4 DEF Unpublish
    <3>2. Own(t)' = {} /\ Uses(t)' = {} /\ Drops(t)' = {} /\ task'[t].pc # "create"
      <4>1. CASE Finish(t)
        BY <2>2, <4>1 DEF Own, Uses, Drops, Making
      <4>2. CASE ~Finish(t)
        <5> DEFINE x == [producers |-> {task[t].flow},
                         consumers |-> ConsumersOf({}, {task[t].flow}),
                         pairs |-> {}, router |-> 0]
        <5>1. task' = [task EXCEPT ![t].pc = "clean", ![t].trash = x]
          BY <2>4, <4>2 DEF Unpublish
        <5>2. x.router = 0
          OBVIOUS
        <5> HIDE DEF x
        <5>3. task'[t].pc = "clean" /\ task'[t].trash = x
          BY <2>1, <5>1 DEF Jobs
        <5>4. QED
          BY <5>2, <5>3 DEF Own, Uses, Drops, Making
      <4>3. QED
        BY <4>1, <4>2
    <3>3. Own(t) = {} /\ Drops(t) = {}
      BY <3>1 DEF Own, Drops, Making
    <3>4. QED
      BY <1>1, <3>1, <3>2, <3>3, OtherRouters DEF RouterInv
  <2>5. CASE Clean(t)
    <3>1. task'[t].pc \notin {"clean", "create", "provision", "commit"}
      BY <1>1, <2>5, Landing
      DEF Clean, Remove, Unpublish, Plan, CreateRouter, Provision
    <3>2. Own(t)' = {} /\ Uses(t)' = {} /\ Drops(t)' = {} /\ Own(t) = {}
      BY <2>5, <3>1 DEF Clean, Own, Uses, Drops, Making
    <3>3. routers' = routers \ Drops(t) /\ router' = router
      BY <1>0, <2>5 DEF Clean, Drops
    <3>4. QED
      BY <1>1, <3>1, <3>2, <3>3, OtherRouters DEF RouterInv
  <2>6. CASE Plan(t)
    <3>1. UNCHANGED <<router, routers>> /\ task[t].pc = "plan"
      BY <2>6 DEF Plan
    <3>2. Own(t) = {} /\ Drops(t) = {}
      BY <3>1 DEF Own, Drops, Making
    <3>3. CASE Finish(t) \/ Ensured(t)
      <4>1. task'[t].pc \in {"idle", "touch", "lookup"}
        <5>1. CASE Goto(t, "touch") \/ Goto(t, "lookup")
          BY <2>1, <5>1, MovedOn
        <5>2. QED
          BY <2>2, <3>3, <5>1 DEF Ensured
      <4>2. QED
        BY <1>1, <3>1, <3>2, <4>1, RoutersCalm
    <3>4. CASE ~ (Finish(t) \/ Ensured(t))
      <4>1. task' = [task EXCEPT ![t].pc = IF router = 0 THEN "create" ELSE "provision",
                                 ![t].need = (router = 0), ![t].router = router,
                                 ![t].want = Missing, ![t].got = NoPair]
        BY <2>6, <3>4 DEF Plan
      <4>2. /\ task'[t].pc = IF router = 0 THEN "create" ELSE "provision"
            /\ task'[t].need = (router = 0) /\ task'[t].router = router
        BY <2>1, <4>1 DEF Jobs
      <4>3. /\ Own(t)' = {} /\ Drops(t)' = {}
            /\ Uses(t)' = IF router = 0 THEN {} ELSE {router}
            /\ task'[t].pc = "create" => task'[t].need
        BY <4>2 DEF Own, Uses, Drops, Making
      <4>4. QED
        BY <1>1, <3>1, <3>2, <4>3, OtherRouters DEF RouterInv
    <3>5. QED
      BY <3>3, <3>4
  <2>7. CASE CreateRouter(t)
    <3>1. PICK r \in RouterIds :
             /\ r \in FreeRouters
             /\ routers' = routers \cup {r}
             /\ task' = [task EXCEPT ![t].pc = "provision", ![t].router = r]
      BY <2>7 DEF CreateRouter, FirstOf
    <3>2. task[t].pc = "create" /\ router' = router /\ task[t].need
      BY <2>7 DEF CreateRouter, RouterInv
    <3>3. task'[t].pc = "provision" /\ task'[t].router = r /\ task'[t].need = task[t].need
      BY <2>1, <3>1 DEF Jobs
    <3>4. /\ Own(t)' = {r} /\ Uses(t)' = {r} /\ Drops(t)' = {}
          /\ Own(t) = {} /\ Drops(t) = {}
      BY <3>2, <3>3 DEF Own, Uses, Drops, Making
    <3>5. r \notin routers /\ r # router /\ r # 0
      BY <1>0, <3>1 DEF FreeRouters
    <3>6. \A u \in Slots : r \notin Uses(u) /\ r \notin Drops(u)
      <4> SUFFICES ASSUME NEW u \in Slots PROVE r \notin Uses(u) /\ r \notin Drops(u)
        OBVIOUS
      <4>1. CASE task[u] = Idle
        BY <4>1 DEF Idle, Uses, Drops
      <4>2. CASE task[u] # Idle
        <5>1. task[u].router # r /\ task[u].trash.router # r
          BY <3>1, <4>2 DEF FreeRouters, Busy
        <5>2. QED
          BY <5>1 DEF Uses, Drops
      <4>3. QED
        BY <4>1, <4>2
    <3>7. routers' = routers \cup {r} /\ router' = router /\ task'[t].pc # "create"
      BY <3>1, <3>2, <3>3
    <3>8. QED
      BY <1>1, <3>4, <3>5, <3>6, <3>7, OtherRouters DEF RouterInv
  <2>8. CASE Provision(t)
    <3>1. PICK g : task' = [task EXCEPT ![t].pc = "commit", ![t].got = g]
      BY <2>8 DEF Provision
    <3>2. UNCHANGED <<router, routers>> /\ task[t].pc = "provision"
      BY <2>8 DEF Provision
    <3>3. /\ task'[t].pc = "commit" /\ task'[t].router = task[t].router
          /\ task'[t].need = task[t].need
      BY <2>1, <3>1 DEF Jobs
    <3>4. /\ Own(t)' = Own(t) /\ Uses(t)' = Uses(t) /\ Drops(t)' = Drops(t)
          /\ task'[t].pc # "create"
      BY <3>2, <3>3 DEF Own, Uses, Drops, Making
    <3>5. \A u \in Slots : Own(u)' = Own(u) /\ Uses(u)' = Uses(u) /\ Drops(u)' = Drops(u)
      BY <1>1, <3>4, OtherRouters
    <3>6. \A u \in Slots : task'[u].pc = "create" => task[u].pc = "create" /\ task'[u].need = task[u].need
      BY <1>1, <3>4, OtherRouters
    <3>7. QED
      BY <3>2, <3>5, <3>6 DEF RouterInv
  <2>9. CASE ProvisionFails(t)
    <3>1. /\ UNCHANGED <<router, routers>> /\ Finish(t)
          /\ task[t].pc = "provision" /\ task[t].router \notin routers
      BY <2>9 DEF ProvisionFails
    <3>2. Own(t) = {} /\ Drops(t) = {}
      BY <3>1 DEF RouterInv, Own, Drops
    <3>3. QED
      BY <1>1, <2>2, <3>1, <3>2, RoutersCalm
  <2>10. CASE Commit(t) \/ CommitLost(t) \/ CommitGone(t)
    <3>1. task[t].pc = "commit"
      BY <2>10 DEF Commit, CommitLost, CommitGone
    <3>2. task'[t].pc \notin {"clean", "create", "provision", "commit"}
      BY <1>1, <2>10, <3>1, Landing
      DEF Remove, Unpublish, Plan, CreateRouter, Provision
    <3>3. /\ Own(t)' = {} /\ Uses(t)' = {} /\ Drops(t)' = {} /\ Drops(t) = {}
          /\ Uses(t) = {task[t].router}
          /\ Own(t) = IF task[t].need THEN {task[t].router} ELSE {}
      BY <3>1, <3>2 DEF Own, Uses, Drops, Making
    <3>4. CASE Commit(t)
      <4>1. /\ router' = IF router = 0 THEN task[t].router ELSE router
            /\ routers' = routers
            /\ task[t].need => router \in {0, task[t].router}
        BY <3>4 DEF Commit, LostRace
      <4>2. QED
        BY <1>0, <1>1, <3>2, <3>3, <4>1, OtherRouters DEF RouterInv
    <3>5. CASE CommitLost(t) \/ CommitGone(t)
      <4>1. router' = router /\ routers' = routers \ Own(t)
        BY <3>3, <3>5 DEF CommitLost, CommitGone, CloseRouter, LostRace
      <4>2. \A u \in Slots : u # t => Own(u) \cap Own(t) = {}
        BY <3>3 DEF RouterInv
      <4>3. QED
        BY <1>1, <3>2, <3>3, <4>1, <4>2, OtherRouters DEF RouterInv
    <3>6. QED
      BY <2>10, <3>4, <3>5
  <2>11. CASE ~ (Remove(t) \/ Unpublish(t) \/ Clean(t) \/ Plan(t) \/ CreateRouter(t)
                 \/ Provision(t) \/ ProvisionFails(t) \/ Commit(t) \/ CommitLost(t)
                 \/ CommitGone(t))
    <3>1. /\ UNCHANGED <<router, routers>>
          /\ task[t].pc \notin {"clean", "provision", "commit"}
      BY <1>1, <2>11
      DEF Step, Enter, RemoveAbsent, Insert, Touch, Share, Lookup, Produce, Consume,
          EngineRefuses, RecordPublication, RecordSubscription, GiveUp
    <3>2. task'[t].pc \notin {"clean", "create", "provision", "commit"}
      BY <1>1, <2>11, Landing
    <3>3. Own(t) = {} /\ Drops(t) = {}
      BY <3>1 DEF Own, Drops, Making
    <3>4. QED
      BY <1>1, <3>1, <3>2, <3>3, RoutersCalm
  <2>12. QED
    BY <2>3, <2>4, <2>5, <2>6, <2>7, <2>8, <2>9, <2>10, <2>11
<1>2. ASSUME NEW t \in Slots, NEW j, task' = [task EXCEPT ![t] = j], task[t] = Idle,
             j.pc \notin {"clean", "create", "provision", "commit"},
             UNCHANGED <<router, routers>>
      PROVE  RouterInv'
  <2>1. task \in [Slots -> Jobs \cup {Idle}]
    BY DEF TypeOK
  <2>2. task'[t].pc \notin {"clean", "create", "provision", "commit"}
        /\ \A u \in Slots : u # t => task'[u] = task[u]
    BY <1>2, <2>1
  <2>3. Own(t)' = {} /\ Uses(t)' = {} /\ Drops(t)' = {} /\ Own(t) = {} /\ Drops(t) = {}
    BY <1>2, <2>2 DEF Own, Uses, Drops, Making, Idle
  <2>4. \A u \in Slots : u # t =>
           Own(u)' = Own(u) /\ Uses(u)' = Uses(u) /\ Drops(u)' = Drops(u)
    BY <2>2 DEF Own, Uses, Drops, Making
  <2>5. UNCHANGED <<router, routers>>
    BY <1>2
  <2>6. QED
    BY <2>2, <2>3, <2>4, <2>5 DEF RouterInv
<1>3. CASE UNCHANGED <<task, router, routers>>
  BY <1>3 DEF RouterInv, Own, Uses, Drops, Making
<1>4. ASSUME NEW t \in Slots, NEW op, NEW p, NEW f, Request(t, op, p, f) \/
             (t = Evictor /\ op = "leave" /\ f = NoFlow /\ Evict(p)), op \in AllOps
      PROVE  RouterInv'
  <2>1. Job(op, p, f).pc \notin {"clean", "create", "provision", "commit"}
    BY <1>4 DEF Job, FirstStep, AllOps
  <2>2. QED
    BY <1>2, <1>4, <2>1 DEF Request, Evict
<1>5. QED
  <2>1. Evictor \in Slots /\ Tasks \subseteq Slots /\ Ops \subseteq AllOps
    BY SfuAssumption DEF Slots
  <2>2. ASSUME NEW p \in Participants, Evict(p) PROVE RouterInv'
    <3>1. "leave" \in AllOps
      BY DEF AllOps
    <3>2. QED
      BY <1>4, <2>1, <2>2, <3>1
  <2>3. QED
    BY <1>1, <1>3, <1>4, <2>1, <2>2 DEF Next, Heartbeat, Age, Scan, vars

LEMMA CrowdStep ==
    ASSUME TypeOK, ~Failures, IsFiniteSet(participants), RouterInv, CrowdInv, [Next]_vars
    PROVE  CrowdInv'
<1> USE DEF engineVars, roomVars
<1>0. /\ Cardinality(participants) \in Nat /\ MeshThreshold \in Nat
      /\ Cardinality({}) = 0
  BY FS_CardinalityType, FS_EmptySet, SfuAssumption
<1>1. ASSUME NEW t \in Slots, Step(t) PROVE CrowdInv'
  <2>1. task \in [Slots -> Jobs \cup {Idle}] /\ task[t] \in Jobs
    BY <1>1, OneSlot DEF TypeOK
  <2>2. SUFFICES ASSUME Cardinality(participants') > MeshThreshold, router' = 0,
                        ~ Migrating(t)'
                 PROVE  \E u \in Slots : Migrating(u)'
    BY DEF CrowdInv
  <2>3. participants' # {}
    BY <1>0, <2>2
  <2>4. SUFFICES ASSUME router = 0 /\ Cardinality(participants) > MeshThreshold
                 PROVE  ~Migrating(t)
    <3>1. router = 0
      <4>1. CASE Remove(t)
        BY <2>2, <2>3, <4>1 DEF Remove
      <4>2. CASE Commit(t)
        BY <2>2, <4>2 DEF Commit
      <4>3. QED
        BY <1>1, <2>2, <4>1, <4>2, RosterSteps DEF Step, Enter, RemoveAbsent,
           Unpublish, Clean, Touch, Share, Plan, CreateRouter, Provision,
           ProvisionFails, CommitLost, CommitGone, Lookup, Produce, Consume,
           EngineRefuses, RecordPublication, RecordSubscription, GiveUp, Insert
    <3>2. Cardinality(participants) > MeshThreshold
      <4>1. CASE Remove(t)
        <5>1. PICK p : p \in participants /\ participants' = participants \ {p}
          BY <4>1 DEF Remove
        <5>2. Cardinality(participants \ {p}) = Cardinality(participants) - 1
          BY <5>1, FS_RemoveElement
        <5>3. QED
          BY <1>0, <2>2, <5>1, <5>2
      <4>2. CASE Insert(t) /\ ~UNCHANGED participants
        <5>1. Goto(t, IF NeedsSfu(Cardinality(participants')) THEN "plan" ELSE "touch")
          BY <4>2 DEF Insert
        <5>2. NeedsSfu(Cardinality(participants'))
          BY <2>2 DEF NeedsSfu
        <5>3. task'[t].pc = "plan"
          BY <2>1, <5>1, <5>2, MovedOn
        <5>4. QED
          BY <2>2, <5>3 DEF Migrating
      <4>3. CASE UNCHANGED participants
        BY <2>2, <4>3
      <4>4. QED
        BY <1>1, <4>1, <4>2, <4>3 DEF Step, Enter, RemoveAbsent,
           Unpublish, Clean, Touch, Share, Plan, CreateRouter, Provision,
           ProvisionFails, Commit, CommitLost, CommitGone, Lookup, Produce, Consume,
           EngineRefuses, RecordPublication, RecordSubscription, GiveUp
    <3>3. ~Migrating(t)
      BY <2>4, <3>1, <3>2
    <3>4. PICK u \in Slots : Migrating(u)
      BY <3>1, <3>2 DEF CrowdInv
    <3>5. QED
      BY <1>1, <3>3, <3>4, OtherRouters
  <2>5. participants # {}
    BY <1>0, <2>4
  <2>6. CASE Plan(t)
    <3>1. task' = [task EXCEPT ![t].pc = IF router = 0 THEN "create" ELSE "provision",
                               ![t].need = (router = 0), ![t].router = router,
                               ![t].want = Missing, ![t].got = NoPair]
      BY <2>4, <2>5, <2>6 DEF Plan
    <3>2. task'[t].pc = "create"
      BY <2>1, <2>4, <3>1 DEF Jobs
    <3>3. QED
      BY <2>2, <3>2 DEF Migrating
  <2>7. CASE CreateRouter(t)
    <3>1. PICK r : task' = [task EXCEPT ![t].pc = "provision", ![t].router = r]
      BY <2>7 DEF CreateRouter
    <3>2. task[t].need
      BY <2>7 DEF CreateRouter, RouterInv
    <3>3. task'[t].pc = "provision" /\ task'[t].need = task[t].need
      BY <2>1, <3>1 DEF Jobs
    <3>4. QED
      BY <2>2, <3>2, <3>3 DEF Migrating, Making
  <2>8. CASE Provision(t)
    <3>1. PICK g : task' = [task EXCEPT ![t].pc = "commit", ![t].got = g]
      BY <2>8 DEF Provision
    <3>2. task'[t].pc = "commit" /\ task'[t].need = task[t].need
      BY <2>1, <3>1 DEF Jobs
    <3>3. QED
      BY <2>2, <2>8, <3>2 DEF Provision, Migrating, Making
  <2>9. CASE ProvisionFails(t)
    <3>1. task[t].pc = "provision" /\ task[t].router \notin routers
      BY <2>9 DEF ProvisionFails
    <3>2. QED
      BY <3>1 DEF RouterInv, Own, Migrating
  <2>10. CASE Commit(t)
    <3>1. router' = task[t].router /\ task[t].pc = "commit"
      BY <2>4, <2>10 DEF Commit
    <3>2. task[t].router # 0
      BY <3>1 DEF RouterInv, Uses
    <3>3. QED
      BY <2>2, <3>1, <3>2
  <2>11. CASE CommitLost(t) \/ CommitGone(t)
    BY <2>4, <2>5, <2>11 DEF CommitLost, CommitGone, LostRace
  <2>12. CASE ~ (Plan(t) \/ CreateRouter(t) \/ Provision(t) \/ ProvisionFails(t)
                 \/ Commit(t) \/ CommitLost(t) \/ CommitGone(t))
    BY <1>1, <2>12
    DEF Migrating, Making, Step, Enter, Remove, RemoveAbsent, Unpublish, Clean, Insert,
        Touch, Share, Lookup, Produce, Consume, EngineRefuses, RecordPublication,
        RecordSubscription, GiveUp
  <2>13. QED
    BY <2>6, <2>7, <2>8, <2>9, <2>10, <2>11, <2>12
<1>2. ASSUME NEW t \in Slots, task[t] = Idle, \A u \in Slots : u # t => task'[u] = task[u],
             UNCHANGED <<participants, router>>
      PROVE  CrowdInv'
  <2>1. ~Migrating(t)
    BY <1>2 DEF Migrating, Making, Idle
  <2>2. \A u \in Slots : u # t => (Migrating(u) => Migrating(u)')
    BY <1>2 DEF Migrating, Making
  <2>3. UNCHANGED <<participants, router>>
    BY <1>2
  <2>4. QED
    BY <2>1, <2>2, <2>3 DEF CrowdInv
<1>3. CASE UNCHANGED <<task, participants, router>>
  BY <1>3 DEF CrowdInv, Migrating, Making
<1>4. task \in [Slots -> Jobs \cup {Idle}]
  BY DEF TypeOK
<1>5. ASSUME NEW t \in Tasks, NEW op, NEW p, NEW f, Request(t, op, p, f) PROVE CrowdInv'
  <2>1. \A u \in Slots : u # t => task'[u] = task[u]
    BY <1>4, <1>5 DEF Request
  <2>2. QED
    BY <1>2, <1>5, <2>1 DEF Request, Slots
<1>6. ASSUME NEW p \in Participants, Evict(p) PROVE CrowdInv'
  <2>1. \A u \in Slots : u # Evictor => task'[u] = task[u]
    BY <1>4, <1>6 DEF Evict
  <2>2. QED
    BY <1>2, <1>6, <2>1 DEF Evict, Slots
<1>7. QED
  BY <1>1, <1>3, <1>5, <1>6 DEF Next, Heartbeat, Age, Scan, vars

\* The room's router is open and nobody is about to close it, unless a migration
\* set it that had found it in an earlier room.
OpenInv ==
    /\ router = 0 => ~outdated
    /\ router # 0 /\ ~outdated =>
          router \in routers /\ \A t \in Slots : router \notin Drops(t)

LEMMA OpenStep ==
    ASSUME TypeOK, RouterInv, OpenInv, [Next]_vars
    PROVE  OpenInv'
<1> USE DEF engineVars, roomVars
<1>0. routers \subseteq RouterIds /\ 0 \notin RouterIds /\ outdated \in BOOLEAN
  BY SfuAssumption DEF TypeOK, RoomTypeOK, EngineTypeOK, RouterIds
\* A step that closes no router and holds none to be closed.
<1>1. ASSUME NEW t \in Slots, Step(t), task'[t].pc # "clean",
             UNCHANGED <<router, outdated>>, routers \subseteq routers'
      PROVE  OpenInv'
  <2>1. Drops(t)' = {}
    BY <1>1 DEF Drops
  <2>2. QED
    BY <1>1, <2>1, OtherRouters DEF OpenInv
<1>2. ASSUME NEW t \in Slots, Step(t) PROVE OpenInv'
  <2>1. task \in [Slots -> Jobs \cup {Idle}] /\ task[t] \in Jobs
    BY <1>2, OneSlot DEF TypeOK
  <2>2. CASE Remove(t)
    <3> DEFINE last == participants = {task[t].who}
               x == [producers |-> {f \in publications : f[1] = task[t].who},
                     consumers |-> ConsumersOf({task[t].who},
                                               {f \in publications : f[1] = task[t].who}),
                     pairs |-> {<<task[t].who, pair[task[t].who]>>} \cap Pairs,
                     router |-> IF last THEN router ELSE 0]
    <3>1. /\ task' = [task EXCEPT ![t].pc = "clean", ![t].trash = x]
          /\ router' = IF last THEN 0 ELSE router
          /\ outdated' = (outdated /\ ~last)
          /\ routers' = routers
      BY <2>2 DEF Remove
    <3>2. x.router = IF last THEN router ELSE 0
      OBVIOUS
    <3> HIDE DEF x, last
    <3>3. task'[t].pc = "clean" /\ task'[t].trash = x
      BY <2>1, <3>1 DEF Jobs
    <3>4. CASE last
      BY <1>0, <3>1, <3>4 DEF OpenInv
    <3>5. CASE ~last
      <4>1. Drops(t)' = {} /\ UNCHANGED <<router, outdated, routers>>
        BY <1>0, <3>1, <3>2, <3>3, <3>5 DEF Drops
      <4>2. QED
        BY <1>2, <4>1, OtherRouters DEF OpenInv
    <3>6. QED
      BY <3>4, <3>5
  <2>3. CASE Unpublish(t)
    <3>1. Drops(t)' = {}
      <4>1. CASE Finish(t)
        BY <2>1, <4>1 DEF Finish, Idle, Drops
      <4>2. CASE ~Finish(t)
        <5> DEFINE x == [producers |-> {task[t].flow},
                         consumers |-> ConsumersOf({}, {task[t].flow}),
                         pairs |-> {}, router |-> 0]
        <5>1. task' = [task EXCEPT ![t].pc = "clean", ![t].trash = x]
          BY <2>3, <4>2 DEF Unpublish
        <5>2. x.router = 0
          OBVIOUS
        <5> HIDE DEF x
        <5>3. task'[t].pc = "clean" /\ task'[t].trash = x
          BY <2>1, <5>1 DEF Jobs
        <5>4. QED
          BY <5>2, <5>3 DEF Drops
      <4>3. QED
        BY <4>1, <4>2
    <3>2. UNCHANGED <<router, outdated, routers>>
      BY <2>3 DEF Unpublish
    <3>3. QED
      BY <1>2, <3>1, <3>2, OtherRouters DEF OpenInv
  <2>4. CASE Clean(t)
    <3>1. task'[t].pc # "clean"
      BY <1>2, <2>4, Landing DEF Clean, Remove, Unpublish, Plan, CreateRouter, Provision
    <3>2. routers' = routers \ Drops(t) /\ UNCHANGED <<router, outdated>> /\ Drops(t)' = {}
      BY <1>0, <2>4, <3>1 DEF Clean, Drops
    <3>3. QED
      BY <1>2, <3>2, OtherRouters DEF OpenInv
  <2>5. CASE Plan(t) \/ CreateRouter(t) \/ Provision(t) \/ ProvisionFails(t)
    <3>1. task'[t].pc # "clean"
      BY <1>2, <2>5, Landing DEF Clean, Remove, Unpublish, Plan, CreateRouter, Provision, ProvisionFails
    <3>2. UNCHANGED <<router, outdated>> /\ routers \subseteq routers'
      BY <2>5 DEF Plan, CreateRouter, Provision, ProvisionFails
    <3>3. QED
      BY <1>1, <1>2, <3>1, <3>2
  <2>6. CASE Commit(t) \/ CommitLost(t) \/ CommitGone(t)
    <3>1. task[t].pc = "commit"
      BY <2>6 DEF Commit, CommitLost, CommitGone
    <3>2. Drops(t)' = {}
      <4>1. task'[t].pc # "clean"
        BY <1>2, <2>6, <3>1, Landing DEF Remove, Unpublish, Plan, CreateRouter, Provision
      <4>2. QED
        BY <4>1 DEF Drops
    <3>3. Own(t) = IF task[t].need THEN {task[t].router} ELSE {}
      BY <3>1 DEF Own, Making
    <3>4. CASE Commit(t)
      <4>1. /\ router' = IF router = 0 THEN task[t].router ELSE router
            /\ outdated' = (outdated \/ (router = 0 /\ ~task[t].need))
            /\ routers' = routers
        BY <3>4 DEF Commit
      <4>2. CASE router # 0
        BY <1>0, <1>2, <3>2, <4>1, <4>2, OtherRouters DEF OpenInv
      <4>3. CASE router = 0 /\ ~task[t].need
        <5>1. outdated' /\ router' # 0
          BY <3>1, <4>1, <4>3 DEF RouterInv, Uses
        <5>2. QED
          BY <5>1 DEF OpenInv
      <4>4. CASE router = 0 /\ task[t].need
        <5>1. /\ task[t].router \in routers /\ task[t].router # 0
              /\ \A u \in Slots : task[t].router \notin Drops(u)
          BY <1>0, <3>3, <4>4 DEF RouterInv
        <5>2. QED
          BY <1>2, <3>2, <4>1, <4>4, <5>1, OtherRouters DEF OpenInv
      <4>5. QED
        BY <4>2, <4>3, <4>4
    <3>5. CASE CommitLost(t) \/ CommitGone(t)
      <4>1. UNCHANGED <<router, outdated>> /\ routers' = routers \ Own(t)
        BY <3>3, <3>5 DEF CommitLost, CommitGone, CloseRouter, LostRace
      <4>2. router \notin Own(t)
        BY DEF RouterInv
      <4>3. QED
        BY <1>2, <3>2, <4>1, <4>2, OtherRouters DEF OpenInv
    <3>6. QED
      BY <2>6, <3>4, <3>5
  <2>7. CASE ~ (Remove(t) \/ Unpublish(t) \/ Clean(t) \/ Plan(t) \/ CreateRouter(t)
                \/ Provision(t) \/ ProvisionFails(t) \/ Commit(t) \/ CommitLost(t)
                \/ CommitGone(t))
    <3>1. UNCHANGED <<router, outdated, routers>>
      BY <1>2, <2>7
      DEF Step, Enter, RemoveAbsent, Insert, Touch, Share, Lookup, Produce, Consume,
          EngineRefuses, RecordPublication, RecordSubscription, GiveUp
    <3>2. task'[t].pc # "clean"
      BY <1>2, <2>7, Landing
    <3>3. QED
      BY <1>1, <1>2, <3>1, <3>2
  <2>8. QED
    BY <2>2, <2>3, <2>4, <2>5, <2>6, <2>7
<1>3. ASSUME NEW t \in Slots, NEW j, task' = [task EXCEPT ![t] = j],
             j.pc # "clean", UNCHANGED <<router, outdated, routers>>
      PROVE  OpenInv'
  <2>1. task \in [Slots -> Jobs \cup {Idle}]
    BY DEF TypeOK
  <2>2. task'[t].pc # "clean" /\ \A u \in Slots : u # t => task'[u] = task[u]
    BY <1>3, <2>1
  <2>3. Drops(t)' = {} /\ \A u \in Slots : u # t => Drops(u)' = Drops(u)
    BY <2>2 DEF Drops
  <2>4. UNCHANGED <<router, outdated, routers>>
    BY <1>3
  <2>5. QED
    BY <2>3, <2>4 DEF OpenInv
<1>4. CASE UNCHANGED <<task, router, outdated, routers>>
  BY <1>4 DEF OpenInv, Drops
<1>5. ASSUME NEW t \in Slots, NEW op, NEW p, NEW f, Request(t, op, p, f) \/
             (t = Evictor /\ op = "leave" /\ f = NoFlow /\ Evict(p)), op \in AllOps
      PROVE  OpenInv'
  <2>1. Job(op, p, f).pc # "clean"
    BY <1>5 DEF Job, FirstStep, AllOps
  <2>2. QED
    BY <1>3, <1>5, <2>1 DEF Request, Evict
<1>6. QED
  <2>1. Evictor \in Slots /\ Tasks \subseteq Slots /\ Ops \subseteq AllOps
    BY SfuAssumption DEF Slots
  <2>2. ASSUME NEW p \in Participants, Evict(p) PROVE OpenInv'
    <3>1. "leave" \in AllOps
      BY DEF AllOps
    <3>2. QED
      BY <1>5, <2>1, <2>2, <3>1
  <2>3. QED
    BY <1>2, <1>4, <1>5, <2>1, <2>2 DEF Next, Heartbeat, Age, Scan, vars

\* Whatever overlaps, fails or is cut short, what the room offers and what is
\* received there exists in the engine.
THEOREM EngineAlwaysBacks == Spec => []EngineBacksRoom
<1> DEFINE Inv == FlowInv /\ ConsumerInv
<1>1. Init => Inv
  BY FlowInit, ConsumerInit
<1>2. TypeOK /\ Inv /\ [Next]_vars => Inv'
  BY FlowStep, ConsumerStep
<1>3. Inv => EngineBacksRoom
  BY IsReceived DEF EngineBacksRoom, FlowInv, ConsumerInv
<1> HIDE DEF Inv
<1>4. QED
  BY <1>1, <1>2, <1>3, ServiceTyped, PTL DEF Spec

\* However requests overlap, as long as none is cut short: at rest a crowded room
\* has a router and the engine runs no other; at any time this router is open,
\* unless a migration planned for an earlier room set it, and what the room offers
\* and what is received there exists in the engine.
THEOREM RoomAlwaysBacked == ASSUME ~Failures PROVE Spec => []RoomIsBacked
<1> DEFINE Inv == RouterInv /\ CrowdInv /\ OpenInv
<1>1. Init => Inv
  BY RouterInit DEF Init, OpenInv
<1>2. TypeOK /\ SeatInv /\ Inv /\ [Next]_vars => Inv'
  BY RouterStep, CrowdStep, OpenStep DEF SeatInv
<1>3. Inv /\ EngineBacksRoom => RoomIsBacked
  <2> SUFFICES ASSUME Inv, EngineBacksRoom PROVE RoomIsBacked
    OBVIOUS
  <2>2. ASSUME Quiet PROVE \A t \in Slots : Own(t) = {} /\ Drops(t) = {} /\ ~Migrating(t)
    <3>1. \A t \in Slots : task[t].pc = "idle"
      BY <2>2 DEF Quiet, Busy, Idle
    <3>2. QED
      BY <3>1 DEF Own, Drops, Making, Migrating
  <2>3. NoRouterLeak
    BY <2>2 DEF NoRouterLeak, RouterInv
  <2>4. CrowdedMeansSfu
    BY <2>2 DEF CrowdedMeansSfu, CrowdInv
  <2>5. RouterIsOpen
    BY DEF RouterIsOpen, OpenInv
  <2>6. QED
    BY <2>3, <2>4, <2>5 DEF RoomIsBacked, RouterFitsRoom
<1> HIDE DEF Inv
<1>4. QED
  BY <1>1, <1>2, <1>3, ServiceTyped, SeatInvHolds, EngineAlwaysBacks, PTL DEF Spec

=============================================================================
