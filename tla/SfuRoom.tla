------------------------------ MODULE SfuRoom -------------------------------
(***************************************************************************)
(* One room of the SFU service: VoiceService (nodyx-sfu/src/voice.rs) over *)
(* the object registries of its media engine (MediasoupEngine), as the     *)
(* daemon nodyx-sfud runs them, one task per connection plus the eviction  *)
(* task.                                                                   *)
(*                                                                         *)
(* A request alternates critical sections under the state mutex and awaits *)
(* on the engine; each is a step of the task that runs it.  The source     *)
(* states a hypothesis, that the caller serializes the operations of a     *)
(* room; Serial is that hypothesis, and the daemon does not enforce it.    *)
(*                                                                         *)
(* Engine objects are numbered.  A number is taken again once nothing      *)
(* refers to it, which keeps the state finite without changing what can    *)
(* happen: the source's keys are never reused.                             *)
(***************************************************************************)
EXTENDS Integers, FiniteSets

CONSTANTS
    Participants,   \* user ids
    Tasks,          \* request slots of the daemon
    Evictor,        \* the slot of the eviction task
    MaxSeats,       \* VoiceConfig.max_seats
    MeshThreshold,  \* VoiceConfig.mesh_threshold
    Ops,            \* the requests the clients send
    Serial,         \* the caller serializes the operations of the room
    Failures,       \* engine calls may fail and requests may time out
    Silences,       \* a participant may stop its heartbeats
    Resubscribe,    \* a client may ask twice for the same flow
    MaxRouters, MaxPairs, MaxFlows  \* bounds: numbers per kind of object

AllOps == {"join", "leave", "publish", "screen", "unpublish", "subscribe",
           "share", "unshare"}

ASSUME SfuAssumption ==
    /\ Evictor \notin Tasks
    /\ MaxSeats \in Nat \ {0}
    /\ MeshThreshold \in Nat
    /\ Ops \subseteq AllOps
    /\ {Serial, Failures, Silences, Resubscribe} \subseteq BOOLEAN
    /\ {MaxRouters, MaxPairs, MaxFlows} \subseteq Nat \ {0}

VARIABLES
    \* RoomState; the room is in the map exactly when it has participants
    participants,
    pair,           \* the send and recv transports of a participant, or 0
    lastSeen,       \* never touched, fresh, or older than the TTL
    subscriptions,  \* subscriptions[p][f]: p's consumer of flow f, or 0
    publications,   \* the published flows
    screensharing,
    router,         \* 0 while the room is in mesh
    outdated,       \* history: the router was set by a migration that had found it
                    \* in an earlier room of this id, given up since
    \* the registries of the engine
    routers,
    transports,     \* the router each transport pair lives on, 0 if closed
    producers,      \* the pair each flow is produced on, 0 if closed
    consumers,
    \* the daemon
    task,           \* what each slot is doing
    doomed          \* the eviction list computed by stale() and not yet left

roomVars == <<participants, pair, lastSeen, subscriptions, publications,
              screensharing, router, outdated>>
engineVars == <<routers, transports, producers, consumers>>
vars == <<participants, pair, lastSeen, subscriptions, publications,
          screensharing, router, outdated, routers, transports, producers, consumers,
          task, doomed>>

RouterIds == 1 .. MaxRouters
PairIds == 1 .. MaxPairs
FlowIds == 1 .. MaxFlows
\* A flow carries its owner: publications[producer].owner.
Flows == Participants \X FlowIds
Pairs == Participants \X PairIds
Consumers == Participants \X FlowIds

Slots == Tasks \cup {Evictor}

Trash == [producers : SUBSET Flows, consumers : SUBSET Consumers,
          pairs : SUBSET Pairs, router : 0 .. MaxRouters]
NoFlow == <<>>
NoTrash == [producers |-> {}, consumers |-> {}, pairs |-> {}, router |-> 0]

Idle == [op |-> "none", pc |-> "idle"]

Jobs ==
    [op : AllOps, who : Participants,
     flow : Flows \cup {NoFlow}, \* unpublish, subscribe: the flow named
     pc : {"enter", "remove", "clean", "insert", "share", "plan", "create",
           "provision", "commit", "touch", "lookup", "engine", "record"},
     need : BOOLEAN,            \* ensure_sfu: we create the router
     want : SUBSET Participants, \* ensure_sfu: who misses its transports
     router : 0 .. MaxRouters,  \* ensure_sfu: the router we provision on
     got : [Participants -> 0 .. MaxPairs],  \* pairs provisioned, or held
     made : 0 .. MaxFlows,      \* the producer or consumer just created
     tour : 0 .. 3,             \* ensure_sfu: the round
     trash : Trash]             \* remove, unpublish: what to close

RoomTypeOK ==
    /\ participants \subseteq Participants
    /\ pair \in [Participants -> 0 .. MaxPairs]
    /\ lastSeen \in [Participants -> {"never", "fresh", "old"}]
    /\ subscriptions \in [Participants -> [Flows -> 0 .. MaxFlows]]
    /\ publications \subseteq Flows
    /\ screensharing \in BOOLEAN
    /\ router \in 0 .. MaxRouters
    /\ outdated \in BOOLEAN
    \* who is not in the map has no entry, and an empty room is no room
    /\ \A p \in Participants \ participants :
          pair[p] = 0 /\ lastSeen[p] = "never" /\ \A f \in Flows : subscriptions[p][f] = 0
    /\ participants = {} => publications = {} /\ router = 0 /\ ~screensharing

EngineTypeOK ==
    /\ routers \subseteq RouterIds
    /\ transports \in [Pairs -> 0 .. MaxRouters]
    /\ producers \in [Flows -> 0 .. MaxPairs]
    /\ consumers \subseteq Consumers

\* Who withdraws or asks for a flow names it; who records an object has made it.
Equipped(j) ==
    /\ j.op \in {"unpublish", "subscribe"} => j.flow \in Flows
    /\ j.pc = "record" => j.made \in FlowIds

TypeOK ==
    /\ RoomTypeOK
    /\ EngineTypeOK
    /\ task \in [Slots -> Jobs \cup {Idle}]
    /\ \A t \in Slots : Equipped(task[t])
    /\ doomed \subseteq Participants

NoPair == [p \in Participants |-> 0]
NoSubscription == [f \in Flows |-> 0]

Init ==
    /\ participants = {}
    /\ pair = NoPair
    /\ lastSeen = [p \in Participants |-> "never"]
    /\ subscriptions = [p \in Participants |-> NoSubscription]
    /\ publications = {}
    /\ screensharing = FALSE
    /\ router = 0
    /\ outdated = FALSE
    /\ routers = {}
    /\ transports = [x \in Pairs |-> 0]
    /\ producers = [f \in Flows |-> 0]
    /\ consumers = {}
    /\ task = [t \in Slots |-> Idle]
    /\ doomed = {}

-----------------------------------------------------------------------------
(* Fresh numbers: the lowest that nothing refers to.                       *)

Busy == {t \in Slots : task[t] # Idle}
Quiet == Busy = {} /\ doomed = {}

FirstOf(S, n) == n \in S /\ \A m \in S : n <= m

FreeRouters ==
    RouterIds \ (routers \cup {router}
                 \cup {task[t].router : t \in Busy}
                 \cup {task[t].trash.router : t \in Busy}
                 \cup {transports[x] : x \in Pairs})

FreePairs(p) ==
    {n \in PairIds :
        /\ transports[<<p, n>>] = 0
        /\ pair[p] # n
        /\ \A f \in Flows : f[1] = p => producers[f] # n
        /\ \A t \in Busy : task[t].got[p] # n /\ <<p, n>> \notin task[t].trash.pairs}

FreeFlows(p) ==
    {n \in FlowIds :
        /\ producers[<<p, n>>] = 0
        /\ <<p, n>> \notin publications
        /\ \A q \in Participants : subscriptions[q][<<p, n>>] = 0
        /\ \A t \in Busy :
             /\ task[t].flow # <<p, n>>
             /\ task[t].op \in {"publish", "screen"} => ~(task[t].who = p /\ task[t].made = n)
             /\ <<p, n>> \notin task[t].trash.producers}

FreeConsumers(p) ==
    {n \in FlowIds :
        /\ <<p, n>> \notin consumers
        /\ \A f \in Flows : subscriptions[p][f] # n
        /\ \A t \in Busy :
             /\ task[t].op = "subscribe" => ~(task[t].who = p /\ task[t].made = n)
             /\ <<p, n>> \notin task[t].trash.consumers}

-----------------------------------------------------------------------------
(* Task control.                                                           *)

Goto(t, pc) == task' = [task EXCEPT ![t].pc = pc]
Finish(t) == task' = [task EXCEPT ![t] = Idle]

\* Where ensure_sfu returns to: join, publish of a screen, set_screenshare.
Ensured(t) ==
    CASE task[t].op = "join" -> Goto(t, "touch")
      [] task[t].op = "screen" -> Goto(t, "lookup")
      [] OTHER -> Finish(t)

FirstStep(op) ==
    CASE op = "join" -> "enter"
      [] op = "leave" -> "remove"
      [] op \in {"publish", "subscribe"} -> "lookup"
      [] op = "screen" -> "plan"
      [] op = "unpublish" -> "remove"
      [] op \in {"share", "unshare"} -> "share"

Job(op, p, f) ==
    [op |-> op, who |-> p, flow |-> f, pc |-> FirstStep(op), need |-> FALSE,
     want |-> {}, router |-> 0, got |-> NoPair, made |-> 0, tour |-> 0, trash |-> NoTrash]

\* A request reaches the daemon.
Request(t, op, p, f) ==
    /\ task[t] = Idle
    /\ Serial => Quiet
    /\ op \in Ops
    /\ f = NoFlow <=> op \notin {"unpublish", "subscribe"}
    /\ op = "subscribe" => Resubscribe \/ subscriptions[p][f] = 0
    /\ task' = [task EXCEPT ![t] = Job(op, p, f)]
    /\ UNCHANGED <<roomVars, engineVars, doomed>>

\* An engine await that fails, or a request dropped at REQ_TIMEOUT during one.
GiveUp(t) ==
    /\ Failures
    /\ task[t].pc \in {"create", "engine"}
    /\ Finish(t)
    /\ UNCHANGED <<roomVars, engineVars, doomed>>

-----------------------------------------------------------------------------
(* join, leave and eviction.                                               *)

\* join: is the participant already here?
Enter(t) ==
    /\ task[t].pc = "enter"
    /\ Goto(t, IF task[t].who \in participants THEN "remove" ELSE "insert")
    /\ UNCHANGED <<roomVars, engineVars, doomed>>

\* Mutant: the consumers that others have of the flows are forgotten.
ConsumersOfSelf(ps, fs) ==
    {<<x[1], subscriptions[x[1]][x[2]]>> : x \in
        {y \in Participants \X Flows : subscriptions[y[1]][y[2]] # 0 /\ y[1] \in ps}}

\* The consumers of the participants ps and those of the flows fs.
ConsumersOf(ps, fs) ==
    {<<x[1], subscriptions[x[1]][x[2]]>> : x \in
        {y \in Participants \X Flows :
            subscriptions[y[1]][y[2]] # 0 /\ (y[1] \in ps \/ y[2] \in fs)}}

\* remove, under the lock: forget the participant, its flows and every
\* subscription to them; the last one out takes the router and the room.
Remove(t) ==
    /\ task[t].pc = "remove"
    /\ task[t].op \in {"join", "leave"}
    /\ task[t].who \in participants
    /\ LET p == task[t].who
           gone == {f \in publications : f[1] = p}
           last == participants = {p}
       IN /\ participants' = participants \ {p}
          /\ pair' = [pair EXCEPT ![p] = 0]
          /\ lastSeen' = [lastSeen EXCEPT ![p] = "never"]
          /\ subscriptions' =
               [q \in Participants |-> [f \in Flows |->
                   IF q = p \/ f \in gone THEN 0 ELSE subscriptions[q][f]]]
          /\ publications' = IF last THEN {} ELSE publications \ gone
          /\ screensharing' = (screensharing /\ ~last)
          /\ router' = IF last THEN 0 ELSE router
          /\ outdated' = (outdated /\ ~last)
          /\ task' = [task EXCEPT ![t].pc = "clean",
                        ![t].trash = [producers |-> gone,
                                      consumers |-> ConsumersOf({p}, gone),
                                      pairs |-> {<<p, pair[p]>>} \cap Pairs,
                                      router |-> IF last THEN router ELSE 0]]
    /\ UNCHANGED <<engineVars, doomed>>

\* remove: NotInRoom.  A rejoin fails with it.
RemoveAbsent(t) ==
    /\ task[t].pc = "remove"
    /\ task[t].op \in {"join", "leave"}
    /\ task[t].who \notin participants
    /\ Finish(t)
    /\ UNCHANGED <<roomVars, engineVars, doomed>>

\* unpublish, under the lock: only the owner, only a known publication.
Unpublish(t) ==
    /\ task[t].pc = "remove"
    /\ task[t].op = "unpublish"
    /\ LET f == task[t].flow
       IN IF participants # {} /\ f \in publications /\ f[1] = task[t].who
          THEN /\ publications' = publications \ {f}
               /\ subscriptions' =
                    [q \in Participants |-> [subscriptions[q] EXCEPT ![f] = 0]]
               /\ task' = [task EXCEPT ![t].pc = "clean",
                             ![t].trash = [producers |-> {f},
                                           consumers |-> ConsumersOf({}, {f}),
                                           pairs |-> {}, router |-> 0]]
          ELSE /\ Finish(t)
               /\ UNCHANGED <<publications, subscriptions>>
    /\ UNCHANGED <<participants, pair, lastSeen, screensharing, router, outdated,
                   engineVars, doomed>>

\* The engine side of a removal.  No close waits on anything, so a timeout
\* cannot cut it short.  close_room drops the transports of the router; a
\* router already closed is an error, which fails the leave or the rejoin.
Clean(t) ==
    /\ task[t].pc = "clean"
    /\ LET x == task[t].trash
       IN /\ producers' = [f \in Flows |-> IF f \in x.producers THEN 0 ELSE producers[f]]
          /\ consumers' = consumers \ x.consumers
          /\ routers' = routers \ {x.router}
          /\ transports' = [y \in Pairs |->
                IF y \in x.pairs \/ (x.router \in routers /\ transports[y] = x.router)
                THEN 0 ELSE transports[y]]
          /\ IF task[t].op = "join" /\ x.router \in routers \cup {0}
             THEN task' = [task EXCEPT ![t].pc = "insert", ![t].trash = NoTrash]
             ELSE Finish(t)
    /\ UNCHANGED <<roomVars, doomed>>

\* Mutant: one participant more than there are seats.
FullLate == Cardinality(participants) > MaxSeats

Full == Cardinality(participants) >= MaxSeats

NeedsSfu(n) == n > MeshThreshold \/ screensharing \/ router # 0

\* join, under the lock: seat check, insertion (a second insertion replaces
\* the entry), mode decision.
Insert(t) ==
    /\ task[t].pc = "insert"
    /\ LET p == task[t].who
       IN IF Full
          THEN /\ Finish(t)
               /\ UNCHANGED roomVars
          ELSE /\ participants' = participants \cup {p}
               /\ pair' = [pair EXCEPT ![p] = 0]
               /\ lastSeen' = [lastSeen EXCEPT ![p] = "never"]
               /\ subscriptions' = [subscriptions EXCEPT ![p] = NoSubscription]
               /\ UNCHANGED <<publications, screensharing, router, outdated>>
               /\ Goto(t, IF NeedsSfu(Cardinality(participants')) THEN "plan" ELSE "touch")
    /\ UNCHANGED <<engineVars, doomed>>

\* Mutant: the daemon leaves that to the first heartbeat.
TouchNothing(t) ==
    /\ task[t].pc = "touch"
    /\ Finish(t)
    /\ UNCHANGED <<roomVars, engineVars, doomed>>

\* The daemon marks a successful join alive.
Touch(t) ==
    /\ task[t].pc = "touch"
    /\ lastSeen' = IF task[t].who \in participants
                   THEN [lastSeen EXCEPT ![task[t].who] = "fresh"]
                   ELSE lastSeen
    /\ Finish(t)
    /\ UNCHANGED <<participants, pair, subscriptions, publications,
                   screensharing, router, outdated, engineVars, doomed>>

\* /v1/heartbeat is one critical section.
Heartbeat(p) ==
    /\ p \in participants
    /\ lastSeen[p] # "fresh"
    /\ lastSeen' = [lastSeen EXCEPT ![p] = "fresh"]
    /\ UNCHANGED <<participants, pair, subscriptions, publications,
                   screensharing, router, outdated, engineVars, task, doomed>>

\* SFU_PARTICIPANT_TTL elapses without a heartbeat of p.
Age(p) ==
    /\ Silences
    /\ p \in participants
    /\ lastSeen[p] = "fresh"
    /\ lastSeen' = [lastSeen EXCEPT ![p] = "old"]
    /\ UNCHANGED <<participants, pair, subscriptions, publications,
                   screensharing, router, outdated, engineVars, task, doomed>>

\* The eviction task lists the stale participants ...
Scan ==
    /\ Serial => Quiet
    /\ task[Evictor] = Idle
    /\ doomed = {}
    /\ doomed' = {p \in participants : lastSeen[p] = "old"}
    /\ doomed' # {}
    /\ UNCHANGED <<roomVars, engineVars, task>>

\* ... and makes each of them leave.
Evict(p) ==
    /\ task[Evictor] = Idle
    /\ p \in doomed
    /\ doomed' = doomed \ {p}
    /\ task' = [task EXCEPT ![Evictor] = Job("leave", p, NoFlow)]
    /\ UNCHANGED <<roomVars, engineVars>>

-----------------------------------------------------------------------------
(* ensure_sfu: at most four rounds of plan, engine work and commit.        *)

Share(t) ==
    /\ task[t].pc = "share"
    /\ IF participants = {}
       THEN Finish(t) /\ UNCHANGED screensharing
       ELSE /\ screensharing' = (task[t].op = "share")
            /\ IF task[t].op = "share" THEN Goto(t, "plan") ELSE Finish(t)
    /\ UNCHANGED <<participants, pair, lastSeen, subscriptions, publications,
                   router, outdated, engineVars, doomed>>

Missing == {p \in participants : pair[p] = 0}

Plan(t) ==
    /\ task[t].pc = "plan"
    /\ IF participants = {}
       THEN Finish(t)
       ELSE IF router # 0 /\ Missing = {}
       THEN Ensured(t)
       ELSE task' = [task EXCEPT
                ![t].pc = IF router = 0 THEN "create" ELSE "provision",
                ![t].need = (router = 0),
                ![t].router = router,
                ![t].want = Missing,
                ![t].got = NoPair]
    /\ UNCHANGED <<roomVars, engineVars, doomed>>

CreateRouter(t) ==
    /\ task[t].pc = "create"
    /\ \E r \in RouterIds :
         /\ FirstOf(FreeRouters, r)
         /\ routers' = routers \cup {r}
         /\ task' = [task EXCEPT ![t].pc = "provision", ![t].router = r]
    /\ UNCHANGED <<roomVars, transports, producers, consumers, doomed>>

\* create_transport for everyone who misses a pair, while the router lives.
Provision(t) ==
    /\ task[t].pc = "provision"
    /\ LET r == task[t].router
           want == task[t].want
       IN /\ r \in routers
          /\ \E got \in [want -> PairIds] :
               /\ \A p \in want : FirstOf(FreePairs(p), got[p])
               /\ transports' = [x \in Pairs |->
                     IF x[1] \in want /\ x[2] = got[x[1]] THEN r ELSE transports[x]]
               /\ task' = [task EXCEPT ![t].pc = "commit",
                     ![t].got = [p \in Participants |-> IF p \in want THEN got[p] ELSE 0]]
    /\ UNCHANGED <<roomVars, routers, producers, consumers, doomed>>

\* create_transport on a router that was closed meanwhile, or that fails for
\* one participant: what was provisioned for the others stays in the engine.
ProvisionFails(t) ==
    /\ task[t].pc = "provision"
    /\ LET r == task[t].router
       IN \/ /\ r \notin routers
             /\ UNCHANGED transports
          \/ /\ Failures
             /\ r \in routers
             /\ \E some \in SUBSET task[t].want :
                  /\ some # task[t].want
                  /\ \E got \in [some -> PairIds] :
                       /\ \A p \in some : FirstOf(FreePairs(p), got[p])
                       /\ transports' = [x \in Pairs |->
                             IF x[1] \in some /\ x[2] = got[x[1]] THEN r ELSE transports[x]]
    /\ Finish(t)
    /\ UNCHANGED <<roomVars, routers, producers, consumers, doomed>>

\* Mutant: the router is dropped and not closed.
CloseNothing(r) == UNCHANGED engineVars

\* The engine's close_room.
CloseRouter(r) ==
    /\ routers' = routers \ {r}
    /\ transports' = [x \in Pairs |-> IF transports[x] = r THEN 0 ELSE transports[x]]
    /\ UNCHANGED <<producers, consumers>>

\* Another ensure_sfu set the router first.
LostRace(t) == task[t].need /\ router \notin {0, task[t].router}

\* Mutant: only the participant who asked is committed.
CommitOwn(t) ==
    /\ task[t].pc = "commit"
    /\ participants # {}
    /\ router' = IF router = 0 THEN task[t].router ELSE router
    /\ pair' = [pair EXCEPT ![task[t].who] = task[t].got[task[t].who]]
    /\ Ensured(t)
    /\ UNCHANGED <<participants, lastSeen, subscriptions, publications,
                   screensharing, outdated, engineVars, doomed>>

\* Mutant: the last to commit sets the router.
CommitOverwrites(t) ==
    /\ task[t].pc = "commit"
    /\ participants # {}
    /\ router' = task[t].router
    /\ pair' = [p \in Participants |->
          IF p \in participants /\ pair[p] = 0 THEN task[t].got[p] ELSE pair[p]]
    /\ Ensured(t)
    /\ UNCHANGED <<participants, lastSeen, subscriptions, publications,
                   screensharing, outdated, engineVars, doomed>>

\* commit: the room still there and no race lost.  A pair is committed for
\* whoever still misses one, without a look at the router it lives on.
Commit(t) ==
    /\ task[t].pc = "commit"
    /\ participants # {}
    /\ ~LostRace(t)
    /\ router' = IF router = 0 THEN task[t].router ELSE router
    /\ outdated' = (outdated \/ (router = 0 /\ ~task[t].need))
    /\ pair' = [p \in Participants |->
          IF p \in participants /\ pair[p] = 0 THEN task[t].got[p] ELSE pair[p]]
    /\ Ensured(t)
    /\ UNCHANGED <<participants, lastSeen, subscriptions, publications,
                   screensharing, engineVars, doomed>>

\* commit: race lost.  Our router is closed and the next round begins; after
\* the fourth the loop ends as if all were well.
CommitLost(t) ==
    /\ task[t].pc = "commit"
    /\ participants # {}
    /\ LostRace(t)
    /\ CloseRouter(task[t].router)
    /\ IF task[t].tour = 3
       THEN Ensured(t)
       ELSE task' = [task EXCEPT ![t].pc = "plan", ![t].tour = @ + 1,
                                 ![t].router = 0, ![t].got = NoPair]
    /\ UNCHANGED <<roomVars, doomed>>

\* commit: the last participant left meanwhile.
CommitGone(t) ==
    /\ task[t].pc = "commit"
    /\ participants = {}
    /\ IF task[t].need THEN CloseRouter(task[t].router) ELSE UNCHANGED engineVars
    /\ Finish(t)
    /\ UNCHANGED <<roomVars, doomed>>

-----------------------------------------------------------------------------
(* publish and subscribe: look up the transport, work, record.             *)

Publishing(t) == task[t].op \in {"publish", "screen"}

Lookup(t) ==
    /\ task[t].pc = "lookup"
    /\ IF /\ task[t].who \in participants
          /\ Publishing(t) \/ task[t].flow \in publications
          /\ pair[task[t].who] # 0
       THEN task' = [task EXCEPT ![t].pc = "engine",
                                 ![t].got[task[t].who] = pair[task[t].who]]
       ELSE Finish(t)
    /\ UNCHANGED <<roomVars, engineVars, doomed>>

\* The router of the transport looked up, 0 once the engine closed it.
Wire(t) == transports[<<task[t].who, task[t].got[task[t].who]>>]

\* The router of a flow's producer, 0 once it or its transport is closed.
Source(f) == IF producers[f] = 0 THEN 0 ELSE transports[<<f[1], producers[f]>>]

\* Mutant: the producer is not kept in the registry.
ProduceUnkept(t) ==
    /\ task[t].pc = "engine"
    /\ Publishing(t)
    /\ \E n \in FlowIds :
         /\ FirstOf(FreeFlows(task[t].who), n)
         /\ task' = [task EXCEPT ![t].pc = "record", ![t].made = n]
    /\ UNCHANGED <<roomVars, engineVars, doomed>>

Produce(t) ==
    /\ task[t].pc = "engine"
    /\ Publishing(t)
    /\ Wire(t) # 0
    /\ \E n \in FlowIds :
         /\ FirstOf(FreeFlows(task[t].who), n)
         /\ producers' = [producers EXCEPT ![<<task[t].who, n>>] = task[t].got[task[t].who]]
         /\ task' = [task EXCEPT ![t].pc = "record", ![t].made = n]
    /\ UNCHANGED <<roomVars, routers, transports, consumers, doomed>>

Consume(t) ==
    /\ task[t].pc = "engine"
    /\ task[t].op = "subscribe"
    /\ Wire(t) # 0
    /\ Source(task[t].flow) = Wire(t)
    /\ \E n \in FlowIds :
         /\ FirstOf(FreeConsumers(task[t].who), n)
         /\ consumers' = consumers \cup {<<task[t].who, n>>}
         /\ task' = [task EXCEPT ![t].pc = "record", ![t].made = n]
    /\ UNCHANGED <<roomVars, routers, transports, producers, doomed>>

\* The transport or the producer is closed, or they are on two routers.
EngineRefuses(t) ==
    /\ task[t].pc = "engine"
    /\ \/ Wire(t) = 0
       \/ task[t].op = "subscribe" /\ Source(task[t].flow) # Wire(t)
    /\ Finish(t)
    /\ UNCHANGED <<roomVars, engineVars, doomed>>

\* publish: the room must still be there; its owner is not looked at.
RecordPublication(t) ==
    /\ task[t].pc = "record"
    /\ Publishing(t)
    /\ publications' = IF participants # {}
                       THEN publications \cup {<<task[t].who, task[t].made>>}
                       ELSE publications
    /\ Finish(t)
    /\ UNCHANGED <<participants, pair, lastSeen, subscriptions, screensharing,
                   router, outdated, engineVars, doomed>>

\* subscribe: the subscriber must still be there; the flow is not looked at,
\* and an earlier consumer of the same flow is forgotten, not closed.
RecordSubscription(t) ==
    /\ task[t].pc = "record"
    /\ task[t].op = "subscribe"
    /\ subscriptions' = IF task[t].who \in participants
          THEN [subscriptions EXCEPT ![task[t].who][task[t].flow] = task[t].made]
          ELSE subscriptions
    /\ Finish(t)
    /\ UNCHANGED <<participants, pair, lastSeen, publications, screensharing,
                   router, outdated, engineVars, doomed>>

-----------------------------------------------------------------------------

Step(t) ==
    \/ Enter(t) \/ Remove(t) \/ RemoveAbsent(t) \/ Unpublish(t) \/ Clean(t)
    \/ Insert(t) \/ Touch(t) \/ Share(t)
    \/ Plan(t) \/ CreateRouter(t) \/ Provision(t) \/ ProvisionFails(t)
    \/ Commit(t) \/ CommitLost(t) \/ CommitGone(t)
    \/ Lookup(t) \/ Produce(t) \/ Consume(t) \/ EngineRefuses(t)
    \/ RecordPublication(t) \/ RecordSubscription(t)
    \/ GiveUp(t)

Next ==
    \/ \E t \in Tasks, op \in Ops, p \in Participants, f \in Flows \cup {NoFlow} :
          Request(t, op, p, f)
    \/ \E t \in Slots : Step(t)
    \/ \E p \in Participants : Heartbeat(p) \/ Age(p) \/ Evict(p)
    \/ Scan

Spec == Init /\ [][Next]_vars

-----------------------------------------------------------------------------
(* Properties.  Those about Quiet states speak of a room no request works  *)
(* on: while one does, its objects are legitimately half built.            *)

\* A publication belongs to a participant of the room: nobody is offered the
\* flow of someone who has left.
NoGhostPublication == \A f \in publications : f[1] \in participants

\* A subscription links a participant to a flow still published.
NoGhostSubscription ==
    \A p \in Participants, f \in Flows :
        subscriptions[p][f] # 0 => p \in participants /\ f \in publications

\* A room in SFU has moved everybody: each participant has its transports,
\* and they live on the room's own router.
AllOnOneRouter ==
    Quiet /\ router # 0 =>
        \A p \in participants : pair[p] # 0 /\ transports[<<p, pair[p]>>] = router

\* Nobody straddles two routers: the transports of whoever has some live on
\* the room's router.
NoStraddling ==
    Quiet /\ router # 0 =>
        \A p \in participants : pair[p] # 0 => transports[<<p, pair[p]>>] = router

\* What the room offers exists in the engine: a flow is published after its
\* producer is made and withdrawn before it is closed, a subscription too.
EngineBacksRoom ==
    /\ \A f \in publications : producers[f] # 0
    /\ \A p \in Participants, f \in Flows :
          subscriptions[p][f] # 0 => <<p, subscriptions[p][f]>> \in consumers

\* Above the threshold the room is in SFU.
CrowdedMeansSfu ==
    Quiet /\ Cardinality(participants) > MeshThreshold => router # 0

\* The engine runs no router but the room's: neither the last to leave nor
\* the loser of a race between two migrations abandons one.
NoRouterLeak == Quiet => routers \subseteq {router}

\* The engine holds the transports, producers and consumers that the room
\* refers to and no others.
NoObjectLeak ==
    Quiet =>
        /\ {x \in Pairs : transports[x] # 0} = {<<p, pair[p]>> : p \in participants} \cap Pairs
        /\ {f \in Flows : producers[f] # 0} = publications
        /\ consumers = ConsumersOf(Participants, {})

\* The router of the room is open: it is closed by the last to leave or by the
\* migration that made it in vain, and not before.  A migration that had found
\* the router of an earlier room sets it again, open or not.
RouterIsOpen == router # 0 /\ ~outdated => router \in routers

\* After a request the engine runs the room's router and no other.
RouterMatches == Quiet => routers = {router} \ {0}

\* The types, and after every request the engine runs what the room refers to,
\* where the room refers to it: its router, no object left over, none missing.
EngineMatchesRoom == TypeOK /\ RouterMatches /\ AllOnOneRouter /\ NoObjectLeak

\* Who is crowded has a router, it is open, and the engine keeps no second one.
RouterFitsRoom == NoRouterLeak /\ CrowdedMeansSfu /\ RouterIsOpen

\* However requests overlap, a crowded room has a router, the engine runs no
\* other, and runs this one unless a migration set it that was planned for an
\* earlier room; what the room offers exists in the engine in any case.
RoomIsBacked == RouterFitsRoom /\ EngineBacksRoom

\* The room's router is open, whoever set it.
RouterAlwaysOpen == router # 0 => router \in routers

\* Whatever fails, a flow that is offered or received is there to be received:
\* its owner in the room, its objects in the engine.
FlowsAreReal == NoGhostSubscription /\ EngineBacksRoom

\* Every participant can be evicted one day: it has a heartbeat to lose.
NoImmortalGhost == Quiet => \A p \in participants : lastSeen[p] # "never"

\* The seats are never exceeded.
SeatsRespected == Cardinality(participants) <= MaxSeats

\* What the clients see of the room is the roster of SfuRoster, where every
\* request is one step: half-done work never shows, whatever fails.
Roster == INSTANCE SfuRoster WITH
    Owner <- [f \in Flows |-> f[1]],
    members <- participants,
    sfu <- (router # 0),
    wired <- {p \in participants : pair[p] # 0},
    flows <- publications,
    heard <- {h \in Participants \X Flows : subscriptions[h[1]][h[2]] # 0}

ImplementsRoster == Roster!Spec

\* Once in SFU a room stays on its router until its last participant leaves.
SfuIsSticky == [][router # 0 /\ participants' # {} => router' = router]_vars

=============================================================================
