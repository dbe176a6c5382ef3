-------------------------- MODULE SfuSessionProofs --------------------------
(***************************************************************************)
(* ActiveIsJoined for any number of clients and accounts, with calls lost, *)
(* answered late or abandoned, by pages that come, go and reconnect.  It   *)
(* needs a client that still waits for its answer to be connected, its     *)
(* handler to have recorded the channel before it sets the session up, and *)
(* no call of a client to outlive the moment the session becomes active.   *)
(***************************************************************************)
EXTENDS SfuSession, TLAPS

ActiveIsSettled == \A s \in Sockets : phase[s] = "active" => call[s] = "none"
WaitingIsLive == \A s \in Sockets : Waiting(s) => s \in live
SetupIsJoined ==
    \A s \in Sockets : call[s] = "setup" /\ Waiting(s) => s \in joined

IInv ==
    /\ TypeOK
    /\ ActiveIsJoined
    /\ ActiveIsSettled
    /\ WaitingIsLive
    /\ SetupIsJoined

LEMMA InitEstablishes == Init => IInv
  BY SessionAssumption
  DEF Init, IInv, TypeOK, ActiveIsJoined, ActiveIsSettled, WaitingIsLive,
      SetupIsJoined, Waiting, Phases, Calls

\* The daemon keeps a clock for its participants and for nobody else, when it
\* admits an account and when it removes one.
Clocked ==
    /\ holder \in [Users -> Sockets \cup {Nobody}]
    /\ stale \subseteq {u \in Users : holder[u] # Nobody}

LEMMA AdmitKeepsClocks ==
    ASSUME Clocked, NEW s \in Sockets, User[s] \in Users, Admit(s)
    PROVE  Clocked'
<1>1. holder' = [holder EXCEPT ![User[s]] = s] /\ stale' = stale \ {User[s]}
  BY DEF Admit
<1>2. holder' \in [Users -> Sockets \cup {Nobody}]
  BY <1>1 DEF Clocked
<1>3. \A v \in stale' : v \in Users /\ v # User[s] /\ holder'[v] = holder[v] /\ holder[v] # Nobody
  BY <1>1 DEF Clocked
<1>4. QED
  BY <1>2, <1>3 DEF Clocked

LEMMA ExpelKeepsClocks ==
    ASSUME Clocked, NEW u \in Users, Expel(u)
    PROVE  Clocked'
<1>1. holder' = [holder EXCEPT ![u] = Nobody] /\ stale' = stale \ {u}
  BY DEF Expel
<1>2. holder' \in [Users -> Sockets \cup {Nobody}]
  BY <1>1 DEF Clocked
<1>3. \A v \in stale' : v \in Users /\ v # u /\ holder'[v] = holder[v] /\ holder[v] # Nobody
  BY <1>1 DEF Clocked
<1>4. QED
  BY <1>2, <1>3 DEF Clocked

\* The steps of the daemon on its roster alone: no client and no handler moves.
LEMMA DaemonKeeps ==
    ASSUME IInv, NEW s \in Sockets, NEW u \in Users,
           \/ StrayJoin(s) \/ StrayLost(s) \/ DaemonLeave(s) \/ LeaveLost(s)
           \/ Silence(u) \/ Evict(u)
    PROVE  IInv'
<1>1. UNCHANGED <<live, spare, phase, call, joined>>
  BY DEF StrayJoin, StrayLost, DaemonLeave, LeaveLost, Silence, Evict
<1>2. User[s] \in Users
  BY SessionAssumption
<1>3. StrayJoin(s) => TypeOK'
  BY <1>1, <1>2, AdmitKeepsClocks DEF IInv, TypeOK, Clocked, StrayJoin
<1>4. DaemonLeave(s) => TypeOK'
  BY <1>1, <1>2, ExpelKeepsClocks DEF IInv, TypeOK, Clocked, DaemonLeave
<1>5. Evict(u) => TypeOK'
  BY <1>1, ExpelKeepsClocks DEF IInv, TypeOK, Clocked, Evict
<1>6. (StrayLost(s) \/ LeaveLost(s) \/ Silence(u)) => TypeOK'
  BY <1>1 DEF IInv, TypeOK, StrayLost, LeaveLost, Silence, Present
<1>7. TypeOK'
  BY <1>3, <1>4, <1>5, <1>6 DEF IInv
<1>8. QED
  BY <1>1, <1>7 DEF IInv, ActiveIsJoined, ActiveIsSettled, WaitingIsLive, SetupIsJoined, Waiting

\* The daemon answers a join.
LEMMA AnswerKeeps ==
    ASSUME IInv, NEW s \in Sockets, DaemonJoin(s) \/ DaemonRefuse(s)
    PROVE  IInv'
<1>1. PICK c \in {"accepted", "refused"} : call' = [call EXCEPT ![s] = c]
  BY DEF DaemonJoin, DaemonRefuse
<1>2. call[s] = "sent" /\ UNCHANGED <<live, spare, phase, joined, strays, leaves>>
  BY DEF DaemonJoin, DaemonRefuse
<1>3. User[s] \in Users
  BY SessionAssumption
<1>4. Clocked'
  <2>1. Clocked
    BY DEF IInv, TypeOK, Clocked
  <2>2. Admit(s) \/ UNCHANGED <<holder, stale>>
    BY DEF DaemonJoin, DaemonRefuse
  <2>3. QED
    BY <1>3, <2>1, <2>2, AdmitKeepsClocks DEF Clocked
<1>5. TypeOK'
  BY <1>1, <1>2, <1>4 DEF IInv, TypeOK, Calls, Clocked
<1>6. QED
  BY <1>1, <1>2, <1>5
  DEF IInv, TypeOK, ActiveIsJoined, ActiveIsSettled, WaitingIsLive, SetupIsJoined, Waiting

\* The steps of the handler of voice:sfu_join and of the client it answers.
LEMMA JoinKeeps ==
    ASSUME IInv, NEW s \in Sockets,
           \/ Join(s) \/ HangUp(s) \/ AckTimeout(s) \/ JoinRefused(s)
           \/ JoinTimeout(s) \/ JoinAccepted(s) \/ SetupDone(s) \/ SetupFails(s)
    PROVE  IInv'
<1> USE DEF IInv, TypeOK, ActiveIsJoined, ActiveIsSettled, WaitingIsLive, SetupIsJoined, Waiting,
            Phases, Calls
<1>1. CASE Join(s)
  BY <1>1 DEF Join
<1>2. CASE JoinRefused(s)
  BY <1>2 DEF JoinRefused, Fail
<1>3. CASE JoinTimeout(s)
  BY <1>3 DEF JoinTimeout, Fail
<1>4. CASE JoinAccepted(s)
  BY <1>4 DEF JoinAccepted
<1>5. CASE SetupDone(s)
  BY <1>5 DEF SetupDone
<1>6. CASE SetupFails(s)
  BY <1>6 DEF SetupFails, Fail
<1>7. CASE HangUp(s)
  BY <1>7 DEF HangUp
<1>8. CASE AckTimeout(s)
  BY <1>8 DEF AckTimeout, Fail
<1>9. QED
  BY <1>1, <1>2, <1>3, <1>4, <1>5, <1>6, <1>7, <1>8

\* The steps of a session under way.
LEMMA SessionKeeps ==
    ASSUME IInv, NEW s \in Sockets,
           Leave(s) \/ Recover(s) \/ GiveUp(s) \/ Heartbeat(s) \/ Disconnect(s)
    PROVE  IInv'
<1> USE DEF IInv, TypeOK, ActiveIsJoined, ActiveIsSettled, WaitingIsLive, SetupIsJoined, Waiting,
            Phases, Calls
<1>1. CASE Leave(s)
  BY <1>1 DEF Leave, RelayLeave, InSession
<1>2. CASE Recover(s)
  BY <1>2 DEF Recover, RelayLeave, InSession
<1>3. CASE GiveUp(s)
  BY <1>3 DEF GiveUp, RelayLeave, InSession
<1>4. CASE Heartbeat(s)
  <2>1. stale' \subseteq stale /\ UNCHANGED holder
    BY <1>4 DEF Heartbeat
  <2>2. phase' = phase \/ phase' = [phase EXCEPT ![s] = "stopped"]
    BY <1>4 DEF Heartbeat
  <2>3. UNCHANGED <<live, spare, call, joined, strays, leaves>>
    BY <1>4 DEF Heartbeat
  <2>4. CASE phase' = phase
    BY <2>1, <2>3, <2>4
  <2>5. CASE phase' = [phase EXCEPT ![s] = "stopped"]
    BY <2>1, <2>3, <2>5
  <2>6. QED
    BY <2>2, <2>4, <2>5
<1>5. CASE Disconnect(s)
  BY <1>5 DEF Disconnect, Close
<1>6. QED
  BY <1>1, <1>2, <1>3, <1>4, <1>5

\* A page that moves to another socket is not active there: its session is
\* adopted, and the answer it waited for is lost.
LEMMA ReconnectKeeps ==
    ASSUME IInv, NEW s \in Sockets, NEW t \in Sockets, Reconnect(s, t)
    PROVE  IInv'
<1> USE DEF IInv, TypeOK, ActiveIsJoined, ActiveIsSettled, WaitingIsLive, SetupIsJoined, Waiting,
            Phases, Calls
<1>1. s # t /\ s \in live /\ t \in spare
  BY DEF Reconnect, Close
<1>2. PICK c \in {"idle", "adopted", "recovering", "stopped"} :
         phase' = [phase EXCEPT ![s] = "idle", ![t] = c]
  <2>1. phase[s] \in Phases
    OBVIOUS
  <2>2. (CASE InSession(s) -> "adopted" [] Waiting(s) -> "stopped" [] OTHER -> phase[s])
           \in {"idle", "adopted", "recovering", "stopped"}
    BY <2>1 DEF InSession
  <2>3. QED
    BY <2>2 DEF Reconnect
<1>3. /\ live' = (live \ {s}) \cup {t}
      /\ spare' = spare \ {t}
      /\ joined' = joined \ {s}
      /\ leaves' \subseteq Sockets
      /\ UNCHANGED <<call, strays, holder, stale>>
  BY DEF Reconnect, Close
<1>4. phase' \in [Sockets -> Phases]
  BY <1>2
<1>5. \A r \in Sockets : phase'[r] \in {"active", "joining", "left"} => r \notin {s, t} /\ phase'[r] = phase[r]
  BY <1>1, <1>2
<1>6. TypeOK'
  BY <1>1, <1>3, <1>4
<1>7. ActiveIsJoined' /\ ActiveIsSettled'
  BY <1>3, <1>5
<1>8. WaitingIsLive' /\ SetupIsJoined'
  BY <1>3, <1>5
<1>9. QED
  BY <1>6, <1>7, <1>8

LEMMA StepKeeps == IInv /\ [Next]_vars => IInv'
<1> SUFFICES ASSUME IInv, [Next]_vars PROVE IInv'
  OBVIOUS
<1>1. ASSUME NEW s \in Sockets,
             \/ DaemonJoin(s) \/ DaemonRefuse(s) \/ StrayJoin(s) \/ StrayLost(s)
             \/ DaemonLeave(s) \/ LeaveLost(s)
      PROVE  IInv'
  <2>1. User[s] \in Users
    BY SessionAssumption
  <2>2. QED
    BY <1>1, <2>1, DaemonKeeps, AnswerKeeps
<1>2. ASSUME NEW s \in Sockets,
             \/ Join(s) \/ HangUp(s) \/ AckTimeout(s) \/ JoinRefused(s)
             \/ JoinTimeout(s) \/ JoinAccepted(s) \/ SetupDone(s) \/ SetupFails(s)
      PROVE  IInv'
  BY <1>2, JoinKeeps
<1>3. ASSUME NEW s \in Sockets,
             Leave(s) \/ Recover(s) \/ GiveUp(s) \/ Heartbeat(s) \/ Disconnect(s)
      PROVE  IInv'
  BY <1>3, SessionKeeps
<1>4. ASSUME NEW u \in Users, Silence(u) \/ Evict(u)
      PROVE  IInv'
  <2>1. UNCHANGED <<live, spare, phase, call, joined, strays, leaves>>
    BY <1>4 DEF Silence, Evict
  <2>2. Clocked
    BY DEF IInv, TypeOK, Clocked
  <2>3. Silence(u) => Clocked'
    BY <2>2 DEF Silence, Present, Clocked
  <2>4. Evict(u) => Clocked'
    BY <2>2, ExpelKeepsClocks DEF Evict
  <2>5. TypeOK'
    BY <1>4, <2>1, <2>3, <2>4 DEF IInv, TypeOK, Clocked
  <2>6. QED
    BY <2>1, <2>5 DEF IInv, ActiveIsJoined, ActiveIsSettled, WaitingIsLive, SetupIsJoined, Waiting
<1>5. CASE UNCHANGED vars
  BY <1>5 DEF vars, IInv, TypeOK, ActiveIsJoined, ActiveIsSettled, WaitingIsLive, SetupIsJoined, Waiting
<1>6. ASSUME NEW s \in Sockets, NEW t \in Sockets, Reconnect(s, t)
      PROVE  IInv'
  BY <1>6, ReconnectKeeps
<1>7. QED
  BY <1>1, <1>2, <1>3, <1>4, <1>5, <1>6 DEF Next

\* A client with an active session is known to the handler that must leave for
\* it, for any number of clients and whatever happens to their calls.
THEOREM ActiveSessionsAreJoined == Spec => []SessionSound
<1>1. IInv => SessionSound
  BY DEF IInv, SessionSound
<1>2. QED
  BY <1>1, InitEstablishes, StepKeeps, PTL DEF Spec

=============================================================================
