----------------------------- MODULE RelayProofs -----------------------------
(***************************************************************************)
(* The relay: NoDeadTunnel and NoRequestStranded for any number of         *)
(* sessions, requests and faults.                                          *)
(***************************************************************************)
EXTENDS Relay, FiniteSetTheorems, TLAPS

-----------------------------------------------------------------------------
(* Relay.  NoDeadTunnel is inductive with the type.  NoRequestStranded     *)
(* needs to know that the session which has the slug is still read, and    *)
(* that one whose registration could not be answered has lost its          *)
(* connection.                                                             *)

HandleIsRead ==
    \A t \in Tunnels : registry = t /\ run[t] \in {"live", "ending"} => t \in reading

FailedIsCut == \A t \in Tunnels : run[t] = "failed" => link[t] # "up" /\ t \notin writing

UnregIsQuiet == \A t \in Tunnels : run[t] \in Unreg => t \notin writing \cup reading

RelayInv ==
    /\ RelayTypeOK
    /\ NoDeadTunnel
    /\ HandleIsRead
    /\ FailedIsCut
    /\ UnregIsQuiet
    /\ NoRequestStranded

LEMMA InitEstablishes == RelayInit => RelayInv
<1> SUFFICES ASSUME RelayInit PROVE RelayInv
  OBVIOUS
<1>1. \A r \in Requests : req[r] = NoRequest
  BY DEF RelayInit
<1>2. RelayTypeOK
  <2>1. req \in [Requests -> [at : Tunnels, st : {"queued", "pending"}] \cup {NoRequest}]
    BY DEF RelayInit
  <2>2. faults \in 0 .. MaxFaults
    BY RelayAssumption DEF RelayInit, RelayAssumption
  <2>3. run \in [Tunnels -> Runs] /\ link \in [Tunnels -> {"up", "cut", "closed"}]
    BY DEF RelayInit, Runs, Done
  <2>4. QED
    BY <2>1, <2>2, <2>3 DEF RelayInit, RelayTypeOK
<1>3. NoDeadTunnel /\ HandleIsRead /\ FailedIsCut /\ UnregIsQuiet
  BY RelayAssumption DEF RelayInit, NoDeadTunnel, HandleIsRead, FailedIsCut, UnregIsQuiet, Unreg
<1>4. NoRequestStranded
  BY <1>1 DEF NoRequestStranded
<1>5. QED
  BY <1>2, <1>3, <1>4 DEF RelayInv

\* Dropping requests keeps their type, and invents none.
LEMMA DroppingKeepsOthers ==
    ASSUME req \in [Requests -> [at : Tunnels, st : {"queued", "pending"}] \cup {NoRequest}],
           NEW t, NEW states, DropRequests(t, states)
    PROVE  /\ req' \in [Requests -> [at : Tunnels, st : {"queued", "pending"}] \cup {NoRequest}]
           /\ \A r \in Requests : req'[r] # NoRequest => req'[r] = req[r]
           /\ \A r \in Requests : req'[r] # NoRequest => ~(req[r].at = t /\ req[r].st \in states)
  BY DEF DropRequests

\* The steps of the client and of the network.
LEMMA ClientKeeps ==
    ASSUME RelayInv, NEW t \in Tunnels,
           Connect(t) \/ SessionEnds(t) \/ Restart(t) \/ Cut(t)
    PROVE  RelayInv'
<1> USE RelayAssumption
    DEF RelayInv, RelayTypeOK, NoDeadTunnel, HandleIsRead, FailedIsCut, UnregIsQuiet,
        NoRequestStranded, Runs, Done, Unreg
<1>1. CASE Connect(t)
  <2>1. /\ run' = [run EXCEPT ![t] = "verify"] /\ link' = [link EXCEPT ![t] = "up"]
        /\ registry # t /\ t \notin reading \cup writing
        /\ \A r \in Requests : req[r].at # t
        /\ client' = t /\ told' = FALSE
        /\ UNCHANGED <<registry, writing, reading, req, faults>>
    BY <1>1 DEF Connect, Goto, Hung, RequestsAt
  <2>2. RelayTypeOK'
    BY <2>1
  <2>3. NoDeadTunnel' /\ HandleIsRead' /\ FailedIsCut' /\ UnregIsQuiet'
    BY <2>1
  <2>4. NoRequestStranded'
    BY <2>1 DEF NoRequest
  <2>5. QED
    BY <2>2, <2>3, <2>4
<1>2. ASSUME SessionEnds(t) \/ Restart(t) \/ Cut(t)
      PROVE  RelayInv'
  <2>1. /\ link' \in [Tunnels -> {"up", "cut", "closed"}]
        /\ \A u \in Tunnels : link'[u] = "up" => link[u] = "up"
        /\ UNCHANGED <<registry, run, writing, reading, req>>
    BY <1>2 DEF SessionEnds, Restart, Cut, HangUp
  <2>2. client' \in Tunnels \cup {NoTunnel} /\ told' \in BOOLEAN /\ faults' \in 0 .. MaxFaults
    BY <1>2 DEF SessionEnds, Restart, Cut, HangUp
  <2>3. QED
    BY <2>1, <2>2
<1>3. QED
  BY <1>1, <1>2

\* A session registers, or does not.
LEMMA RegistrationKeeps ==
    ASSUME RelayInv, NEW t \in Tunnels,
           Refuse(t) \/ Register(t) \/ Announce(t) \/ AnnounceFails(t)
    PROVE  RelayInv'
<1> USE RelayAssumption
    DEF RelayInv, RelayTypeOK, NoDeadTunnel, HandleIsRead, FailedIsCut, UnregIsQuiet,
        NoRequestStranded, Runs, Done, Unreg, Goto
<1>1. CASE Refuse(t)
  BY <1>1 DEF Refuse
<1>2. CASE Register(t)
  BY <1>2 DEF Register
<1>3. CASE Announce(t)
  BY <1>3 DEF Announce
<1>4. CASE AnnounceFails(t)
  BY <1>4, DroppingKeepsOthers DEF AnnounceFails
<1>5. QED
  BY <1>1, <1>2, <1>3, <1>4

\* The tasks of a session end, each by itself.
LEMMA TasksKeep ==
    ASSUME RelayInv, NEW t \in Tunnels,
           WriteFails(t) \/ ChannelCloses(t) \/ ReaderEnds(t) \/ PingEnds(t) \/ RunEnds(t)
    PROVE  RelayInv'
<1> USE RelayAssumption
    DEF RelayInv, RelayTypeOK, NoDeadTunnel, HandleIsRead, FailedIsCut, UnregIsQuiet,
        NoRequestStranded, Runs, Done, Unreg
<1>1. CASE WriteFails(t)
  <2>1. PICK states : DropRequests(t, states)
    BY <1>1 DEF WriteFails
  <2>2. QED
    BY <1>1, <2>1, DroppingKeepsOthers DEF WriteFails
<1>2. CASE ChannelCloses(t)
  BY <1>2 DEF ChannelCloses, RequestsAt
<1>3. CASE ReaderEnds(t)
  <2>1. PICK states : DropRequests(t, states)
    BY <1>3 DEF ReaderEnds
  <2>2. QED
    BY <1>3, <2>1, DroppingKeepsOthers DEF ReaderEnds, RequestsAt
<1>4. CASE PingEnds(t)
  BY <1>4 DEF PingEnds, Goto
<1>5. CASE RunEnds(t)
  BY <1>5 DEF RunEnds, Goto
<1>6. QED
  BY <1>1, <1>2, <1>3, <1>4, <1>5

\* The proxy hands requests over, and forgets them.
LEMMA ProxyKeeps ==
    ASSUME RelayInv, NEW r \in Requests,
           Proxy(r) \/ Forward(r) \/ Answer(r) \/ GatewayTimeout(r)
    PROVE  RelayInv'
<1> USE RelayAssumption
    DEF RelayInv, RelayTypeOK, NoDeadTunnel, HandleIsRead, FailedIsCut, UnregIsQuiet,
        NoRequestStranded, Runs, Done, Unreg
<1>1. CASE Proxy(r)
  <2>1. registry \in Tunnels
    <3>1. registry \in writing \/ registry \in {t \in Tunnels : run[t] = "announce"}
      BY <1>1 DEF Proxy, Receiving
    <3>2. QED
      BY <3>1
  <2>2. CASE run[registry] = "announce"
    BY <1>1, <2>1, <2>2 DEF Proxy, NoRequest
  <2>3. CASE registry \in writing /\ run[registry] # "announce"
    <3>1. registry \in reading
      BY <2>1, <2>3
    <3>2. QED
      BY <1>1, <2>1, <2>3, <3>1 DEF Proxy, NoRequest
  <2>4. QED
    BY <1>1, <2>1, <2>2, <2>3 DEF Proxy, Receiving
<1>2. CASE Forward(r)
  <2>1. req[r] # NoRequest /\ req[r].at \in Tunnels
    BY <1>2 DEF Forward, NoRequest
  <2>2. /\ req' = [req EXCEPT ![r].st = "pending"]
        /\ UNCHANGED <<registry, run, writing, reading, link, client, told, faults>>
    BY <1>2 DEF Forward
  <2>3. QED
    BY <2>1, <2>2 DEF NoRequest
<1>3. CASE Answer(r) \/ GatewayTimeout(r)
  BY <1>3 DEF Answer, GatewayTimeout
<1>4. QED
  BY <1>1, <1>2, <1>3

LEMMA NextPreserves == RelayInv /\ [RelayNext]_relayVars => RelayInv'
<1> SUFFICES ASSUME RelayInv, [RelayNext]_relayVars PROVE RelayInv'
  OBVIOUS
<1>1. CASE UNCHANGED relayVars
  BY <1>1
  DEF relayVars, RelayInv, RelayTypeOK, NoDeadTunnel, HandleIsRead, FailedIsCut,
      UnregIsQuiet, NoRequestStranded
<1>2. ASSUME NEW t \in Tunnels,
             Progress(t) \/ Restart(t) \/ Cut(t) \/ Refuse(t) \/ AnnounceFails(t)
      PROVE  RelayInv'
  BY <1>2, ClientKeeps, RegistrationKeeps, TasksKeep DEF Progress
<1>3. ASSUME NEW r \in Requests, Proxy(r) \/ Forward(r) \/ Answer(r) \/ GatewayTimeout(r)
      PROVE  RelayInv'
  BY <1>3, ProxyKeeps
<1>4. QED
  BY <1>1, <1>2, <1>3 DEF RelayNext

LEMMA Invariance == RelaySpec => []RelayInv
  BY InitEstablishes, NextPreserves, PTL DEF RelaySpec

-----------------------------------------------------------------------------

\* Type correctness of a slug of the relay (session.rs, registry.rs).
THEOREM RelayTypeCorrect == RelaySpec => []RelayTypeOK
<1>1. RelayInv => RelayTypeOK
  BY DEF RelayInv
<1>2. QED
  BY <1>1, Invariance, PTL

\* Visitors are never led to a session that has returned (session.rs:342).
THEOREM SlugNeverDead == RelaySpec => []NoDeadTunnel
<1>1. RelayInv => NoDeadTunnel
  BY DEF RelayInv
<1>2. QED
  BY <1>1, Invariance, PTL

\* A request handed to a session whose client is there is carried through
\* (http_proxy.rs, proxy_through_tunnel), whatever sessions end meanwhile.
THEOREM RequestsNeverStranded == RelaySpec => []NoRequestStranded
<1>1. RelayInv => NoRequestStranded
  BY DEF RelayInv
<1>2. QED
  BY <1>1, Invariance, PTL

=============================================================================
