-------------------------------- MODULE Relay ---------------------------------
(***************************************************************************)
(* One slug of the relay: the sessions of nexus-relay/src/server, the HTTP *)
(* proxy before them, and the client that keeps a tunnel up.               *)
(*                                                                         *)
(* A session is a run and the tasks it spawns.  The run returns when the   *)
(* first of them ends; dropping a handle does not abort a task, so the     *)
(* others live on.  The registry is keyed by slug, not by session.         *)
(***************************************************************************)
EXTENDS Naturals, FiniteSets

CONSTANTS
    Tunnels,    \* sessions there may be traces of at a time
    Requests,   \* HTTP requests being proxied at a time
    KeepAlive,  \* the client's socket has keepalive: raw TCP, not WebSocket
    MaxFaults   \* bound: cuts, restarts and refusals

NoTunnel == "no tunnel"

ASSUME RelayAssumption ==
    /\ KeepAlive \in BOOLEAN
    /\ MaxFaults \in Nat
    /\ NoTunnel \notin Tunnels

VARIABLES
    registry,   \* whose handle the slug has
    run,        \* where session::run is
    writing,    \* sessions whose write task is running
    reading,    \* sessions whose read task is running
    link,       \* "cut": nothing passes and nobody was told
    client,     \* the session the client is on
    told,       \* it has read Registered
    req,        \* requests handed to a session
    faults

relayVars == <<registry, run, writing, reading, link, client, told, req, faults>>

Done == {"none", "over", "failed"}
Unreg == {"verify", "announce"}
Runs == Done \cup Unreg \cup {"live", "ending"}
NoRequest == [at |-> NoTunnel, st |-> "none"]

RelayTypeOK ==
    /\ registry \in Tunnels \cup {NoTunnel}
    /\ run \in [Tunnels -> Runs]
    /\ writing \subseteq Tunnels
    /\ reading \subseteq Tunnels
    /\ link \in [Tunnels -> {"up", "cut", "closed"}]
    /\ client \in Tunnels \cup {NoTunnel}
    /\ told \in BOOLEAN
    /\ req \in [Requests -> [at : Tunnels, st : {"queued", "pending"}] \cup {NoRequest}]
    /\ faults \in 0 .. MaxFaults

RelayInit ==
    /\ registry = NoTunnel
    /\ run = [t \in Tunnels |-> "none"]
    /\ writing = {}
    /\ reading = {}
    /\ link = [t \in Tunnels |-> "closed"]
    /\ client = NoTunnel
    /\ told = FALSE
    /\ req = [r \in Requests |-> NoRequest]
    /\ faults = 0

-----------------------------------------------------------------------------

RequestsAt(t) == {r \in Requests : req[r].at = t}

\* Somebody still reads the channel of the handle.
Receiving == writing \cup {t \in Tunnels : run[t] = "announce"}

\* Nothing reaches the client any more: the pings go to the registered handle.
Silent(t) == link[t] = "cut" \/ (registry # t /\ run[t] \notin Unreg)

\* Both halves of the stream are dropped.
Hung(t) == run[t] \in Done /\ t \notin reading \cup writing

Goto(t, pc) == run' = [run EXCEPT ![t] = pc]

\* Requests whose channel is dropped answer 504 at once.
DropRequests(t, states) ==
    req' = [r \in Requests |->
              IF req[r].at = t /\ req[r].st \in states THEN NoRequest ELSE req[r]]

-----------------------------------------------------------------------------
(* The client.                                                             *)

\* The backoff (1 s and more) is longer than it takes the relay to see the end
\* of a connection the client closed, unless that one was still registering.
SawTheEnd == \A u \in Tunnels :
    link[u] = "closed" /\ run[u] \notin Unreg => u \notin reading /\ run[u] \in Done

Connect(t) ==
    /\ client = NoTunnel
    /\ SawTheEnd
    /\ Hung(t) /\ registry # t /\ RequestsAt(t) = {}
    /\ client' = t
    /\ told' = FALSE
    /\ link' = [link EXCEPT ![t] = "up"]
    /\ Goto(t, "verify")
    /\ UNCHANGED <<registry, writing, reading, req, faults>>

HangUp(t) ==
    /\ client = t
    /\ client' = NoTunnel
    /\ link' = [link EXCEPT ![t] = IF @ = "up" THEN "closed" ELSE @]
    /\ UNCHANGED <<registry, run, writing, reading, told, req>>

\* Mutant: keepalive is not set on the client's socket.
SessionEndsAtDeadline(t) ==
    /\ (link[t] = "up" /\ Hung(t)) \/ (told /\ Silent(t))
    /\ HangUp(t)
    /\ UNCHANGED faults

\* End of stream, the read deadline, or keepalive; there is no deadline
\* before Registered.
SessionEnds(t) ==
    /\ \/ link[t] = "up" /\ Hung(t)
       \/ told /\ Silent(t)
       \/ KeepAlive /\ link[t] = "cut"
    /\ HangUp(t)
    /\ UNCHANGED faults

Restart(t) ==
    /\ faults < MaxFaults
    /\ faults' = faults + 1
    /\ HangUp(t)

Cut(t) ==
    /\ client = t /\ link[t] = "up"
    /\ faults < MaxFaults
    /\ faults' = faults + 1
    /\ link' = [link EXCEPT ![t] = "cut"]
    /\ UNCHANGED <<registry, run, writing, reading, client, told, req>>

-----------------------------------------------------------------------------
(* The session.                                                            *)

\* The token is wrong, the query fails, or nothing is read for 10 s.
Refuse(t) ==
    /\ run[t] = "verify"
    /\ link[t] = "up" => faults < MaxFaults
    /\ faults' = IF link[t] = "up" THEN faults + 1 ELSE faults
    /\ Goto(t, "over")
    /\ UNCHANGED <<registry, writing, reading, link, client, told, req>>

Register(t) ==
    /\ run[t] = "verify"
    /\ registry' = t
    /\ Goto(t, "announce")
    /\ UNCHANGED <<writing, reading, link, client, told, req, faults>>

\* The telemetry is written or not; then Registered, and the tasks start.
Announce(t) ==
    /\ run[t] = "announce"
    /\ Goto(t, "live")
    /\ writing' = writing \cup {t}
    /\ reading' = reading \cup {t}
    /\ told' = (told \/ (client = t /\ link[t] = "up"))
    /\ UNCHANGED <<registry, link, client, req, faults>>

\* The "?" after the write returns with the handle still in the registry.
AnnounceFails(t) ==
    /\ run[t] = "announce" /\ link[t] # "up"
    /\ Goto(t, "failed")
    /\ DropRequests(t, {"queued"})
    /\ UNCHANGED <<registry, writing, reading, link, client, told, faults>>

WriteFails(t) ==
    /\ t \in writing /\ link[t] # "up"
    /\ writing' = writing \ {t}
    /\ DropRequests(t, IF t \in reading THEN {"queued"} ELSE {"queued", "pending"})
    /\ UNCHANGED <<registry, run, reading, link, client, told, faults>>

\* Every sender is gone: the handle, and the proxied requests that hold it.
ChannelCloses(t) ==
    /\ t \in writing /\ registry # t /\ RequestsAt(t) = {}
    /\ writing' = writing \ {t}
    /\ UNCHANGED <<registry, run, reading, link, client, told, req, faults>>

\* End of stream or 90 s without a word.  A client answers pings and requests.
ReaderEnds(t) ==
    /\ t \in reading
    /\ link[t] = "closed" \/ (Silent(t) /\ (link[t] = "up" => RequestsAt(t) = {}))
    /\ reading' = reading \ {t}
    /\ registry' = NoTunnel
    /\ DropRequests(t, IF t \in writing THEN {} ELSE {"pending"})
    /\ UNCHANGED <<run, writing, link, client, told, faults>>

\* The tick finds no handle, or one that nobody reads.
PingEnds(t) ==
    /\ run[t] = "live"
    /\ registry \notin Receiving
    /\ Goto(t, "ending")
    /\ UNCHANGED <<registry, writing, reading, link, client, told, req, faults>>

\* Mutant: the slug is left to the dead session.
RunEndsRegistered(t) ==
    /\ run[t] = "ending" \/ (run[t] = "live" /\ t \notin writing \cap reading)
    /\ Goto(t, "over")
    /\ UNCHANGED <<registry, writing, reading, link, client, told, req, faults>>

\* Mutant: the return aborts the tasks.
RunEndsAborting(t) ==
    /\ run[t] = "ending" \/ (run[t] = "live" /\ t \notin writing \cap reading)
    /\ Goto(t, "over")
    /\ registry' = NoTunnel
    /\ writing' = writing \ {t} /\ reading' = reading \ {t}
    /\ UNCHANGED <<link, client, told, req, faults>>

RunEnds(t) ==
    /\ \/ run[t] = "ending"
       \/ run[t] = "live" /\ t \notin writing \cap reading
    /\ Goto(t, "over")
    /\ registry' = NoTunnel
    /\ UNCHANGED <<writing, reading, link, client, told, req, faults>>

-----------------------------------------------------------------------------
(* The proxy.  Without a handle it redirects, with a dead one it says 503. *)
(* Looking the handle up, noting the request and sending it are one step.  *)

Proxy(r) ==
    /\ req[r] = NoRequest
    /\ registry \in Receiving
    /\ req' = [req EXCEPT ![r] = [at |-> registry, st |-> "queued"]]
    /\ UNCHANGED <<registry, run, writing, reading, link, client, told, faults>>

Forward(r) ==
    /\ req[r].st = "queued" /\ req[r].at \in writing
    /\ req' = [req EXCEPT ![r].st = "pending"]
    /\ UNCHANGED <<registry, run, writing, reading, link, client, told, faults>>

\* The local server's answer, or the client's 502 after its own 12 s.
Answer(r) ==
    /\ req[r].st = "pending" /\ req[r].at \in reading /\ link[req[r].at] = "up"
    /\ req' = [req EXCEPT ![r] = NoRequest]
    /\ UNCHANGED <<registry, run, writing, reading, link, client, told, faults>>

GatewayTimeout(r) ==
    /\ req[r] # NoRequest
    /\ req' = [req EXCEPT ![r] = NoRequest]
    /\ UNCHANGED <<registry, run, writing, reading, link, client, told, faults>>

-----------------------------------------------------------------------------

\* What goes on by itself: clocks, the relay and the client's loop.
Progress(t) ==
    \/ Connect(t) \/ SessionEnds(t)
    \/ Register(t) \/ Announce(t)
    \/ WriteFails(t) \/ ChannelCloses(t) \/ ReaderEnds(t) \/ PingEnds(t) \/ RunEnds(t)

RelayNext ==
    \/ \E t \in Tunnels : \/ Progress(t)
                          \/ Restart(t) \/ Cut(t) \/ Refuse(t) \/ AnnounceFails(t)
    \/ \E r \in Requests : Proxy(r) \/ Forward(r) \/ Answer(r) \/ GatewayTimeout(r)

RelaySpec == RelayInit /\ [][RelayNext]_relayVars

RelayFairness ==
    /\ \A t \in Tunnels :
         /\ WF_relayVars(Connect(t))
         /\ WF_relayVars(SessionEnds(t))
         /\ WF_relayVars(Register(t) \/ Refuse(t))
         /\ WF_relayVars(Announce(t) \/ AnnounceFails(t))
         /\ WF_relayVars(ChannelCloses(t))
         /\ WF_relayVars(ReaderEnds(t))
         /\ WF_relayVars(PingEnds(t))
         /\ WF_relayVars(RunEnds(t))
    /\ \A r \in Requests : WF_relayVars(GatewayTimeout(r))

FairRelay == RelaySpec /\ RelayFairness

-----------------------------------------------------------------------------

\* The slug never leads to a session whose run has returned, so that visitors
\* would get 503 instead of the redirect, with one exception: a connection
\* that broke between the registration and the answer to it.
NoDeadTunnel ==
    registry # NoTunnel => run[registry] \in {"announce", "live", "ending", "failed"}

\* A request accepted for a client that is there is written and its answer is
\* read, even if the session was unregistered in the meantime: the tasks
\* outlive the run, and the request itself keeps the channel open.
NoRequestStranded ==
    \A r \in Requests : LET t == req[r].at IN
        req[r] # NoRequest /\ link[t] = "up" =>
            \/ run[t] = "announce"
            \/ t \in reading /\ (req[r].st = "queued" => t \in writing)

\* Once the network stops failing, the client ends up on the session that
\* visitors reach, and stays there: whatever stale sessions still remove the
\* slug, the client notices the silence and registers again.
TunnelComesBack ==
    <>[](client # NoTunnel /\ registry = client /\ run[client] = "live")

\* "Returns once the client goes away, the session falls silent past
\* READ_DEADLINE, or authentication fails" (session.rs): no run returns while
\* its client is connected and its reader still waits for it.
RunsWhileConnected ==
    \A t \in Tunnels : run[t] = "over" /\ t \in reading => link[t] # "up"

\* The registry is the map "slug -> active tunnel handle" (registry.rs).
OnlyActiveHandles ==
    registry # NoTunnel => registry \in Receiving \/ run[registry] = "live"

=============================================================================
