----------------------------- MODULE SfuSession -----------------------------
(***************************************************************************)
(* The SFU session of the people of one channel, end to end: the client    *)
(* (nodyx-frontend/src/lib/voiceSfu.ts), the handlers of nodyx-core that   *)
(* relay it (nodyx-core/src/socket/voiceSfu.ts), and the daemon's roster   *)
(* reduced to what the relay can see: one participant per ACCOUNT, with    *)
(* the age of its last heartbeat (SfuRoom opens that box).                 *)
(*                                                                         *)
(* Each relay call is an HTTP request on a connection of its own, so calls *)
(* of one socket may reach the daemon out of order, after the core has     *)
(* given up on them, or never; a socket may close while one is under way.  *)
(* An account may have several pages, which the daemon cannot tell apart,  *)
(* and a page that loses its socket goes on with a new one.                *)
(***************************************************************************)
EXTENDS Naturals, FiniteSets

CONSTANTS
    Sockets,    \* connections of the clients (tabs, devices, reconnections)
    Spares,     \* those that may be kept for reconnections
    Users,
    User,       \* the account of each socket
    Lossy,      \* calls may time out and be lost
    Silences    \* an account may go without heartbeats for longer than the TTL

ASSUME SessionAssumption ==
    /\ Spares \subseteq Sockets
    /\ User \in [Sockets -> Users]
    /\ {Lossy, Silences} \subseteq BOOLEAN

Nobody == "nobody"

VARIABLES
    live,       \* connected sockets
    spare,      \* sockets not used yet
    phase,      \* what the page behind each socket is at
    call,       \* the voice:sfu_join handler of each socket
    joined,     \* sockets whose `joined` set holds the channel
    strays,     \* joins the core gave up on and the daemon may still run
    leaves,     \* sockets whose /v1/leave is on its way
    holder,     \* whose transports the participant of an account has; Nobody
                \* when the account is not in the room
    stale       \* accounts without a heartbeat for longer than the TTL

vars == <<live, spare, phase, call, joined, strays, leaves, holder, stale>>

\* sfuPhaseStore, and two things it does not tell: "left", idle while a
\* sfuJoin still waits; "adopted", active on a socket that did not join.
Phases == {"idle", "joining", "left", "active", "adopted", "recovering", "stopped"}
Calls == {"none", "sent", "accepted", "refused", "setup"}

TypeOK ==
    /\ live \subseteq Sockets
    /\ spare \subseteq Sockets \ live
    /\ phase \in [Sockets -> Phases]
    /\ call \in [Sockets -> Calls]
    /\ joined \subseteq Sockets
    /\ strays \subseteq Sockets
    /\ leaves \subseteq Sockets
    /\ holder \in [Users -> Sockets \cup {Nobody}]
    /\ stale \subseteq {u \in Users : holder[u] # Nobody}

Init ==
    /\ spare \in SUBSET Spares
    /\ live = Sockets \ spare
    /\ phase = [s \in Sockets |-> "idle"]
    /\ call = [s \in Sockets |-> "none"]
    /\ joined = {}
    /\ strays = {}
    /\ leaves = {}
    /\ holder = [u \in Users |-> Nobody]
    /\ stale = {}

Present(u) == holder[u] # Nobody

-----------------------------------------------------------------------------
(* The daemon.  A join replaces whatever session the account had and marks *)
(* it alive; a leave removes the account, whoever asked.                   *)

Admit(s) ==
    /\ holder' = [holder EXCEPT ![User[s]] = s]
    /\ stale' = stale \ {User[s]}

Expel(u) ==
    /\ holder' = [holder EXCEPT ![u] = Nobody]
    /\ stale' = stale \ {u}

DaemonJoin(s) ==
    /\ call[s] = "sent"
    /\ call' = [call EXCEPT ![s] = "accepted"]
    /\ Admit(s)
    /\ UNCHANGED <<live, spare, phase, joined, strays, leaves>>

\* The room is full.
DaemonRefuse(s) ==
    /\ call[s] = "sent"
    /\ call' = [call EXCEPT ![s] = "refused"]
    /\ UNCHANGED <<live, spare, phase, joined, strays, leaves, holder, stale>>

StrayJoin(s) ==
    /\ s \in strays
    /\ strays' = strays \ {s}
    /\ Admit(s)
    /\ UNCHANGED <<live, spare, phase, call, joined, leaves>>

StrayLost(s) ==
    /\ s \in strays
    /\ strays' = strays \ {s}
    /\ UNCHANGED <<live, spare, phase, call, joined, leaves, holder, stale>>

DaemonLeave(s) ==
    /\ s \in leaves
    /\ leaves' = leaves \ {s}
    /\ Expel(User[s])
    /\ UNCHANGED <<live, spare, phase, call, joined, strays>>

LeaveLost(s) ==
    /\ Lossy
    /\ s \in leaves
    /\ leaves' = leaves \ {s}
    /\ UNCHANGED <<live, spare, phase, call, joined, strays, holder, stale>>

\* The TTL elapses without a heartbeat of the account.
Silence(u) ==
    /\ Silences
    /\ Present(u)
    /\ u \notin stale
    /\ stale' = stale \cup {u}
    /\ UNCHANGED <<live, spare, phase, call, joined, strays, leaves, holder>>

\* Mutant: the stale account is listed and nothing is done about it.
EvictForgets(u) ==
    /\ u \in stale
    /\ stale' = stale \ {u}
    /\ UNCHANGED <<live, spare, phase, call, joined, strays, leaves, holder>>

Evict(u) ==
    /\ u \in stale
    /\ Expel(u)
    /\ UNCHANGED <<live, spare, phase, call, joined, strays, leaves>>

-----------------------------------------------------------------------------
(* voice:sfu_join in the core, and the client that waits for its answer.   *)

\* A page that waits for the answer to its voice:sfu_join.
Waiting(s) == phase[s] \in {"joining", "left"}

\* A page that has a session and beats for it.
InSession(s) == phase[s] \in {"active", "adopted"}

\* sfuJoin, from the first press of the button or from maybeRecover.
Join(s) ==
    /\ s \in live
    /\ phase[s] \in {"idle", "recovering", "stopped"}
    /\ call[s] = "none"
    /\ phase' = [phase EXCEPT ![s] = "joining"]
    /\ call' = [call EXCEPT ![s] = "sent"]
    /\ UNCHANGED <<live, spare, joined, strays, leaves, holder, stale>>

\* The client's fail(): no session yet, so nothing to leave.
Fail(s) == phase' = IF Waiting(s) THEN [phase EXCEPT ![s] = "stopped"] ELSE phase

\* sfuLeave before the answer: no session and no channel to leave yet, so it
\* tells nobody and the join goes on.
HangUp(s) ==
    /\ s \in live
    /\ phase[s] = "joining"
    /\ phase' = [phase EXCEPT ![s] = "left"]
    /\ UNCHANGED <<live, spare, call, joined, strays, leaves, holder, stale>>

\* ACK_TIMEOUT_MS: the page gives up, its handler goes on.
AckTimeout(s) ==
    /\ Lossy
    /\ Waiting(s)
    /\ Fail(s)
    /\ UNCHANGED <<live, spare, call, joined, strays, leaves, holder, stale>>

JoinRefused(s) ==
    /\ call[s] = "refused"
    /\ call' = [call EXCEPT ![s] = "none"]
    /\ Fail(s)
    /\ UNCHANGED <<live, spare, joined, strays, leaves, holder, stale>>

\* DAEMON_TIMEOUT_MS: the request may still run, or only its answer is lost.
JoinTimeout(s) ==
    /\ Lossy
    /\ call[s] \in {"sent", "accepted"}
    /\ strays' = IF call[s] = "sent" THEN strays \cup {s} ELSE strays
    /\ call' = [call EXCEPT ![s] = "none"]
    /\ Fail(s)
    /\ UNCHANGED <<live, spare, joined, leaves, holder, stale>>

\* Mutant: the handler does not record the channel.
JoinUnrecorded(s) ==
    /\ call[s] = "accepted"
    /\ call' = [call EXCEPT ![s] = "setup"]
    /\ UNCHANGED <<live, spare, phase, joined, strays, leaves, holder, stale>>

\* The answer arrives; whether the socket still lives is not looked at.
JoinAccepted(s) ==
    /\ call[s] = "accepted"
    /\ call' = [call EXCEPT ![s] = "setup"]
    /\ joined' = joined \cup {s}
    /\ UNCHANGED <<live, spare, phase, strays, leaves, holder, stale>>

\* The capabilities and transports of the account's participant arrive.
SetupDone(s) ==
    /\ call[s] = "setup"
    /\ Present(User[s])
    /\ call' = [call EXCEPT ![s] = "none"]
    /\ phase' = IF Waiting(s) THEN [phase EXCEPT ![s] = "active"] ELSE phase
    /\ UNCHANGED <<live, spare, joined, strays, leaves, holder, stale>>

\* One of them does not: rollbackJoin.
SetupFails(s) ==
    /\ call[s] = "setup"
    /\ Lossy \/ ~Present(User[s])
    /\ call' = [call EXCEPT ![s] = "none"]
    /\ joined' = joined \ {s}
    /\ leaves' = leaves \cup {s}
    /\ Fail(s)
    /\ UNCHANGED <<live, spare, strays, holder, stale>>

-----------------------------------------------------------------------------
(* A session under way.                                                    *)

\* voice:sfu_leave: the core forgets the channel and relays the leave.
RelayLeave(s) ==
    /\ joined' = joined \ {s}
    /\ leaves' = leaves \cup {s}

Leave(s) ==
    /\ s \in live
    /\ InSession(s) \/ phase[s] = "recovering"
    /\ phase' = [phase EXCEPT ![s] = "idle"]
    /\ RelayLeave(s)
    /\ UNCHANGED <<live, spare, call, strays, holder, stale>>

\* maybeRecover: a transport failed, because the network did or because the
\* daemon closed it; the client leaves and, after a back-off, joins again.
Recover(s) ==
    /\ s \in live
    /\ InSession(s)
    /\ phase' = [phase EXCEPT ![s] = "recovering"]
    /\ RelayLeave(s)
    /\ UNCHANGED <<live, spare, call, strays, holder, stale>>

\* fail(): the session cannot be set up, or was recovered too often.
GiveUp(s) ==
    /\ s \in live
    /\ InSession(s)
    /\ phase' = [phase EXCEPT ![s] = "stopped"]
    /\ RelayLeave(s)
    /\ UNCHANGED <<live, spare, call, strays, holder, stale>>

\* maintainTick: a heartbeat touches the ACCOUNT; the answer "absent" stops
\* the client (supersede), without a leave.
Heartbeat(s) ==
    /\ s \in live
    /\ InSession(s)
    /\ IF Present(User[s])
       THEN stale' = stale \ {User[s]} /\ UNCHANGED phase
       ELSE phase' = [phase EXCEPT ![s] = "stopped"] /\ UNCHANGED stale
    /\ UNCHANGED <<live, spare, call, joined, strays, leaves, holder>>

\* The disconnect listener leaves the channels the socket had joined by then.
Close(s) ==
    /\ s \in live
    /\ joined' = joined \ {s}
    /\ leaves' = IF s \in joined THEN leaves \cup {s} ELSE leaves

\* The page goes away.
Disconnect(s) ==
    /\ Close(s)
    /\ live' = live \ {s}
    /\ phase' = [phase EXCEPT ![s] = "idle"]
    /\ UNCHANGED <<spare, call, strays, holder, stale>>

\* Only the connection goes: the page carries on with a new one, on which it
\* does not join again since it has its session.  An answer it waited for is
\* lost.
Reconnect(s, t) ==
    /\ Close(s)
    /\ t \in spare
    /\ User[t] = User[s]
    /\ live' = (live \ {s}) \cup {t}
    /\ spare' = spare \ {t}
    /\ phase' = [phase EXCEPT ![s] = "idle",
                  ![t] = CASE InSession(s) -> "adopted"
                           [] Waiting(s) -> "stopped"
                           [] OTHER -> phase[s]]
    /\ UNCHANGED <<call, strays, holder, stale>>

-----------------------------------------------------------------------------

Next ==
    \/ \E s \in Sockets :
          \/ DaemonJoin(s) \/ DaemonRefuse(s)
          \/ StrayJoin(s) \/ StrayLost(s)
          \/ DaemonLeave(s) \/ LeaveLost(s)
          \/ Join(s) \/ HangUp(s) \/ AckTimeout(s) \/ JoinRefused(s)
          \/ JoinTimeout(s) \/ JoinAccepted(s) \/ SetupDone(s) \/ SetupFails(s)
          \/ Leave(s) \/ Recover(s) \/ GiveUp(s) \/ Heartbeat(s) \/ Disconnect(s)
    \/ \E s, t \in Sockets : Reconnect(s, t)
    \/ \E u \in Users : Silence(u) \/ Evict(u)

Spec == Init /\ [][Next]_vars

\* No client of the account has a session or is asking for one: nobody will
\* beat for the participant.
Unattended(u) ==
    /\ Present(u)
    /\ \A s \in Sockets : User[s] = u => ~Waiting(s) /\ ~InSession(s)

\* The daemon's clock and its eviction task advance; a call under way ends,
\* by an answer or by a timeout.
Fairness ==
    /\ \A u \in Users :
         /\ WF_vars(Unattended(u) /\ Silence(u))
         /\ WF_vars(Evict(u))
    /\ \A s \in Sockets :
         /\ WF_vars(DaemonJoin(s) \/ DaemonRefuse(s) \/ JoinTimeout(s))
         /\ WF_vars(JoinRefused(s) \/ JoinAccepted(s))
         /\ WF_vars(SetupDone(s) \/ SetupFails(s))
         /\ WF_vars(StrayJoin(s) \/ StrayLost(s))
         /\ WF_vars(DaemonLeave(s) \/ LeaveLost(s))

FairSpec == Spec /\ Fairness

-----------------------------------------------------------------------------

\* A client whose session is up is known to its handler, so that closing its
\* connection tells the daemon.
ActiveIsJoined == \A s \in Sockets : phase[s] = "active" => s \in live \cap joined

\* The types, and every active session is known to its handler.
SessionSound == TypeOK /\ ActiveIsJoined

\* A participant that no client attends to leaves the room in the end, or a
\* client of the account asks for it again: lost leaves, joins that outlive
\* their caller and closed connections leave no ghost for ever.
GhostsAreEvicted ==
    \A u \in Users : Unattended(u) ~> ~Unattended(u)

Calm == strays = {} /\ leaves = {} /\ \A s \in Sockets : call[s] = "none"

\* A connection that closes releases its participant: once no call is under
\* way, a participant held by a closed socket is not left to the TTL.
ClosedSocketReleases ==
    Calm => \A u \in Users : Present(u) => holder[u] \in live

\* One account has one session and the newest wins: a leave relayed for one
\* socket never ends the active session of another.
NewestSessionWins ==
    [][\A s, h \in Sockets :
         (DaemonLeave(s) /\ holder[User[s]] = h /\ phase[h] = "active") => h = s]_vars

\* Hanging up is final: a page that hung up has no session until it asks for
\* one again.
HangUpIsFinal ==
    [][\A s \in Sockets : phase[s] = "left" => phase'[s] # "active"]_vars

\* A page is stopped as superseded only if its account has another page.
OnlyOthersSupersede ==
    [][\A s \in Sockets :
         (Heartbeat(s) /\ phase'[s] = "stopped")
            => \E t \in live \ {s} : User[t] = User[s]]_vars

\* A client whose participant has been taken over stops at its next heartbeat.
SupersededClientStops ==
    [][\A s \in Sockets :
         (Heartbeat(s) /\ holder[User[s]] # s) => phase'[s] = "stopped"]_vars

=============================================================================
