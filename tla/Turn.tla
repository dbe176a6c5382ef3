--------------------------------- MODULE Turn ---------------------------------
(***************************************************************************)
(* Allocations of the TURN server, nexus-turn/src/server.rs and            *)
(* allocation.rs.  Every packet is a task of its own.  A handler that      *)
(* works on an allocation holds its entry of the map and is one step;      *)
(* handle_allocate checks first and inserts later.  Credentials and the    *)
(* encoding of the messages are left out.                                  *)
(***************************************************************************)
EXTENDS Naturals, FiniteSets

CONSTANTS
    Clients,    \* transport addresses of clients
    IpOf,       \* the address of each
    Allocs,     \* allocations that hold a port at a time
    Tasks,      \* Allocate requests being handled at a time
    Peers, Channels,
    MaxTotal, MaxPerIp,
    Ports       \* size of the relay range

NoAlloc == "no allocation"
NoClient == "no client"
Unbound == "unbound"

ASSUME TurnAssumption ==
    /\ IsFiniteSet(Clients) /\ IsFiniteSet(Tasks) /\ Tasks # {}
    /\ {MaxTotal, MaxPerIp} \subseteq Nat \ {0}
    /\ Ports \in Nat
    /\ NoAlloc \notin Allocs /\ NoClient \notin Clients /\ Unbound \notin Peers \cup Channels

VARIABLES
    holds,      \* the map: client -> allocation
    expired,    \* allocations whose lifetime has passed
    relaying,   \* allocations whose relay task is running
    perms,      \* unexpired permissions
    channels,   \* channel -> peer
    channelsRev, \* peer -> channel
    checking,   \* for each task, the client whose request has passed the checks
    waiting,    \* clients whose Allocate is not answered yet
    served,     \* clients that go by the address of the allocation they hold
    lost,       \* history: clients whose allocation failed on its socket, or was
                \* refreshed when its relay task had ended
    doubled     \* history: clients of whom two Allocates overlapped, up to
                \* the next one that is handled alone

turnVars == <<holds, expired, relaying, perms, channels, channelsRev, checking, waiting, served,
              lost, doubled>>

TurnTypeOK ==
    /\ holds \in [Clients -> Allocs \cup {NoAlloc}]
    /\ expired \subseteq Allocs
    /\ relaying \subseteq Allocs
    /\ perms \in [Allocs -> SUBSET Peers]
    /\ channels \in [Allocs -> [Channels -> Peers \cup {Unbound}]]
    /\ channelsRev \in [Allocs -> [Peers -> Channels \cup {Unbound}]]
    /\ checking \in [Tasks -> Clients \cup {NoClient}]
    /\ waiting \subseteq Clients
    /\ served \subseteq Clients
    /\ lost \subseteq Clients
    /\ doubled \subseteq Clients

TurnInit ==
    /\ holds = [c \in Clients |-> NoAlloc]
    /\ expired = {}
    /\ relaying = {}
    /\ perms = [a \in Allocs |-> {}]
    /\ channels = [a \in Allocs |-> [n \in Channels |-> Unbound]]
    /\ channelsRev = [a \in Allocs |-> [p \in Peers |-> Unbound]]
    /\ checking = [k \in Tasks |-> NoClient]
    /\ waiting = {}
    /\ served = {}
    /\ lost = {}
    /\ doubled = {}

-----------------------------------------------------------------------------

Holders == {c \in Clients : holds[c] # NoAlloc}
HoldersOf(a) == {c \in Clients : holds[c] = a}
OfIp(c) == {d \in Holders : IpOf[d] = IpOf[c]}
Live(c) == holds[c] # NoAlloc /\ holds[c] \notin expired
InFlight == {k \in Tasks : checking[k] # NoClient}
Checked == {checking[k] : k \in InFlight}

\* The socket belongs to the allocation and to its relay task.
Bound == relaying \cup {holds[c] : c \in Holders}

Lookups == <<perms, channels, channelsRev>>
Histories == <<lost, doubled>>

-----------------------------------------------------------------------------
(* Allocate.                                                               *)

\* A second answer to one request tells the client nothing.
Answered(c) ==
    /\ waiting' = waiting \ {c}
    /\ served' = IF c \in waiting THEN served \cup {c} ELSE served \ {c}

\* The first answer was lost, or is discarded as a duplicate.
AllocateAgain(c) ==
    /\ Live(c)
    /\ served' \in {served, served \cup {c}}
    /\ waiting' = waiting \ {c}
    /\ doubled' = doubled \cup ({c} \cap Checked)
    /\ UNCHANGED <<holds, expired, relaying, Lookups, checking, lost>>

\* Over a quota the answer is 486.
WithinQuota(c) == Cardinality(Holders) < MaxTotal /\ Cardinality(OfIp(c)) < MaxPerIp

CheckAllocate(k, c) ==
    /\ checking[k] = NoClient
    /\ ~Live(c)
    /\ WithinQuota(c)
    /\ checking' = [checking EXCEPT ![k] = c]
    /\ waiting' = waiting \cup ({c} \ Checked)
    /\ doubled' = doubled \cup ({c} \cap Checked)
    /\ UNCHANGED <<holds, expired, relaying, Lookups, served, lost>>

\* bind_relay_socket, spawn_relay_task, insert.
Allocate(k, a) ==
    LET c == checking[k] IN
    /\ c # NoClient
    /\ Cardinality(Bound) < Ports
    /\ a \notin Bound
    /\ holds' = [holds EXCEPT ![c] = a]
    /\ expired' = expired \ {a}
    /\ relaying' = relaying \cup {a}
    /\ perms' = [perms EXCEPT ![a] = {}]
    /\ channels' = [channels EXCEPT ![a] = [n \in Channels |-> Unbound]]
    /\ channelsRev' = [channelsRev EXCEPT ![a] = [p \in Peers |-> Unbound]]
    /\ checking' = [checking EXCEPT ![k] = NoClient]
    /\ Answered(c)
    /\ lost' = lost \ {c}
    /\ doubled' = IF c \in waiting /\ \A j \in Tasks \ {k} : checking[j] # c
                  THEN doubled \ {c} ELSE doubled

\* 508, no port can be bound, or 500, the socket has no address.
NoPort(k) ==
    /\ checking[k] # NoClient
    /\ checking' = [checking EXCEPT ![k] = NoClient]
    /\ waiting' = waiting \ {checking[k]}
    /\ UNCHANGED <<holds, expired, relaying, Lookups, served, Histories>>

-----------------------------------------------------------------------------
(* The other requests.                                                     *)

Forget(c) ==
    /\ holds' = [holds EXCEPT ![c] = NoAlloc]
    /\ served' = served \ {c}
    /\ lost' = lost \ {c}
    /\ UNCHANGED <<expired, relaying, Lookups, checking, waiting, doubled>>

\* Lifetime 0, and the end of a TCP connection.
Delete(c) == holds[c] # NoAlloc /\ Forget(c)

\* Does not ask whether the lifetime has passed, nor whether the task runs.
Refresh(c) ==
    /\ holds[c] # NoAlloc
    /\ expired' = expired \ {holds[c]}
    /\ lost' = IF holds[c] \in relaying THEN lost ELSE lost \cup HoldersOf(holds[c])
    /\ UNCHANGED <<holds, relaying, Lookups, checking, waiting, served, doubled>>

CreatePermission(c, p) ==
    /\ Live(c)
    /\ perms' = [perms EXCEPT ![holds[c]] = @ \cup {p}]
    /\ UNCHANGED <<holds, expired, relaying, channels, channelsRev, checking, waiting, served,
                   Histories>>

ChannelBind(c, n, p) ==
    LET a == holds[c] IN
    /\ Live(c)
    /\ perms' = [perms EXCEPT ![a] = @ \cup {p}]
    /\ channels' = [channels EXCEPT ![a][n] = p]
    /\ channelsRev' = [channelsRev EXCEPT ![a][p] = n]
    /\ UNCHANGED <<holds, expired, relaying, checking, waiting, served, Histories>>

-----------------------------------------------------------------------------
(* Clocks and the relay tasks.                                             *)

Lapse(a) ==
    /\ a \in Bound \ expired
    /\ expired' = expired \cup {a}
    /\ UNCHANGED <<holds, relaying, Lookups, checking, waiting, served, Histories>>

PermissionLapses(a, p) ==
    /\ p \in perms[a]
    /\ perms' = [perms EXCEPT ![a] = @ \ {p}]
    /\ UNCHANGED <<holds, expired, relaying, channels, channelsRev, checking, waiting, served,
                   Histories>>

\* spawn_eviction_task, every 30 s.
Evict ==
    /\ \E c \in Holders : ~Live(c)
    /\ holds' = [c \in Clients |-> IF Live(c) THEN holds[c] ELSE NoAlloc]
    /\ served' = {c \in served : Live(c)}
    /\ lost' = {c \in lost : Live(c)}
    /\ UNCHANGED <<expired, relaying, Lookups, checking, waiting, doubled>>

\* Mutant: the task ends with any packet.
PeerPacketEnds(a) ==
    /\ a \in relaying
    /\ relaying' = relaying \ {a}
    /\ UNCHANGED <<holds, expired, Lookups, checking, waiting, served, Histories>>

\* The task looks at the clock only when a packet has come.
PeerPacket(a) ==
    /\ a \in relaying \cap expired
    /\ relaying' = relaying \ {a}
    /\ UNCHANGED <<holds, expired, Lookups, checking, waiting, served, Histories>>

\* "relay recv": any error of the socket ends the task, registered or not.
RelayFails(a) ==
    /\ a \in relaying
    /\ relaying' = relaying \ {a}
    /\ lost' = lost \cup HoldersOf(a)
    /\ UNCHANGED <<holds, expired, Lookups, checking, waiting, served, doubled>>

-----------------------------------------------------------------------------

TurnNext ==
    \/ \E c \in Clients :
         \/ AllocateAgain(c) \/ Delete(c) \/ Refresh(c)
         \/ \E k \in Tasks : CheckAllocate(k, c)
         \/ \E p \in Peers : CreatePermission(c, p) \/ \E n \in Channels : ChannelBind(c, n, p)
    \/ \E k \in Tasks : NoPort(k) \/ \E a \in Allocs : Allocate(k, a)
    \/ \E a \in Allocs : \/ Lapse(a) \/ PeerPacket(a) \/ RelayFails(a)
                         \/ \E p \in Peers : PermissionLapses(a, p)
    \/ Evict

TurnSpec == TurnInit /\ [][TurnNext]_turnVars

-----------------------------------------------------------------------------

\* The quota is counted before the insertion, by every task for itself: it is
\* exceeded by less than the number of requests handled at a time.
AllocationsBounded ==
    Cardinality(Holders) + Cardinality(InFlight) < MaxTotal + Cardinality(Tasks)

\* A client that has an allocation is sent what its peers send: the relay
\* task of a registered allocation ends no sooner than its lifetime, unless its
\* socket failed or the Refresh that revived it came when the task was gone.
RegisteredRelays == \A c \in Clients : Live(c) /\ c \notin lost => holds[c] \in relaying

\* The address a client announces to its peers is the one its permissions and
\* channels apply to, unless two of its Allocates were handled at once.
AddressIsServed == \A c \in Clients : Live(c) /\ c \notin doubled => c \in served

\* What a client with an allocation counts on, within what the server spends.
AllocationsServed == AllocationsBounded /\ RegisteredRelays /\ AddressIsServed

\* Without the excuses, nothing of it holds.  A live allocation has a task ...
LiveRelays == \A c \in Clients : Live(c) => holds[c] \in relaying

\* ... at least when a Refresh has just revived one whose socket is sound ...
RefreshRevives ==
    [][\A c \in Clients :
          ~Live(c) /\ Live(c)' /\ holds'[c] = holds[c] /\ c \notin lost
            => holds[c] \in relaying]_turnVars

\* ... and the client goes by the address of its allocation.
AddressAlwaysServed == \A c \in Clients : Live(c) => c \in served

\* channels_rev is the "reverse map" of channels (allocation.rs): what comes
\* from a peer is labelled with a channel that leads to this peer.
ChannelsAgree ==
    \A a \in Allocs, p \in Peers :
        channelsRev[a][p] # Unbound => channels[a][channelsRev[a][p]] = p

=============================================================================
