----------------------------- MODULE VoiceRoom ------------------------------
(***************************************************************************)
(* One voice channel as nodyx-core/src/socket/voice.ts runs it: seats, the *)
(* Socket.IO room, and the handlers voice:join, voice:leave, voice:kick,   *)
(* voice:sfu_ready, voice:screenshare_intent and disconnecting, composed   *)
(* with the switch orchestrator of VoiceBascule.                           *)
(*                                                                         *)
(* The process is single-threaded: what interleaves is handlers suspended  *)
(* on the DATABASE.  voice:join waits once (the role), voice:kick twice    *)
(* (the permission, then the target's role); each wait splits the handler  *)
(* into actions.  The state they resume in may have lost the socket that   *)
(* called them.                                                            *)
(***************************************************************************)
EXTENDS VoiceBascule

CONSTANTS
    Users,          \* accounts
    User,           \* the account each socket is authenticated as
    Moderators,     \* sockets whose account holds moderate_members
    MaxSeats,       \* VOICE_MAX_SEATS
    DropWhileJoining, \* a connection may close while its voice:join waits
    LateReady       \* a confirmation may be stale: from an earlier switch,
                    \* or from a client that has left the channel since

ASSUME VoiceAssumption ==
    /\ User \in [Sockets -> Users]
    /\ Moderators \subseteq Sockets
    /\ MaxSeats \in Nat \ {0}
    /\ DropWhileJoining \in BOOLEAN
    /\ LateReady \in BOOLEAN

VARIABLES
    live,       \* sockets in the namespace (a reconnection is a new socket)
    room,       \* the members of the Socket.IO room voice:<channel>
    seat,       \* _voiceSeats of the channel; NoSeat when the map has no entry
    joining,    \* sockets whose voice:join waits for the role
    asking,     \* moderators whose voice:kick waits for their permissions
    kicks,      \* <<caller, target>> of the kicks that wait for the target's role
    confirmed   \* history: members that confirmed their SFU in this switch
                \* and have not left the room since (kept across the commit)

vars == <<live, room, seat, joining, asking, kicks, confirmed, mode, ready, timer, cooldown>>

NoSeat == -1
SeatNumbers == 0 .. MaxSeats - 1

\* The history variable after a handler that leaves S confirmed.
Confirming(S) == confirmed' = IF mode' \in {mode, "sfu"} THEN S ELSE {}

TypeOK ==
    /\ BasculeTypeOK
    /\ live \subseteq Sockets
    /\ room \subseteq Sockets
    /\ seat \in [Sockets -> SeatNumbers \cup {NoSeat}]
    /\ joining \subseteq Sockets
    /\ asking \subseteq Moderators
    /\ kicks \subseteq Moderators \X Sockets
    /\ confirmed \subseteq Sockets

Init ==
    /\ BasculeInit
    /\ live = Sockets
    /\ room = {}
    /\ seat = [s \in Sockets |-> NoSeat]
    /\ joining = {}
    /\ asking = {}
    /\ kicks = {}
    /\ confirmed = {}

-----------------------------------------------------------------------------
(* Seats.                                                                  *)

Seated(st) == {s \in Sockets : st[s] # NoSeat}

\* getChannelSeats(channelId).size
SeatCount(st) == Cardinality(Seated(st))

FreeSeats(st) == SeatNumbers \ {st[s] : s \in Sockets}

LowestFree(st, n) ==
    /\ n \in FreeSeats(st)
    /\ \A m \in FreeSeats(st) : n <= m

Unseat(st, S) == [s \in Sockets |-> IF s \in S THEN NoSeat ELSE st[s]]

\* Mutant: no other tab is evicted.
StaleNone(s) == {}

\* The sockets voice:join evicts: the other members of the same account.
Stale(s) == {t \in room : User[t] = User[s] /\ t # s}

-----------------------------------------------------------------------------
(* Handlers.                                                               *)

\* voice:join up to the role query.  Bound: one pending join per socket.
JoinRequest(s) ==
    /\ s \in live \ joining
    /\ joining' = joining \cup {s}
    /\ UNCHANGED <<live, room, seat, asking, kicks, confirmed, basculeVars>>

\* The role query found no membership.
JoinRefused(s) ==
    /\ s \in joining
    /\ joining' = joining \ {s}
    /\ UNCHANGED <<live, room, seat, asking, kicks, confirmed, basculeVars>>

\* The role arrived and no seat is left once the stale tabs are evicted.  A
\* seated socket that asks again has no reserved place: its own seat counts.
JoinFull(s) ==
    /\ s \in joining
    /\ FreeSeats(Unseat(seat, Stale(s))) = {}
    /\ joining' = joining \ {s}
    /\ room' = room \ Stale(s)
    /\ seat' = Unseat(seat, Stale(s))
    /\ confirmed' = confirmed \ Stale(s)
    /\ UNCHANGED <<live, asking, kicks, basculeVars>>

\* The role arrived: evict, take the lowest free seat, enter the room, count.
\* Socket.IO replaces join() by a no-op on a closed socket, so a socket that
\* closed meanwhile gets the seat and not the room.
JoinSeated(s) ==
    /\ s \in joining
    /\ joining' = joining \ {s}
    /\ \E n \in FreeSeats(Unseat(seat, Stale(s))) :
         /\ LowestFree(Unseat(seat, Stale(s)), n)
         /\ seat' = [Unseat(seat, Stale(s)) EXCEPT ![s] = n]
    /\ room' = (room \ Stale(s)) \cup ({s} \cap live)
    /\ OnSeatCount(SeatCount(seat'))
    /\ Confirming(confirmed \ Stale(s))
    /\ UNCHANGED <<live, asking, kicks>>

\* Mutant: the seat is not freed.
DepartSeated(t) ==
    /\ room' = room \ {t}
    /\ OnLeave(t, SeatCount(seat), room')
    /\ Confirming(confirmed \ {t})
    /\ UNCHANGED seat

\* What leave, kick and disconnect do once the socket t is out of the room.
Depart(t) ==
    /\ room' = room \ {t}
    /\ seat' = Unseat(seat, {t})
    /\ OnLeave(t, SeatCount(seat'), room')
    /\ Confirming(confirmed \ {t})

Leave(s) ==
    /\ s \in live
    /\ s \in room
    /\ Depart(s)
    /\ UNCHANGED <<live, joining, asking, kicks>>

\* The disconnecting handler followed by Socket.IO's own clean-up.  A socket
\* outside the room has nothing to free: the handler walks socket.rooms.
Disconnect(s) ==
    /\ s \in live
    /\ DropWhileJoining \/ s \notin joining
    /\ live' = live \ {s}
    /\ IF s \in room
       THEN Depart(s)
       ELSE UNCHANGED <<room, seat, confirmed, basculeVars>>
    /\ UNCHANGED <<joining, asking, kicks>>

\* voice:kick up to the permission query.  A caller without the permission
\* is refused there and changes nothing, so only moderators are callers.
\* Bound: one pending kick per caller.
KickRequest(a) ==
    /\ a \in live \cap Moderators
    /\ a \in room
    /\ a \notin asking
    /\ \A k \in kicks : k[1] # a
    /\ asking' = asking \cup {a}
    /\ UNCHANGED <<live, room, seat, joining, kicks, confirmed, basculeVars>>

\* The permissions arrived: go on only for another account's socket that is
\* in the room now.  The target is first used here.
KickFind(a, t) ==
    /\ a \in asking
    /\ asking' = asking \ {a}
    /\ IF t \in room /\ User[a] # User[t]
       THEN kicks' = kicks \cup {<<a, t>>}
       ELSE UNCHANGED kicks
    /\ UNCHANGED <<live, room, seat, joining, confirmed, basculeVars>>

\* The target's role arrived and may be kicked; the target may have left,
\* closed or been evicted in between, and the caller too.
KickExecute(a, t) ==
    /\ <<a, t>> \in kicks
    /\ kicks' = kicks \ {<<a, t>>}
    /\ Depart(t)
    /\ UNCHANGED <<live, joining, asking>>

\* The target's role outranks the caller.
KickRefused(a, t) ==
    /\ <<a, t>> \in kicks
    /\ kicks' = kicks \ {<<a, t>>}
    /\ UNCHANGED <<live, room, seat, joining, asking, confirmed, basculeVars>>

\* voice:sfu_ready from a client in the channel, for the switch under way.
SfuReady(s) ==
    /\ s \in live
    /\ s \in room
    /\ OnSfuReady(s, room)
    /\ Confirming(confirmed \cup {s})
    /\ UNCHANGED <<live, room, seat, joining, asking, kicks>>

\* voice:sfu_ready sent for an earlier switch or an earlier stay: the handler
\* checks neither, so it counts all the same.
StaleReady(s) ==
    /\ LateReady
    /\ s \in live
    /\ OnSfuReady(s, room)
    /\ Confirming(confirmed)
    /\ UNCHANGED <<live, room, seat, joining, asking, kicks>>

ScreenShareIntent(s) ==
    /\ s \in live
    /\ s \in room
    /\ OnScreenShare
    /\ confirmed' = {}
    /\ UNCHANGED <<live, room, seat, joining, asking, kicks>>

SwitchTimeout ==
    /\ Abort
    /\ confirmed' = {}
    /\ UNCHANGED <<live, room, seat, joining, asking, kicks>>

Next ==
    \/ \E s \in Sockets :
          \/ JoinRequest(s)
          \/ JoinRefused(s)
          \/ JoinFull(s)
          \/ JoinSeated(s)
          \/ Leave(s)
          \/ Disconnect(s)
          \/ SfuReady(s)
          \/ StaleReady(s)
          \/ ScreenShareIntent(s)
          \/ KickRequest(s)
    \/ \E a, t \in Sockets :
          \/ KickFind(a, t)
          \/ KickExecute(a, t)
          \/ KickRefused(a, t)
    \/ SwitchTimeout

Spec == Init /\ [][Next]_vars

\* setTimeout fires: the event loop runs an armed timer.
FairSpec == Spec /\ WF_vars(SwitchTimeout)

-----------------------------------------------------------------------------
(* Properties that hold whatever the clients and the network do.           *)

\* No seat is given twice, whatever joins, evictions, kicks and closed
\* connections overlap.
SeatsDistinct ==
    \A s, t \in Seated(seat) : seat[s] = seat[t] => s = t

\* A member of the room is connected and has a seat: every way out of the
\* room frees the seat and every way in takes one.
MembersSeated == room \subseteq live \cap Seated(seat)

\* Two tabs of one account are never members together, even when their
\* joins overlap on the database.
OneTabPerAccount == \A s, t \in room : User[s] = User[t] => s = t

\* The abort timer is armed exactly while the channel is switching, so no
\* switch waits for ever and no old timer aborts a later switch.
SwitchIsTimed == timer <=> mode = "switching"

\* What no overlap of joins, evictions, kicks, closed connections and late
\* confirmations takes from a channel.
RoomSound == TypeOK /\ SeatsDistinct /\ MembersSeated /\ OneTabPerAccount /\ SwitchIsTimed

\* Every switch ends, in a commit, an abort or an empty channel.
SwitchResolves == mode = "switching" ~> mode # "switching"

-----------------------------------------------------------------------------
(* Properties of a channel whose accounts have one tab each, whose clients *)
(* confirm in time, and whose connections do not close during a join.  The *)
(* runs named "violation" show what each of those three hazards breaks.    *)

\* Seats and membership agree.
SeatsMatchRoom == Seated(seat) = room

\* A seat belongs to a connected socket.
NoGhostSeat == Seated(seat) \subseteq live

\* The mesh is closed only when everybody in the channel has confirmed an SFU
\* session in this switch and in this stay.
CommitNeedsEveryone ==
    [][mode = "switching" /\ mode' = "sfu" => room' \subseteq confirmed']_vars

\* While the channel switches somebody has still to confirm: the commit is
\* not missed when the last unready member leaves, is kicked or closes.
NoMissedCommit == mode = "switching" => ~ room \subseteq ready

\* The mode does not outlive the call: an empty channel is back to mesh.
ModeNeedsMembers == mode # "mesh" => room # {}

\* A channel at the threshold is not left in mesh, unless a switch was
\* abandoned and the count has not dipped since.
CrossingNotMissed ==
    mode = "mesh" /\ SeatCount(seat) >= Threshold => cooldown

\* The mode follows the call in both directions.
ModeFitsRoom == ModeNeedsMembers /\ CrossingNotMissed /\ NoMissedCommit

=============================================================================
