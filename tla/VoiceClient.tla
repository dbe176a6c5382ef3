---------------------------- MODULE VoiceClient -----------------------------
(***************************************************************************)
(* The pages of a voice channel, nodyx-frontend/src/lib/voice.ts with      *)
(* voiceBascule.ts and the part of voiceSfu.ts they call, composed with    *)
(* the handlers and the orchestrator of VoiceRoom.  A page and the server  *)
(* talk over one socket, in order, each way at its own pace.               *)
(*                                                                         *)
(* A connection of the mesh carries sound as soon as both ends have it:    *)
(* offers, answers and candidates are left out.  An SFU session publishes  *)
(* once it is open, and plays the flows of the others one by one.          *)
(***************************************************************************)
EXTENDS VoiceRoom, Sequences, Functions

CONSTANTS
    Pages,      \* sockets with a page of this program behind them
    MaxMoves,   \* bound: what the people at the pages do, all together
    Aborts,     \* a switch may be abandoned
    SfuFails,   \* sessions of the SFU may fail
    Hasty       \* people hang up while they are being connected, or come back
                \* before the server and their page are done with the last call

ASSUME ClientAssumption ==
    /\ Pages \subseteq Sockets
    /\ \A p, q \in Pages : User[p] = User[q] => p = q
    /\ MaxMoves \in Nat
    /\ {Aborts, SfuFails, Hasty} \subseteq BOOLEAN

VARIABLES
    toServer,   \* events a page has emitted
    toPage,     \* events the server has emitted to a page
    page,       \* the state of voice.ts and voiceBascule.ts in each page
    sfu,        \* the state of voiceSfu.ts in each page
    moves

clientVars == <<toServer, toPage, page, sfu, moves>>
callVars == <<vars, clientVars>>

\* on: the store is active; mode: _channelMode; roster: the peers of the store;
\* conns: the keys of _peerConns; muted: the keys of _peerAudio whose element
\* is muted; cross: the callback of the crossfade is set.
AwayPage == [on |-> FALSE, mode |-> "mesh", roster |-> {}, conns |-> {},
             muted |-> {}, cross |-> FALSE]

\* opening: what sfuJoin waits for; confirm: basculeBeginSwitch called it;
\* session: _session is set; due: publications listed and not consumed yet;
\* heard: whose flow plays.
NoSfu == [opening |-> "no", confirm |-> FALSE, session |-> FALSE, due |-> {}, heard |-> {}]

Events == {"join", "leave", "ready", "share"}
News ==
    [is : {"init"}, peers : SUBSET Pages, mode : Modes]
        \cup [is : {"joined", "left"}, who : Pages]
        \cup [is : {"mode"}, mode : {"sfu", "mesh"}]
        \cup [is : {"commit", "full"}]

ClientTypeOK ==
    /\ toServer \in [Pages -> Seq(Events)]
    /\ toPage \in [Pages -> Seq(News)]
    /\ page \in [Pages -> [on : BOOLEAN, mode : Modes, roster : SUBSET Pages,
         conns : SUBSET Pages, muted : SUBSET Pages, cross : BOOLEAN]]
    /\ sfu \in [Pages -> [opening : {"no", "asked", "setup"}, confirm : BOOLEAN,
         session : BOOLEAN, due : SUBSET Pages, heard : SUBSET Pages]]
    /\ moves \in 0 .. MaxMoves

CallInit ==
    /\ Init
    /\ toServer = [p \in Pages |-> <<>>]
    /\ toPage = [p \in Pages |-> <<>>]
    /\ page = [p \in Pages |-> AwayPage]
    /\ sfu = [p \in Pages |-> NoSfu]
    /\ moves = 0

-----------------------------------------------------------------------------
(* Messages.                                                               *)

Emit(p, events) == toServer' = [toServer EXCEPT ![p] = @ \o events]

\* The server has taken the first event of p.
Arrives(p, event) ==
    /\ toServer[p] # <<>> /\ Head(toServer[p]) = event
    /\ toServer' = [toServer EXCEPT ![p] = Tail(@)]

\* To the people of S, after what they were sent before.
Sent(queues, S, news) ==
    [p \in Pages |-> IF p \in S THEN Append(queues[p], news) ELSE queues[p]]

\* What startSwitch, commit and abort announce to the room.
SwitchSent(queues) ==
    IF mode' = mode \/ room' = {} THEN queues
    ELSE Sent(queues, room',
           CASE mode' = "switching" -> [is |-> "mode", mode |-> "sfu"]
             [] mode' = "sfu" -> [is |-> "commit"]
             [] mode' = "mesh" -> [is |-> "mode", mode |-> "mesh"])

-----------------------------------------------------------------------------
(* The server.                                                             *)

JoinArrives(p) ==
    /\ Arrives(p, "join")
    /\ JoinRequest(p)
    /\ UNCHANGED <<toPage, page, sfu, moves>>

\* voice:init tells the mode before the count is looked at.
SeatTaken(p) ==
    /\ JoinSeated(p)
    /\ LET init == Sent(toPage, {p}, [is |-> "init", peers |-> room \ {p}, mode |-> mode])
           told == Sent(init, room' \ {p}, [is |-> "joined", who |-> p])
       IN  toPage' = SwitchSent(told)
    /\ UNCHANGED <<toServer, page, sfu, moves>>

SeatRefused(p) ==
    /\ JoinFull(p)
    /\ toPage' = Sent(toPage, {p}, [is |-> "full"])
    /\ UNCHANGED <<toServer, page, sfu, moves>>

DepartureSent(p) == SwitchSent(Sent(toPage, room', [is |-> "left", who |-> p]))

LeaveArrives(p) ==
    /\ Arrives(p, "leave")
    /\ IF p \in room
       THEN Leave(p) /\ toPage' = DepartureSent(p)
       ELSE UNCHANGED <<vars, toPage>>
    /\ UNCHANGED <<page, sfu, moves>>

\* Nobody asks whether the socket is in the channel, nor of which switch it
\* speaks.  A page that rejoins may confirm while its voice:join waits.
ReadyArrives(p) ==
    /\ Arrives(p, "ready")
    /\ CASE mode # "switching" -> UNCHANGED vars
         [] mode = "switching" /\ p \in room -> SfuReady(p)
         [] OTHER -> /\ OnSfuReady(p, room)
                     /\ Confirming(confirmed \cup ({p} \cap joining))
                     /\ UNCHANGED <<live, room, seat, joining, asking, kicks>>
    /\ toPage' = SwitchSent(toPage)
    /\ UNCHANGED <<page, sfu, moves>>

ShareArrives(p) ==
    /\ Arrives(p, "share")
    /\ IF p \in room /\ mode = "mesh" THEN ScreenShareIntent(p) ELSE UNCHANGED vars
    /\ toPage' = SwitchSent(toPage)
    /\ UNCHANGED <<page, sfu, moves>>

Abandon ==
    /\ Aborts
    /\ SwitchTimeout
    /\ toPage' = SwitchSent(toPage)
    /\ UNCHANGED <<toServer, page, sfu, moves>>

-----------------------------------------------------------------------------
(* The SFU session of a page.                                              *)

\* Without its session p hears nobody there, and nobody hears p.
SessionEnds(p, was) ==
    [q \in Pages |-> IF q = p THEN [was EXCEPT !.session = FALSE, !.due = {}, !.heard = {}]
                     ELSE [sfu[q] EXCEPT !.due = @ \ {p}, !.heard = @ \ {p}]]

\* sfuLeave: a sfuJoin under way is not told.
SfuLeave(p) == sfu' = SessionEnds(p, sfu[p])

\* sfuJoin answered, transports and microphone in place, the publications
\* of the channel listed.
SessionOpens(p) ==
    /\ sfu[p].opening = "asked"
    /\ sfu' = [sfu EXCEPT ![p].opening = "setup", ![p].session = TRUE, ![p].heard = {},
                          ![p].due = {q \in Pages \ {p} : sfu[q].session}]
    /\ UNCHANGED <<vars, toServer, toPage, page, moves>>

\* q publishes, and p has not consumed it.
CanPlay(p, q) == sfu[p].session /\ sfu[q].session /\ q \notin sfu[p].heard

\* A connection between them, at both ends.
MeshLink(p, q) == q \in page[p].conns /\ p \in page[q].conns

\* The callback of the crossfade: what the mesh plays of S is muted.
Crossfade(p, S) ==
    page' = IF page[p].cross
            THEN [page EXCEPT ![p].muted = @ \cup {q \in S \cap page[p].roster : MeshLink(p, q)}]
            ELSE page

\* consumeOne for a flow that was announced.
FlowPlays(p, q) ==
    /\ CanPlay(p, q) /\ q \notin sfu[p].due
    /\ sfu' = [sfu EXCEPT ![p].heard = @ \cup {q}]
    /\ Crossfade(p, {q})
    /\ UNCHANGED <<vars, toServer, toPage, moves>>

\* The flows that were listed play, taken together; the end of sfuJoin, and of
\* basculeBeginSwitch after it.
SessionReady(p) ==
    /\ sfu[p].opening = "setup" /\ sfu[p].session
    /\ sfu' = [sfu EXCEPT ![p].opening = "no", ![p].due = {}, ![p].heard = @ \cup sfu[p].due]
    /\ Crossfade(p, sfu[p].due)
    /\ Emit(p, IF sfu[p].confirm THEN <<"ready">> ELSE <<>>)
    /\ UNCHANGED <<vars, toPage, moves>>

\* sfuJoin refused, timed out or failed; or the session it sets up was left.
SessionFails(p) ==
    /\ \/ SfuFails /\ sfu[p].opening # "no"
       \/ sfu[p].opening = "setup" /\ ~sfu[p].session
    /\ sfu' = SessionEnds(p, [sfu[p] EXCEPT !.opening = "no"])
    /\ UNCHANGED <<vars, toServer, toPage, page, moves>>

\* Mutant: basculeBeginSwitch does not wait for sfuJoin.
SfuJoinUnawaited(p, confirm) ==
    /\ Emit(p, IF confirm THEN <<"ready">> ELSE <<>>)
    /\ IF sfu[p].session THEN UNCHANGED sfu
       ELSE sfu' = [sfu EXCEPT ![p].opening = "asked", ![p].confirm = FALSE]

\* sfuJoin returns at once when there is a session.
SfuJoin(p, confirm) ==
    IF sfu[p].session
    THEN UNCHANGED sfu /\ Emit(p, IF confirm THEN <<"ready">> ELSE <<>>)
    ELSE /\ sfu' = [sfu EXCEPT ![p].opening = "asked", ![p].confirm = confirm]
         /\ UNCHANGED toServer

-----------------------------------------------------------------------------
(* What a page does with the news.                                         *)

Forget(s) == [s EXCEPT !.conns = {}, !.muted = {}]

\* Bound: what makes a page open a session waits for the opening under way.
Delivered(p, kind) ==
    /\ page[p].on
    /\ toPage[p] # <<>> /\ Head(toPage[p]).is = kind
    /\ toPage' = [toPage EXCEPT ![p] = Tail(@)]
    /\ kind \in {"init", "mode"} => sfu[p].opening = "no"
    /\ UNCHANGED <<vars, moves>>

\* The listeners are off.
Ignored(p) ==
    /\ ~page[p].on /\ toPage[p] # <<>>
    /\ toPage' = [toPage EXCEPT ![p] = Tail(@)]
    /\ UNCHANGED <<vars, toServer, page, sfu, moves>>

\* Mutant: the mode that voice:init tells is not used.
OnVoiceInitMesh(p) ==
    /\ Delivered(p, "init")
    /\ page' = [page EXCEPT ![p] = [Forget(@) EXCEPT !.roster = Head(toPage[p]).peers,
                                      !.conns = Head(toPage[p]).peers, !.mode = "mesh"]]
    /\ UNCHANGED <<sfu, toServer>>

OnVoiceInit(p) ==
    LET news == Head(toPage[p]) IN
    /\ Delivered(p, "init")
    /\ page' = [page EXCEPT ![p] = [Forget(@) EXCEPT
         !.roster = news.peers, !.mode = news.mode,
         !.conns = IF news.mode = "sfu" THEN {} ELSE news.peers,
         !.cross = (page[p].cross \/ news.mode = "switching")]]
    /\ IF news.mode = "mesh" THEN UNCHANGED <<sfu, toServer>>
       ELSE SfuJoin(p, news.mode = "switching")

OnPeerJoined(p) ==
    LET q == Head(toPage[p]).who IN
    /\ Delivered(p, "joined")
    /\ page' = [page EXCEPT ![p].roster = @ \cup {q},
                            ![p].conns = IF page[p].mode = "sfu" THEN @ ELSE @ \cup {q}]
    /\ UNCHANGED <<toServer, sfu>>

OnPeerLeft(p) ==
    LET q == Head(toPage[p]).who IN
    /\ Delivered(p, "left")
    /\ page' = [page EXCEPT ![p].roster = @ \ {q}, ![p].conns = @ \ {q},
                            ![p].muted = @ \ {q}]
    /\ UNCHANGED <<toServer, sfu>>

OnModeSfu(p) ==
    /\ Delivered(p, "mode") /\ Head(toPage[p]).mode = "sfu"
    /\ IF page[p].mode = "mesh"
       THEN /\ page' = [page EXCEPT ![p].mode = "switching", ![p].cross = TRUE]
            /\ SfuJoin(p, TRUE)
       ELSE UNCHANGED <<page, sfu, toServer>>

\* The switch was abandoned: the session is left, the mesh is still there.
OnModeMesh(p) ==
    /\ Delivered(p, "mode") /\ Head(toPage[p]).mode = "mesh"
    /\ IF page[p].mode = "switching"
       THEN /\ page' = [page EXCEPT ![p].mode = "mesh", ![p].cross = FALSE]
            /\ SfuLeave(p)
       ELSE UNCHANGED <<page, sfu>>
    /\ UNCHANGED toServer

OnSfuCommit(p) ==
    /\ Delivered(p, "commit")
    /\ page' = [page EXCEPT ![p] = [Forget(@) EXCEPT !.mode = "sfu", !.cross = FALSE]]
    /\ UNCHANGED <<toServer, sfu>>

\* leaveVoice.
HangsUp(p) ==
    /\ page' = [page EXCEPT ![p] = AwayPage]
    /\ SfuLeave(p)
    /\ Emit(p, <<"leave">>)

OnVoiceFull(p) ==
    /\ Delivered(p, "full")
    /\ HangsUp(p)

-----------------------------------------------------------------------------
(* What people do.                                                         *)

Move == moves < MaxMoves /\ moves' = moves + 1

\* The last voice:join of p is not answered yet, or p has not seen the answer.
Awaited(p) ==
    \/ p \in joining
    \/ "join" \in Range(toServer[p])
    \/ \E news \in Range(toPage[p]) : news.is \in {"init", "full"}

Connecting(p) == Awaited(p) \/ sfu[p].opening # "no"

\* The server has taken the departure of p, and p all that it was told before.
Gone(p) == p \notin room \cup joining /\ toServer[p] = <<>> /\ toPage[p] = <<>>

JoinVoice(p) ==
    /\ Move
    /\ p \in live /\ ~page[p].on
    /\ Hasty \/ Gone(p)
    /\ page' = [page EXCEPT ![p] = [AwayPage EXCEPT !.on = TRUE]]
    /\ Emit(p, <<"join">>)
    /\ UNCHANGED <<vars, toPage, sfu>>

LeaveVoice(p) ==
    /\ Move
    /\ page[p].on
    /\ Hasty \/ ~Connecting(p)
    /\ HangsUp(p)
    /\ UNCHANGED <<vars, toPage>>

\* _doRejoin: the last connection of the page failed a moment ago, and the mode
\* may have changed since.  The session stays.
Rejoin(p) ==
    /\ Move
    /\ page[p].on /\ page[p].roster # {}
    /\ Hasty \/ ~Connecting(p)
    /\ page' = [page EXCEPT ![p] = [Forget(@) EXCEPT !.roster = {}]]
    /\ Emit(p, <<"leave", "join">>)
    /\ UNCHANGED <<vars, toPage, sfu>>

ShareScreen(p) ==
    /\ Move
    /\ page[p].on /\ page[p].mode # "sfu"
    /\ Emit(p, <<"share">>)
    /\ UNCHANGED <<vars, toPage, page, sfu>>

\* The page is closed, and its socket with it.
ClosePage(p) ==
    /\ Move
    /\ page[p].on
    /\ Disconnect(p)
    /\ page' = [page EXCEPT ![p] = AwayPage]
    /\ sfu' = SessionEnds(p, NoSfu)
    /\ toServer' = [toServer EXCEPT ![p] = <<>>]
    /\ toPage' = IF p \in room THEN [DepartureSent(p) EXCEPT ![p] = <<>>]
                 ELSE [toPage EXCEPT ![p] = <<>>]

CallNext ==
    \/ Abandon
    \/ \E p \in Pages :
         \/ JoinArrives(p) \/ SeatTaken(p) \/ SeatRefused(p)
         \/ LeaveArrives(p) \/ ReadyArrives(p) \/ ShareArrives(p)
         \/ SessionOpens(p) \/ SessionReady(p) \/ SessionFails(p)
         \/ Ignored(p) \/ OnVoiceInit(p) \/ OnPeerJoined(p) \/ OnPeerLeft(p)
         \/ OnModeSfu(p) \/ OnModeMesh(p) \/ OnSfuCommit(p) \/ OnVoiceFull(p)
         \/ JoinVoice(p) \/ LeaveVoice(p) \/ Rejoin(p) \/ ShareScreen(p) \/ ClosePage(p)
         \/ \E q \in Pages \ {p} : FlowPlays(p, q)

CallSpec == CallInit /\ [][CallNext]_callVars

-----------------------------------------------------------------------------

\* Nothing is under way, in the network or in the pages.
Settled ==
    /\ joining = {} /\ mode # "switching"
    /\ \A p \in Pages :
         /\ toServer[p] = <<>> /\ toPage[p] = <<>> /\ sfu[p].opening = "no"
         /\ \A q \in Pages \ {p} : ~CanPlay(p, q)

MeshPath(p, q) == MeshLink(p, q) /\ q \notin page[p].muted

\* p hears q.
Hears(p, q) == MeshPath(p, q) \/ q \in sfu[p].heard

\* Once nothing is under way the page of each member shows who is there and
\* has the mode of the channel, and each hears every other.
CallIsWhole == Settled =>
    \A p \in room \cap Pages :
        /\ page[p].on /\ page[p].mode = mode /\ page[p].roster = room \ {p}
        /\ \A q \in room \ {p} : Hears(p, q)

InCall(p, q) ==
    /\ q \in page[p].roster /\ p \in page[q].roster
    /\ ~Awaited(p) /\ ~Awaited(q)

\* A connection of the mesh, or two sessions that will hear each other.
Path(p, q) == MeshPath(p, q) \/ (sfu[p].session /\ sfu[q].session)

\* No step takes two people in a call with each other apart: the mesh is
\* closed on both sides only when the SFU carries them.
NobodyIsCut ==
    [][\A p, q \in Pages : Path(p, q) /\ ~Path(p, q)' => ~(InCall(p, q) /\ InCall(p, q)')]_callVars

\* An abandoned switch leaves the mesh as it was.
AbandonLeavesMesh == \A p \in Pages :
    page[p].mode = "mesh" /\ ~sfu[p].session => page[p].muted = {}

=============================================================================
