# Formal models of Nodyx

TLA+ specifications of the parts of Nodyx whose correctness depends on the
order in which things happen, the TLC configurations that check them on small
instances, and theorems about them checked by TLAPS.

Contents: [the system](#1-the-system) · [the modules](#2-the-modules) ·
[the runs](#3-the-runs) · [what the code does not keep](#4-what-the-code-does-not-keep) ·
[the proofs](#5-the-proofs) · [what is not modelled](#6-what-is-not-modelled) ·
[the plan](#7-the-plan) · [running](#8-running)

## 1. The system

A Nodyx instance is `nodyx-core` (Fastify and Socket.IO, one Node process),
`nodyx-frontend` (SvelteKit), PostgreSQL, Redis, and a few Rust daemons of
`nodyx-p2p`: the media server `nodyx-sfud`, a TURN server, a relay, gossip.

### Inventory

| Component | State it keeps | Operations | What is hard | What makes it correct |
|---|---|---|---|---|
| Voice channels, `core/socket/voice.ts` | seats per channel, Socket.IO rooms, p2p pools | join, leave, kick, disconnecting, sfu_ready, screenshare_intent; forwarding of offers, ICE, statistics | handlers suspended on the database while sockets close, join and are evicted | one seat per member, one member per account, no seat without a member |
| Switch, `core/socket/voiceBascule.ts` | mode, ready set, abort timer, cooldown, per channel | onSeatCount, onScreenShare, onSfuReady, onLeave, commit, abort, reset | departures and timeouts in the middle of a switch | the mesh is closed only when everybody is ready; every switch ends |
| SFU service, `nodyx-sfu/src/voice.rs` and the engine `nodyx-sfu-mediasoup/src/engine.rs` | rooms: participants, publications, subscriptions, router; registries of engine objects | join, leave, kick, touch, stale, ensure_sfu, set_screenshare, publish, unpublish, subscribe | a lock released around every engine call; requests of one room overlap; engine calls fail | room and engine agree; nobody is offered a flow that is gone; nothing leaks |
| Daemon, `nodyx-sfud.rs` | one task per connection, the eviction task | HTTP routes, request timeout, eviction | a timeout cuts a request anywhere | every participant can be evicted |
| SFU relay, `core/socket/voiceSfu.ts` | per socket, the channels joined | sfu_join, sfu_leave, heartbeat, disconnect, and forwarding | calls lost, late or reordered; sockets that close during a call | a closed socket releases its participant |
| SFU client, `frontend/lib/voiceSfu.ts` | the session and its phase | sfuJoin, sfuLeave, maintainTick, maybeRecover, supersede, fail | answers that arrive after the user hung up, several tabs, reconnections | a page has the session it thinks it has |
| Mesh client, `frontend/lib/voice.ts`, `voiceBascule.ts` | mode of the page, roster, peer connections, audio elements | joinVoice, leaveVoice, rejoin, share, the events of the channel, the crossfade, the commit | each page learns of the mode at a moment of its own, with events of an earlier stay still on the way | members are in one call, and nobody is cut off by the switch |
| Backups, `core/services/backupService.ts`, maintenance | the lock and the flag in Redis, the directory of archives, the table | create, restore, delete, verify, reindex, set and clear the window | jobs of several administrators, lifetimes, crashes, failures half way | jobs exclude each other, writes are held back, the catalogue agrees with the directory |
| Chat to Twitch, `streamer/chatOutboundQueue.ts`, `twitchChatBridge.ts` | Redis sorted set of messages with their attempts | relay, enqueue, pop, reschedule, drop, the worker | overlapping ticks, a crash between pop and send | a message is sent once and decided on in the end |
| Sound queue, `streamer/soundboardQueueService.ts`, `socket/overlay.ts` | Redis list, rate keys, what is playing | add, pop, remove, clear, audio:ended, play, stop | read and push are two calls; several overlays | caps hold; the page shows what plays |
| OAuth tokens, `streamer/tokenService.ts` | encrypted tokens | save, refresh, revoke | concurrent refreshes with rotation | the row holds a token that works; revoked stays revoked |
| EventSub, chat timers, commands, goals | Redis counters, subscriptions | one handler per event | little: mostly calls to Twitch | |
| Octoguard, `services/octoguard` | rules, mutes, warnings; caches of the first two | pipeline, mutes, warnings, reload | writes nobody waits for, stale caches | a mute takes hold, the threshold is not missed, the rules are current |
| Canvas, `core/socket/canvas.ts` | elements per board, in memory and in the database | join, leave, op, clear, save, PATCH | loads and saves of handlers that overlap | no edit is lost |
| Signet, `core/routes/authenticator.ts` | devices, challenges, sessions | register, create, approve, reject, poll | reads and writes in calls of their own | one account per device, one session per challenge |
| Authentication, TOTP | sessions in Redis | login, refresh | one atomic statement per step | |
| TURN, `nexus-turn` | allocations, permissions, channels | allocate, refresh, bind, relay, evict | a task per packet; lifetimes | a live allocation relays, at the address the client goes by |
| Relay, `nexus-relay` | slug registry, sessions, pending requests | register, proxy, ping, reconnect | three detached tasks per session; connections cut silently | the slug leads to the client; no request is abandoned |
| Scheduler and directory, `core/scheduler.ts` | `last_indexed_at`, block list | announce threads and events, pull the block list, heartbeat | an edit during an announcement; two pulls on one temporary key | every edit is announced in the end |
| Presence, `core/socket/index.ts`, `frontend/lib/socket.ts` | the room of those present, statuses in Redis, the list of each page | connect, disconnect, set_status | setups that overlap, connections that close meanwhile | pages agree on who is online |
| Text chat, `core/socket/index.ts`, the page `chat` | messages, the rooms of each socket, the channel it looks at, the list of each page | join, leave, watch, send, edit, delete | handlers of one socket that overlap; writes and their broadcasts are apart | a page shows its channel; the core knows which one that is |
| Direct messages, reactions, activity | rows | one statement and one broadcast each | little | |
| Extensions and widgets | registry, storage with quotas | install, enable, remove | partial installation | quotas are kept |
| Gossip (Rust) | peers | merge | | lists converge |

The browser talks to the core over one Socket.IO connection per page. The
socket handlers of the voice channels call the switch orchestrator directly.
The SFU relay calls the daemon over HTTP, one connection per call, without
waiting for earlier calls. The daemon calls the service, the service calls the
engine. The backup service shares Redis with everything else, and the
maintenance hook of the HTTP server reads the flag it sets. The queues of the
streamer hub share Redis and the tokens, which each caller refreshes for
itself. Visitors reach an instance without a public address through the relay;
peers behind a NAT reach each other through TURN. The canvas, Signet and
Octoguard share nothing but the database.

## 2. The modules

```
VoiceBascule  <-EXTENDS-  VoiceRoom  <-  MCVoiceRoom
VoiceRoom     <-EXTENDS-  VoiceClient  <-  MCVoiceClient  <-  VoiceProofs
SfuRoster     <-INSTANCE- SfuRoom    <-  MCSfuRoom, SfuRoomProofs
SfuRoster     <-  SfuRosterProofs
SfuSession    <-  MCSfuSession, SfuSessionProofs
Backup        <-  MCBackup, BackupProofs
Relay         <-  RelayProofs
ChatQueue, StreamerTokens, Soundboard, Octoguard  <-  MCHub  <-  HubProofs
Canvas, Presence, Signet, TextChat, Turn          <-  MCCommunity  <-  CommunityProofs
```

`MCHub` and `MCCommunity` put independent modules into one run: a behaviour
picks one of them (`part`) and the others stay in their initial states, so the
states add up instead of multiplying. The parts share no state in the code
that they model.

### VoiceBascule and VoiceRoom: one voice channel

`VoiceBascule` translates `voiceBascule.ts`. Its four maps are keyed by
channel and channels never interact, so one entry of each is the state: `mode`,
`ready`, `timer`, `cooldown`. Each exported function is an operator of the
seat count and the members, and `VoiceRoom` composes them with the handlers
exactly where the code calls them.

`VoiceRoom` translates the handlers of `voice.ts`. The core is
single-threaded, so what interleaves is a handler suspended on the database:
`voice:join` waits for the role (`JoinRequest`, then `JoinSeated`, `JoinFull`
or `JoinRefused`), `voice:kick` for the permissions and for the target's role
(`KickRequest`, `KickFind`, `KickExecute` or `KickRefused`). The two queries
that precede the permission check are one wait. `fetchSockets` and the
broadcasts are awaited too, but the adapter is the in-memory one: they resume
in the same drain of the microtask queue, and nothing comes in between. Two
facts of Socket.IO matter and are in the model: a socket that has closed
cannot enter a room (`join` does nothing), and `disconnecting` still sees the
rooms.

Two constants switch hazards on: `DropWhileJoining` (a connection closes while
its join waits) and `LateReady` (a confirmation of an earlier switch or stay
arrives). `confirmed` is a history variable: who really confirmed in this
switch and in this stay.

### VoiceClient: the pages of the channel

`VoiceClient` puts the program of the browser behind the sockets of
`VoiceRoom`. A page and the server have one queue each way (`toServer`,
`toPage`), taken in order and at any pace, so an event of an earlier stay may
reach a page that has joined again. The handlers of `VoiceRoom` take the
events of the first queue and append what the code emits, in the order in
which it emits it: `voice:init` tells the mode before the count is looked at,
`voice:peer_left` precedes what the departure decides about the switch.

`page` is the state of `voice.ts`: its mode, the roster, the keys of
`_peerConns`, the audio elements that are muted, and whether the callback of
the crossfade is set. `sfu` is what the switch needs of `voiceSfu.ts`: the
join under way and whether it ends in a confirmation, the session, the
publications listed and not consumed yet, the flows that play. A connection of
the mesh carries sound when both ends have it; offers, answers and candidates
are left out, so a track has always arrived by the time a flow of the SFU
mutes it, which is the case in which more is muted. The flows listed at the
start of a session are taken together, those announced later one by one.

`Aborts`, `SfuFails` and `Hasty` switch hazards on: switches that are
abandoned, sessions of the SFU that fail, people who hang up while they are
being connected, or come back before the server has taken their departure and
their page what it was told before (`Connecting`, `Gone`). The code has no
guard against them: without `Hasty` people take the time of a round trip, and
section 4 shows what happens when they do not.
`Awaited` is a page whose last `voice:join` has no answer yet. Bounds: `MaxMoves`, what people do all together; an
event that makes a page open a session waits for the opening under way; a page
rejoins while somebody is in its list.

### SfuRoster and SfuRoom: one room of the media server

`SfuRoster` is what the service promises to people: members, who has
transports, what flows are offered and heard, each request in one step.

`SfuRoom` is `VoiceService` over the registries of the engine. A request is a
task that alternates critical sections under the state mutex with awaits on
the engine; every one of these is an action (`Enter`, `Remove`, `Clean`,
`Insert`, `Plan`, `CreateRouter`, `Provision`, `Commit`, `Lookup`, `Produce`,
`RecordPublication`, ...). `close_*` calls wait for nothing and are one step.
`kick` is `leave`. `ensure_sfu` has its four rounds. The transports of a
participant are made and dropped in pairs and are one object; `create_transport`
for several participants is one action with a failure in between
(`ProvisionFails`). Objects are numbered with the lowest number nothing refers
to; the source's keys are never reused, and since a number is free only when
no room, task or registry mentions it, nothing can tell the difference.
`outdated` is history: a commit that had found a router when it was planned
(`need_router` false) set it in a room that had none any more, because the room
it was planned for had ended. Such a router may be closed.

`Serial` is the hypothesis that `voice.rs` states, that the caller serializes
the operations of a room. The daemon does not. The runs check what holds with
it, what holds without it, and what is lost. `Failures` lets engine calls fail
and the request timeout cut a task at an await; `Silences` lets heartbeats
stop; `Resubscribe` lets a client subscribe twice to one flow.

`ImplementsRoster` states that `SfuRoom` implements `SfuRoster` under the
mapping given at `Roster`; TLC checks it and `RoomIsARoster` proves it.

### SfuSession: from the page to the daemon

The pages of one channel with the handlers that relay for them, and the daemon
reduced to what the relay can tell: one participant per account, whose
transports it holds, and whether its heartbeat is late. A call is a request
that may be executed after the core gave up on it (`strays`), lost, or
overtaken (`leaves`). `phase` is `sfuPhaseStore` with two distinctions that it
does not make: `left`, the phase is idle and a `sfuJoin` is still waiting;
`adopted`, the session is active and its socket is one that never joined. A
page that reconnects goes on with a socket of `Spares`; `Init` chooses which of
these are kept for that and which are pages of their own. Bound: one
`voice:sfu_join` handler per socket.

### Backup: backups and the maintenance window

`createBackup`, `restoreBackup`, `deleteBackup` and `reindexBackups`, step by
step, each await on Redis, PostgreSQL or a child process being a boundary;
`restoreBackup` runs `createBackup` inside. The database is the number of its
last write and an archive the number it was dumped from. The lock and the flag
carry no clock: `Slow` says whether a job may outlast their lifetimes. With
`Slow = FALSE` the lock is lost only by those who can no longer release it.
`LateWrites` says whether writes land inside the window, as those of the
socket handlers do.

Every step may fail (`Fails`, `Refused`, `MaintenanceFails`, `ReleaseFails`,
`ClearFails`) and takes the catch and finally blocks the code has there. An
archive is torn while `tar` writes it (`Archive`, then `Pack`), and stays so
when the process dies in between; `verifyBackup` refuses it. The name of an
archive carries the time, so a name is taken again only when nothing refers to
it.

### Relay: one slug

`session::run` registers a handle under the slug, spawns three tasks (write,
read, ping) and returns when the first of them ends; dropping a `JoinHandle`
does not abort a task, so the others go on. `run`, `writing` and `reading` say
which of these are alive, `registry` whose handle the slug has, `link` what
the network does to the connection (`"cut"`: nothing passes and nobody is
told), `client` and `told` where the client is. The registry is keyed by slug,
so that the end of an old session removes the handle of the one that replaced
it; the pings then stop, the client notices the silence and connects again.
`SawTheEnd` is the one place where a delay is relied upon: the client waits a
second or more before it reconnects, and by then the relay has read the end of
a connection the client closed. `KeepAlive` says whether the socket of the
client is raw TCP; a WebSocket has no keepalive, and a client cut before it
read `Registered` then waits for ever.

### Turn: allocations

Each packet is a task; a handler that works on an allocation holds its map
entry and is one step, `handle_allocate` checks (`CheckAllocate`), binds a
socket and inserts later (`Allocate`). A relay task looks at the lifetime only
when a packet comes. A port is free when neither the map nor a relay task
holds the socket. Requests arrive again, late and together. A relay task also
ends with an error of its socket (`RelayFails`), and the map keeps the
allocation; an Allocate of the client is then answered with its address until
the lifetime has passed. `served` are the clients that go by the address of the
allocation they hold. Two histories: `lost`, the clients whose allocation failed
in this way or was revived by a Refresh after its task had ended; `doubled`, the
clients of whom two Allocates overlapped, up to the next that is handled alone.

### Signet: sign-in with a device

Every call to the database is a step; the reads a request makes before its
first write are one. A session is a token, and `signToken` makes it of the
account and the second alone: two approvals of one account in one second sign
the same token, which the model counts instead of telling apart. A second is named
after the first request that signs in it (`Tokens`): an approval signs in the
second of an earlier one, or in one of its own.
`signed` is what each approval signed, `posted` the approvals whose answer
carries the token too (`approve-cross`), `handed` how often polls were answered
with each; the three are history.
`polling` holds the polls that read an aged challenge as pending and are about
to write `expired`. `removed` is history too.

### Canvas: one board

`stored` is the row, `cache` the map in memory, `task` what each handler waits
for. `accepted` is history: the board as the room has seen it. An edit is lost
only in ways that `raced` names at the step where they happen: a save failed,
two saves were under way together, a load replaced a newer copy or was
overtaken by a save, the API wrote underneath, or the last one's departure
dropped a copy that had been drawn on again.

### Presence: who is online

A connection asks the database (`setup` "database"), then Redis ("redis", with
its command on `wire`, which is answered in order), joins the room and lists
it ("listing"). Between joining and listing are only promises that resolve at
once: no event is handled there (`EventLoopFree`), but other answers of the
same read are. `present` is the room as the adapter lists it, without closed
connections. `mixed` is history: the accounts of which two tabs were set up
together, a connection closed before it joined, or Redis lost a status.

### TextChat: a page and its channels

`handler` are the `chat:join` and `chat:watch` under way, which wait for the
database while the page moves on: a join checks, enters the room (`Enter`),
reads the history and sends it (`Answer`). `untold` and `telling` are what has
been written and not announced. `shown` is the list of a page, `astray` the
messages over which it met a race since it last got its list, and `late` says
that the last join was carried out after the page had left its channel. What
pages and core send each other arrives at once: a delay would let the page act
in between, which the waits in the handlers do as well.

A list may also come from the join of an earlier stay in the channel, after
that of the present stay has failed: the socket is then in no room of it, and
the page hears nothing more. It takes four handlers, one more than the run has;
the proof (section 5) is what showed it, and TLC with `MaxHandlers = 4` and
`MaxEdits = 0` finds the same. `Answer` counts it as a race.

### ChatQueue, Soundboard, StreamerTokens, Octoguard

`ChatQueue` has one record per pass of the worker: read due entries, remove
them, dispatch them one by one. Which entry is due and which is too old is
nondeterministic, as time is. `Soundboard` has `addToQueue` in its three calls
(key, scan, push) and `audio:ended` in its four. The rate key outlives the calls
of an add: thirty seconds against two calls to Redis. A read of the queue that
fails is taken for an empty queue (`lrange(...).catch(() => [])`), in which every
check passes: it lets in what would be refused (`AcceptUnread`). An entry says in
`sight` how its add had looked. `StreamerTokens` has one record per caller of
`refreshAndPersist`, and the provider as the set of refresh tokens it takes
(external: modelled from how the code uses it).
`Octoguard` has one record per write under way and one per message that asks
for the mutes; an entry of the mute cache is "fresh" when it matched the table
as it was stored. Any query may fail: a reload that does (`ReloadFails`) ends
the request with an error, the table changed and the rules in memory old
(`behind`).

## 3. The runs

| Run | Instance | Shows |
|---|---|---|
| `voice_hazards` | two tabs of one account and two people, one a moderator; 2 seats, threshold 2; all hazards on; fair | `RoomSound` (seats distinct, members seated, one tab per account, switch timed) and `SwitchResolves` hold whatever overlaps |
| `voice_steady` | four accounts with one tab each, 3 seats, threshold 2; no connection closes during a join. Then the pages of three of them, which do four things all together (join, hang up, rejoin, share, close) | `SeatsMatchRoom`, `ModeFitsRoom`, `CommitNeedsEveryone`; of the pages, `CallsAreWhole` and `NobodyIsCut` |
| `sfu_serial` | three people, 2 seats, 2 flows, all requests, evictions, one request at a time | `EngineMatchesRoom` (types, `RouterMatches`, `AllOnOneRouter`, `NoObjectLeak`), `NoImmortalGhost` |
| `sfu_failures` | two people, all requests, one at a time, engine failures, request timeouts, heartbeats that stop | `FlowsAreReal`, `ImplementsRoster` |
| `sfu_concurrent` | two people, one seat, two concurrent requests of every kind, a room in SFU from its first participant | `RoomIsBacked` (`EngineBacksRoom`; `RouterFitsRoom`: a crowded room has a router, it is open unless `outdated`, the engine has no other), `SeatsRespected`, `SfuIsSticky` |
| `session` | two pages of one account, or one page and a spare connection; calls lost or late, silences; fair | `SessionSound` (types and `ActiveIsJoined`), `GhostsAreEvicted` |
| `backup_exclusion` | two jobs among create, restore and delete, two archives, a crash, a late write | `LockGuards`, `SafetyNet` |
| `backup_single` | one job at a time of every kind, two archives, three writes, a crash; fair | `GateCoversWork`, `NoOrphanArchive`, `NoLostWrite`, `InstanceRecovers` |
| `relay` | three sessions of one slug, one request, two faults; fair | `NoDeadTunnel`, `NoRequestStranded`, `TunnelComesBack` |
| `hub` | two messages and two passes, an outage; three callers, four tokens, a lost answer; two tracks, three adds from two addresses, one of them let in by a failed read; one mute, two checks, two jobs, two warnings, two edits; fair | `SentOnce`, `MessagesSettle`; `RefreshesAreSafe`; `QueueWithinLimits`; `ModerationIsCurrent`, `MuteTakesHold` |
| `community` | two sockets, one element, two stamps, failing saves; two devices, two challenges, two requests, in one second or two, a crash; two clients, two tasks, two ports, quotas of one; two tabs of one account and one of another, one status, two commands; one page, two channels, a message, three handlers | `EditsAreKept`; `SignInsAreCounted`, `WhatIsWrittenStands`; `AllocationsServed`; `PagesAgree`; `PagesFollowChat` |

Each module's type invariant is checked by one of them, or proved
(`RoomSound` and `RelayTypeOK`). A property whose name is a conjunction of
named parts says so in the module. Section 4 lists the configurations that are
expected to end with a counterexample.

**Bounds.** Two seats with three people exercise a full room; a threshold of 2
with up to four people exercises crossing it, staying above and dipping below.
A race needs two tasks, and an `ensure_sfu` can lose at most against one
other: two tasks reach every outcome of its commit. `sfu_concurrent` has one
seat and a mesh threshold of 0, so that two people and two tasks already
contend for the seat, for the router and for its end; the full range of the
threshold is left to `sfu_serial`. The numbers of objects that leak by the
races of section 4 are bounded: a behaviour that leaks more than `MaxRouters`,
`MaxPairs` or `MaxFlows` objects is cut there. Two sockets of one account and
one more cover eviction, overtaking and reconnection, which are all relations
of two connections. Two jobs are enough for every race over one lock, and the
restore contains a nested backup besides. `MaxWrites` is one where only an
overlap is asked for, and three where a lost write is: one before the
snapshot, one during and one after; `MaxCrashes` is one.

Three pages and four things done are a channel that crosses the threshold with
its second member, a third who arrives before, during or after the switch, and
one departure, return, closed page or share at any moment of it.

Three sessions of a slug are the one in force, the one it replaced and the one
that replaces it. Two passes of the worker overlap in every way that matters
to one message; a second message makes the batch non-trivial. Three callers
let a refresh be overtaken twice. Two adds from one address and one from
another are all relations of two adds, and `MaxUnread` = 1 of them is let in by
a failed read. A board of one element shows every race
of loads and saves, which never look at elements one by one; two stamps are an
earlier and a later one. `Signet` needs two requests to race and two
challenges to confuse. A quota of one and two tasks already exceed it. Two
tabs of one account and a page that watches them are every relation of tabs;
two commands overlap in Redis. Messages of a channel do not meet each other,
so that one is enough, with one edit and a deletion (two edits give the same
answer and take longer); three handlers are those of leaving a channel and
coming back.

**Symmetry** is used for participants and tasks, and for jobs, archives and
rows, and for the three sockets of `voice_steady` that do not moderate, in runs
without a liveness property only. `voice_hazards` and `session` have none:
accounts differ by their tabs and roles.

**Deadlock** is checked in `sfu_serial`, `sfu_failures`,
`backup_exclusion` and `relay`. `sfu_concurrent` stops where a leak has used up the
objects, the voice and session runs where the finitely many sockets are closed
for good, `backup_single` where the writes are used up and the archives kept for ever,
and `hub` and `community` where what there was to do has been done.

**Fairness.** `voice_hazards` assumes that an armed timer fires. `session`
assumes that the daemon's clock advances and its eviction task runs (a `tokio`
interval), and that every call under way ends, by an answer or by the timeouts
of the core and the client; nothing is assumed of users or pages.
`backup_single` assumes that a job under way goes on (each of its awaits ends),
that Redis expires keys, and that it does not fail one and the same deletion
for ever; a crash is still possible. `relay` assumes the client's reconnection
loop, the tasks of the relay, the deadlines of both (the read deadlines, the
proxy's timeout, keepalive) and nothing of the network or of visitors. `hub`
assumes `setInterval`, that every call of a pass ends (fairness is of the pass
as a whole: it does not choose the outcome), that the database answers the
jobs of Octoguard, and its cache's lifetime of one minute.

`NoImmortalGhost` holds in `sfu_serial`, where no request is cut short;
`GhostsAreEvicted` takes it from there that a join starts the participant's
clock. Section 4 says when it does not. `NoOrphanArchive` is stated of quiet
moments (no job under way) before a crash: every archive of the directory is
whole and listed, whatever failed on the way. A crash leaves an archive without
its row until the next reindexation. The converse is not promised: a deletion
whose query fails has erased the archive and keeps the row. The clean-up of a
failed backup is assumed to work; that it fails too is left out.

## 4. What the code does not keep

Each of these configurations ends with a counterexample. The first is a run of
`PROJECT.json`, where the statement of the repository that it contradicts is
quoted under `findings`: `voice_abandoned` (`AbandonLeavesMesh`). During a
switch each flow of the SFU that begins to play mutes what the mesh plays of
that person. When the server abandons the switch the page leaves the SFU and
unmutes nobody: whoever had been heard through the SFU is heard no more.

The others are kept beside it; they show what the same races lead to, and why
the passing runs have the hypotheses they have.

| Configuration | Property | What happens |
|---|---|---|
| `voice_ghost_seat` | `NoGhostSeat` | A connection closes while its `voice:join` waits for the role; the handler goes on, assigns a seat to the closed socket, and no handler frees it. The test `voice-deconnexion.test.ts` is about the same symptom on another path. |
| `sfu_immortal_ghost` | `NoImmortalGhost` | A join cut by the request timeout, or refused by the engine, leaves a participant whose clock never started: the eviction does not see it. |
| `backup_gate_race` | `GateCoversWork` | The end of a backup clears the window that the next one has just set. |
| `sfu_straddling` | `NoStraddling` | Two migrations overlap the end of a room and the start of the next: a participant is given transports on a router that is closed. |
| `sfu_ghost_publication` | `NoGhostPublication` | A participant leaves while its `publish` is in the engine; the flow is then recorded. |
| `sfu_consumer_leak` | `NoObjectLeak` | A second subscription to one flow forgets the first consumer. |
| `session_hang_up` | `HangUpIsFinal` | Hanging up while the join is under way finds neither a session nor a channel to leave: nobody is told, and the session becomes active. |
| `session_superseded` | `SupersededClientStops` | Two tabs of one account both believe they have the session, and the heartbeat tells neither. |
| `session_reconnect` | `OnlyOthersSupersede` | A page that reconnects is evicted by the clean-up of its own old socket and is told another tab took over. |
| `backup_lock_ttl` | `JobsExclude` | A job that takes longer than an hour overlaps the next. |
| `backup_socket_writes` | `NoLostWrite` | A direct message sent during the window is lost by the restore. |
| `backup_restore_belt` | `RestoreBelt` | The snapshot replaces the restore's window of 60 minutes by one of 30. |
| `backup_lost_snapshot` | `SafetyNet` | Reindexing during a restore lists its snapshot a second time, unprotected; deleting that row erases it. This is why `backup_exclusion` has no reindexation. |
| `backup_reindex_twice` | `OneRowPerArchive` | Reindexing during a backup lists its archive twice. |

The modules define other such properties beside those that hold. Put into the
configuration of a run in place of its properties, each ends with a
counterexample:

| Run, change | Property | What happens |
|---|---|---|
| `voice_ghost_seat` | `ModeNeedsMembers` | The count that includes the ghost seat never reaches 0: the mode of an empty channel is never reset. |
| `voice_ghost_seat`, `DropWhileJoining = FALSE` | `CommitNeedsEveryone` | The eviction of an old tab does not tell the orchestrator: its confirmation stays, and counts when the tab joins again in the same switch. |
| `voice_steady`, `Hasty = TRUE` | `CallsAreWhole` | Somebody hangs up while `voice:join` waits for the role: `voice:leave` finds the socket outside the room and does nothing, the join goes on, and the channel has a member without a page. |
| `voice_steady`, `Hasty = TRUE`, two pages that do six things | `NobodyIsCut` | Somebody in a call rejoins during a switch, confirms while `voice:join` waits for the role, and hangs up: `voice:leave` finds the socket outside the room and drops nothing. Coming back, they have a new session to open and an old confirmation that counts: the other page's completes the switch, and the commit closes the mesh before the session is there. |
| `voice_steady`, `SfuFails = TRUE` | `CallsAreWhole` | Somebody arrives in a channel that is in SFU and the session fails: there is no mesh to fall back on and nothing tries again. |
| `session_hang_up` | `NewestSessionWins` | The leave of an old socket names the account and removes the session of the newer one. |
| `session_hang_up`, `Silences = TRUE` | `ClosedSocketReleases` | A socket closes during `voice:sfu_join`: the clean-up has run before the channel is recorded. |
| `sfu_concurrent` | `RouterAlwaysOpen` | A migration is planned on the room's router, which needs no new one. The last participant leaves, which closes the router, and somebody enters. The commit finds a room without a router and sets the closed one (`voice.rs` 541-548): whoever is there cannot be given transports. |
| `relay` | `RunsWhileConnected` | The registration of a connection the client has given up on replaces the handle of the one in force: its channel closes, its write task ends, and its run returns while the client is connected. |
| `relay` | `OnlyActiveHandles` | The write of `Registered` fails after the insertion, and `?` returns with the handle in the registry: visitors get 503 until the next session. |
| `relay`, `KeepAlive = FALSE` | (deadlock) | The connection is cut before `Registered`: the client waits for ever. |
| `community` | `LiveRelays` | The socket of an allocation returns an error once: the relay task breaks (`server.rs` 644), the map keeps the allocation, and its client is answered with the address until the lifetime has passed. |
| `community` | `RefreshRevives` | A packet ends the relay task of an expired allocation; a late Refresh brings the allocation back, and nothing is relayed. |
| `community` | `AddressAlwaysServed` | Both copies of an Allocate pass the checks; the second replaces the allocation whose address the client goes by. |
| `community`, two peers | `ChannelsAgree` | A channel bound to a second peer keeps its reverse entry for the first. |
| `community`, `SavesFail = FALSE` | `LastOneSaves` | Somebody joins and draws while the last one's save is under way; the copy is then dropped. |
| `community`, `People \ mixed` replaced by `People` | `PagesAgree` | Two tabs of one account open at once: each takes the other for the first, and nobody is told. Or a tab closes while its status is read: it is then announced, and stays on every other page. |
| `community` | `BackgroundWatched` | A query of `chat:watch` fails, or the page reconnects: `connect` joins the selected channel again and none of the others, whose messages it no longer counts. |
| `community`, without `astray` | `ListFollows` | A message announced between the query of the history and its answer is not on the list; one written before and announced after is on it twice; an edit may be overtaken by an older one. |
| `community`, without `late` | `AttentionFits` | The join of a channel that the page has left is carried out after that of the next: the core takes the page to look at it, and says nothing of mentions there. |
| `community` | `TokenPolledOnce` | Two approvals of one account in one second sign the same token (`authenticator.ts` 89-95: the account and the second are all that it names): two browsers are given it. |
| `community` | `OnlyThePollIsTold` | `approve-cross` answers whoever approves with the token (line 618) that the browser is about to poll. |
| `community` | `RejectionIsFinal` | An approval that had read the challenge as pending writes over the rejection. |
| `community` | `DeviceCanReturn` | A crash between the account and its device, or a removal: the address is taken, and the device can not sign in again. |
| `hub` | `NothingLost` | A pass dies with a batch it had removed. |
| `hub` | `DisconnectedStaysSo` | The row is deleted between the second read of a refresh and its upsert, which brings it back. |
| `hub` | `NothingWorksAfterRevocation` | The row is deleted, and the provider is not told. |
| `hub` | `QueueKeepsItsRules` | Two addresses pass the checks together: the queue is longer than its limit, or has a track twice. Or the read of the queue fails, which counts as an empty queue: every check passes. |
| `hub` | `LastEditInForce` | Two reloads of the rules end in the other order. Or the query of a reload fails when the table has been written: the request ends with an error, and the old rules stay in force until the next edit. |
| `hub`, two overlays | `PageShowsWhatPlays` | Each overlay ends the sound: the second one clears what the first has just written. |

## 5. The proofs

All proofs hold for every value of the constants that satisfies the named
assumption of the module.

**VoiceProofs** (`VoiceAssumption`, `ThresholdAssumption`,
`ClientAssumption`), in three parts. The inductive
invariant is the conjunction of `TypeOK`, `SeatsDistinct`, `MembersSeated`,
`OneTabPerAccount` and `SwitchIsTimed`: types are needed by all, and
`MembersSeated` keeps a departure from leaving a member without a seat.
Lemmas state what a seat assignment and a departure do to the seats; then one
step per action. `RoomAlwaysSound` is the theorem of the run's `RoomSound`.

The second part proves what `voice_steady` checks of the channel, from the
hypothesis `Steady`, which is how that run sets the constants: finitely many
sockets, one tab per account, `~DropWhileJoining` and `~LateReady`. Without it
each of the three is false (section 4). `SInv` adds to the invariant above that
whoever joins is connected (so a join never seats a closed socket), and
`ReadyConfirmed`: who counts as ready in a switch has confirmed in it, which a
departure keeps because it takes the member off both. The lemmas follow the
code: a departure (`SteadyDepart`, by the branch of `onLeave`: reset, commit,
cooldown), the end of a join (`SteadyJoin`), a confirmation (`SteadyReady`);
the other handlers leave the mode alone (`IdleKeeps`). That the seats and the
members agree is what makes `onLeave`, which counts one and empties by the
other, follow the call. `SeatsFollowMembers`, `ModeFollowsCall` and
`CommitsAreConfirmed` are the theorems.

The third part is the call: `SteadyCallsAreWhole` and `SteadyCallsAreNotCut`,
the theorems of `CallsAreWhole` and `NobodyIsCut`, and the same of `CallSpec`
alone (`CallBecomesWhole`, `CallNeverCuts`). The hypothesis `SteadyCall` is how
the run sets the constants: `Steady`, at least as many seats as pages,
`~Aborts`, `~SfuFails` and `~Hasty`. The number of people and of things they do
is arbitrary. The two properties speak of what pages show when they have read
everything, or of two pages at once, and are far from inductive: most of the
time a page is behind, by news it has not read and events the server has not
taken. `CInv` says what is between the two ends. Of the way to the server:
where a page is in its stay fits the events it has emitted and whether the
server has it in the room or waits for its role (`Stays` is a page that will be
a member when the server has caught up). Of the way back: all
that a page can be told (`NewsFits`), with one `voice:init` at most, that of
its stay (`InitFits`); when it has read everything it is in the mode of the
channel, and a switch is announced to it only when it is in mesh by then
(`ModeView`, `ModeIsTold`, `InTurn`); a commit that it reads in a channel that
is not in SFU is of an earlier stay, and a `voice:init` follows (`CommitIsTrue`);
the last news about a person says whether that person is there
(`RosterIsTold`). Of sessions: whoever has confirmed, has a confirmation on its
way or is about to read a commit has one (`ConfirmFits`), and a member of a
channel in SFU has one, opens one or will be told to (`SessionFits`). Of sound:
what plays has a session at both ends (`FlowsFit`), and whoever is muted in the
mesh is heard over the SFU, or leaves (`MutedFits`).

The steps are sorted by who makes them. A step of the server appends to a queue
at most a departure or an arrival and then what it decides about the switch
(`ServerStep`, `ToldFits`); a page that takes its first news keeps what the
rest says (`TakenKeeps`, with the lemmas on what is silent and what comes last
in a queue and in its tail); a page that acts changes what it has emitted
(`PageMoves`). `WholeFromInv` reads the property off the invariant with empty
queues, `NotCut` takes a step with the invariant on both sides. `PartInv`
carries them to the specification of the run.

The model was wrong here once: `~Hasty` had kept people from hanging up too
early but not from coming back too early, and `ConfirmFits` then
fails by an old confirmation, which is the row of section 4.

**SfuRosterProofs**: `RosterHasNoGhosts`, `RosterKeepsSeats`,
`RosterStaysInSfu` of the abstract roster. Whatever implements the roster has
them; `SfuRoom` does, under `Serial` (`RoomIsARoster`).

**SfuRoomProofs** (`SfuAssumption`), for any number of participants, requests
and objects, by what each part needs of the caller and of the engine.

Of nobody, whatever overlaps, fails or is cut short: `ServiceTyped`;
`SeatsAlwaysRespected` and `RouterIsKept`, since only `Insert` adds a
participant and counts under the same lock, and only `Commit` sets the router
and only of a room that has none; `EngineAlwaysBacks`, because each object is
known to one place. A flow is published, made and not yet recorded by one
request, or listed by one removal, and never two of these (`FlowInv`, over
`ToPublish` and `ToWithdraw` of each slot), so no removal closes what is still
offered; `ConsumerInv` says it of consumers, with `OneConsumerEach`, without
which closing one subscription would close another. `Landing` tells at which
step each action can leave its job, and the steps that claim nothing are
treated at once.

That no request is cut short (`~Failures`): `RoomAlwaysBacked`, the theorem of
`RoomIsBacked`. `RouterInv`: the router a migration creates is nobody else's,
and every router is the room's or has a migration that will commit or close it,
or a removal that will close it. `CrowdInv`: a crowded room in mesh has a
migration under way. `OpenInv`: unless `outdated`, the room's router is open and
no removal is about to close it, since the removal that takes a router to close
it leaves the room without one. A migration planned on the router of an earlier
room breaks this for the next one (`RouterAlwaysOpen`, section 4), and the
property says so. A request cut short while it creates transports leaves a
router with no such holder, hence the hypothesis.

That requests follow one another (`Serial`, the hypothesis the source states),
whatever fails: `OfferedFlowsAreReal`, and `RoomIsARoster`, that `SfuRoom`
implements `SfuRoster`. `SerialInv` adds to `OneAtATime` what the one job under
way may rely on: who is inserted is not in the room (`Joining`), what is to be
closed is no longer offered (`Closing`), a migration knows who misses transports
(`Moving`), and what is to be recorded has its owner in the room and its objects
in the engine (`Streaming`). Each step of the job is then one step of the roster
(`RemoveIsLeave`, `CommitIsMigrate`, `RecordIsPublish`, ...) or leaves it alone.

And that nothing fails and nobody subscribes twice: `EngineIsExact`, the theorem
of `EngineMatchesRoom`, and `EverybodyCanBeEvicted`. `ExactInv` keeps the books
in between: the engine holds what the room refers to plus what the job under way
has made or has still to close, by its step (`Account`), so that at rest it runs
the room's router, open, and no other; and while people miss
their transports or their clock, the job that will see to it is there (`Whole`).

**SfuSessionProofs** (`SessionAssumption`). `ActiveSessionsAreJoined`. The
invariant adds that an active page has no call under way, that a page that
waits is connected, and that a handler in its setup has recorded the channel
of a page that waits for it.

**BackupProofs** (`BackupAssumption` and `Slow = FALSE`: no job outlasts the
lock), in three parts. Exclusion: `BackupsExclude`, `LockNeverForgotten` and
`LockAlwaysGuards`, which joins them, from the invariant that a job at a step
that works holds the lock, and a job that holds it is at a step from which the
release is reached.

The archives: `NoArchiveOrphaned`, for every operation, and `SnapshotIsKept`,
the theorem of `SafetyNet`, where nobody reindexes (with reindexing it is false,
section 4). The lock plays no part in them: deletions do not take it, and a
restore gives it up during its snapshot. What holds is ownership. `DiskInv`: an
archive is made by one job (`OneMaker`); a deletion names the row of its own
archive or one that is gone, and drops it when the archive is off the disk
(`DeletesOwnRow`); a torn or unlisted archive has a job that will see to it
(`Accounted`). `SnapInv`: nobody knows of an archive before its row is there
(`Unknown`), and once it is there as a snapshot every row of it is protected
and no deletion names it (`Snapshots`). Steps that touch neither the disk nor
the table are treated at once (`Calm`).

One job at a time (`Alone`): `WorkIsClosedToUsers` and, under `~LateWrites`,
`RestoreLosesNothing`, the theorem of the action property `NoLostWrite`, from
the invariants that a job in the window finds it set (`Closed`) and that the
snapshot is the database from its dump to the end of the restore (`Current`).

**RelayProofs** (`RelayAssumption`), `SlugNeverDead` and
`RequestsNeverStranded`. The invariant adds that a registered session whose run is
going on still has its reader, which removes the handle when it ends
(`HandleIsRead`), that a run fails only on a connection that is no longer up
(`FailedIsCut`),
and that a session before its registration has neither tasks nor requests
(`UnregIsQuiet`).

**CommunityProofs**. From `TextChatAssumption`, `ChatIsFollowed`, the theorem of
the run's `PagesFollowChat`. `ListFollows` speaks of a moment when all was
announced and is not inductive. The invariant says what a list is in between:
empty for a message that is still to be announced, afterwards one text, the
last one unless a change of it is to be announced (`Follows`); empty for the
messages of other channels (`OffTheList`); and a history that was read and not
delivered holds only messages of its channel that exist, and no deletion that
did not happen (`ReadFits`). `OneMessage` says once what each of the four
writing actions needs. The proof is what found the case of `Answer` in which
the socket is not in the room (section 2).

From `PresenceAssumption`, `PagesShowWhoIsOnline`, the theorem of `PagesAgree`,
for any accounts and tabs. Accounts that two tabs raced over are excepted as in
the run (section 4). The invariant adds that Redis answers a connection once
(`WireFits`), that a tab in the room waits for nothing more and that the first
tab of an account is the only one about to be listed (`SetupFits`), and that
while it is, a page shows the account as offline or with its status, whichever
came first (`ListFits`).

From `CanvasAssumption`, `BoardsAreKept`, the theorem of `EditsAreKept`, for any
sockets, elements and stamps. The invariant says where the accepted edits are:
in the memory, and also in the table or on the way to it unless the timer is
armed; while the PATCH of the API has not dropped the copy in memory, only the
table counts (`BoardFollows`, `ApiWaits`). One write at a time is under way
unless a race was recorded (`OneWrites`), and what is written is compact
(`TableCompact`).

From `TurnAssumption`, `QuotaHolds` from the invariant that the
holders and the requests past their check are fewer than the quota plus the
tasks: a check needs a free task, and an insertion spends one.
`LiveAllocationsRelay`: a task ends by itself only on an expired allocation, and
what brings such an allocation back is recorded in `lost`, as errors of the
socket are. `ClientsAreServed`, the theorem of `AllocationsServed`, with
`OneRequestEach` (a client that is not `doubled` is checked by one task, which
is to answer it) and `LastAnswer` (it goes by what it was answered last). Neither
restricts what arrives and when.

From `SignetAssumption`, `SignInsStayCounted`, the theorem of
`SignInsAreCounted`, and `WrittenStands`. That a token is handed out once is
false (section 4), and so the invariant counts: for each token, the polls
answered with it and the challenges that hold it are no more than the approvals
that have signed it and written their challenge. It adds that a request under
way names its challenge, device and account (`Named`).

`CommunityTypeCorrect`, the theorem of `CommunityTypeOK`, joins what the five
modules keep: a step of `MCCommunity` is a step of one of them and leaves the
others alone.

**HubProofs**: the five invariants of the run `hub`. `NoMessageTwice`
(`ChatAssumption`): a message is in one place, its first dispatch, the queue or
the batch of one pass, and has not been sent while it is there (`OnePlace`,
`NotSentYet`); a pass that has removed its batch has nothing of it in the queue
(`HandsFit`). `RefreshesNeverLockOut` (`TokenAssumption`): a token that was
read and one that is carried are never the same, and who read the row's token
knows the row's id (`ReadersApart`, `ReadersKnowRow`). `QueueKeepsWithinLimits`
(`SoundAssumption`): an add under way holds the key of its address
(`OneAddEach`), and each limit is of a total: the entries of a kind in the queue
and the adds on their way to be one (`Total`, `WithinLimits`). An add that was let
in by what it read makes a total one more than what it saw; one that a failed
read let in is of no kind that is counted; a push moves an add from one summand to the
other; whatever takes entries off or gives adds up makes totals smaller
(`LessKeepsLimits`). `ModerationKeepsUp` (`OctoAssumption`) is inductive as it stands
but for the fact that a reload has read an edit that was made (`ReadsThePast`).
`HubTypeCorrect` is the theorem of `HubTypeOK`.

Every invariant and every action property that a passing run checks is proved.
Only model-checked: liveness, which is out of the reach of the prover
(`SwitchResolves`, `GhostsAreEvicted`, `InstanceRecovers`, `TunnelComesBack`,
`MessagesSettle`, `MuteTakesHold`), and the configurations of section 4. No
induction over data was needed but one: the last news of a kind in a queue is
taken with the least-number principle, as an instance of the well-foundedness
of `<` on the naturals (`LeastNatural`).

## 6. What is not modelled

Within the modelled components: media parameters (DTLS, ICE, RTP), the worker
pool of the engine, pausing and resuming consumers, forwarding handlers that
keep no state, the p2p pool of text channels, uploads and manifests in the
archives, the expiry date of snapshots. A heartbeat and its answer are one
step in `SfuSession`. The daemon does not restart in `SfuRoom`: it keeps
nothing, so a restart is the initial state, and the pages then see "absent".

In `VoiceClient`: the negotiation of the connections, and a connection that
fails while others hold (`_dropPeer`, which takes that person off one page's
list and tells nobody); two tabs of one account, kicks and reconnections,
which `VoiceRoom` and `SfuSession` have; a session that recovers or is taken
over (`SfuSession`); screen streams and their migration at the commit; what
the daemon decides about its own threshold.

In `Presence`: names and colours, the snapshot of the voice channels, the rate
limit. In `TextChat`: voice channels as the channel that is selected, which
leaves the text channel without watching it (`handleJoinVoice`); older history,
which is put before whatever channel is shown when it arrives; reactions and
pinned messages; requests a page makes while disconnected, which its socket
keeps for later; the limit on `chat:watch`; the p2p bus. In `VoiceRoom`: the rate
limit of the events of the voice channels; a `voice:leave` that it drops leaves a
member whose page has gone, until the connection closes.

In `Signet`, a query that fails ends its request where a crash would
(`SignetCrash`): the same rows are left, of one request at a time. In `Relay`,
finding the handle, noting the request and sending it to the session are one
step. In `Soundboard`: the setting of whether viewers may add, which is read
once at the start of an add and refuses it; and the library, whose tracks come
and go (an add finds its track, and a chain may end for want of one:
`EndFails`).

In the newer modules: the bodies and headers the relay carries, bans and the
WebSocket framing; credentials, the rate limiter and the limit of permissions
per allocation of TURN; signatures and rate limits of Signet; the DELETE of a
board, cursors and the limit of elements, which counts deleted ones until the
board is loaded again; the audit log; what a rule of Octoguard matches,
channels and durations of mutes, temporary bans.

Components left out, with the reason, are listed in `PROJECT.json`. In short:
most of the repository is pages (SvelteKit), and routes that turn one request
into one SQL statement, where nothing interleaves; their lines are not in the
map, and the share of lines it covers is small for that reason. The scheduler,
polls, extensions and gossip would be next. The sites, the hub and
the store are presentation; the Axum port and the str0m engine are not in use.

## 7. The plan

Done: voice channel, switch, SFU room and roster, session, backups; then the
relay, TURN, Signet, the canvas, Octoguard, the queues and tokens of the
streamer hub, the pages of a voice channel, presence and text chat. Of all of
them the invariants and action properties that the runs check are proved.

Next:

1. Overlapping establishments and several tabs in `VoiceClient`; the p2p pool;
   heartbeat and answer split in `SfuSession`.
2. `Indexing`: edits and announcements of the scheduler. `Gossip`: merging.
3. What of the call is kept when switches are abandoned or sessions fail
   (`Aborts`, `SfuFails`), with its proof: who is in the channel and what the
   roster shows do not depend on either.
4. An abstract promise of the relay (a slug with at most one reachable client)
   and of the chat queue, with the refinements.

## 8. Running

```
tlc -workers 2 -config voice_steady.cfg MCVoiceClient.tla
tlc -workers 2 -config relay.cfg Relay.tla
tlapm VoiceProofs.tla
```

`PROJECT.json` names the module of each configuration, the property each run
is about, and for each property of a passing run a mutant: a plausible error
in the code's translation under which that property fails.
