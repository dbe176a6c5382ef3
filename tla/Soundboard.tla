------------------------------ MODULE Soundboard ------------------------------
(***************************************************************************)
(* One streamer's sound queue: soundboardQueueService.ts, the audio:ended  *)
(* handler of core/socket/overlay.ts, and play_audio and stop_audio of     *)
(* deckService.ts.                                                         *)
(*                                                                         *)
(* Viewers add tracks: the queue is read in one call and appended to in    *)
(* the next, and a key per address keeps an address to one add in thirty   *)
(* seconds.  Each overlay of the streamer plays what it is told, and says  *)
(* when it has ended, which starts the next one on all of them.            *)
(***************************************************************************)
EXTENDS Naturals, Sequences, FiniteSets

CONSTANTS
    Tracks,
    Adders,         \* adds under way at a time
    Ips,
    IpOf,           \* the address of each
    Overlays,
    MaxQueue,       \* MAX_QUEUE_LENGTH
    MaxSimult,      \* MAX_SIMULT_PER_IP
    MaxUnread       \* bound: tracks let in because the queue could not be read

ASSUME SoundAssumption ==
    /\ IpOf \in [Adders -> Ips]
    /\ IsFiniteSet(Adders) /\ IsFiniteSet(Ips) /\ Ips # {}
    /\ {MaxQueue, MaxSimult, MaxUnread} \subseteq Nat
    /\ "none" \notin Tracks

VARIABLES
    queue,      \* the list in Redis; history: what each add had seen of it
    rateKey,    \* addresses that have added in the last thirty seconds
    adder,      \* addToQueue
    plays,      \* what each overlay plays
    ender,      \* audio:ended, for each overlay that sent it
    nowPlaying  \* what the public page shows

soundVars == <<queue, rateKey, adder, plays, ender, nowPlaying>>

\* How the add looked for its track: nobody else was adding it, another add of
\* it had looked and not appended yet, or the read failed of a queue that would
\* have refused it.
Sights == {"alone", "beside", "blind"}
QueueEntry == [track : Tracks, ip : Ips, sight : Sights]
Adds == [pc : {"idle", "scan", "push"}, track : Tracks \cup {"none"}, sight : Sights]
NoAdd == [pc |-> "idle", track |-> "none", sight |-> "alone"]
NoEnd == [pc |-> "idle", track |-> "none"]

SoundTypeOK ==
    /\ queue \in Seq(QueueEntry)
    /\ rateKey \subseteq Ips
    /\ adder \in [Adders -> Adds]
    /\ plays \in [Overlays -> Tracks \cup {"none"}]
    /\ ender \in [Overlays -> [pc : {"idle", "pop", "resolve", "note"}, track : Tracks \cup {"none"}]]
    /\ nowPlaying \in Tracks \cup {"none"}

SoundInit ==
    /\ queue = <<>>
    /\ rateKey = {}
    /\ adder = [a \in Adders |-> NoAdd]
    /\ plays = [o \in Overlays |-> "none"]
    /\ ender = [o \in Overlays |-> NoEnd]
    /\ nowPlaying = "none"

-----------------------------------------------------------------------------

Places == 1 .. Len(queue)
QueuedFrom(ip) == {i \in Places : queue[i].ip = ip}
QueuedTrack(t) == {i \in Places : queue[i].track = t}
Pushing == {a \in Adders : adder[a].pc = "push"}

\* What was added, and who adds, as the queue allowed.
InSight == {i \in Places : queue[i].sight # "blind"}
Seeing == {a \in Pushing : adder[a].sight # "blind"}
Blind == Cardinality(Places \ InSight) + Cardinality(Pushing \ Seeing)

Adding(a, pc) == adder[a].pc = pc
Ending(o, pc) == ender[o].pc = pc

-----------------------------------------------------------------------------
(* addToQueue.                                                             *)

\* The track is found, and SET NX EX 30 takes the key.  (The library is left out:
\* tracks come and go.  So is whether viewers may add: the setting may change
\* before any add, and one that cannot be read counts as yes.)
Admit(a, t) ==
    /\ Adding(a, "idle")
    /\ IpOf[a] \notin rateKey
    /\ rateKey' = rateKey \cup {IpOf[a]}
    /\ adder' = [adder EXCEPT ![a] = [pc |-> "scan", track |-> t, sight |-> "alone"]]
    /\ UNCHANGED <<queue, plays, ender, nowPlaying>>

Duplicate(a) == QueuedTrack(adder[a].track) # {}
CapReached(a) == Cardinality(QueuedFrom(IpOf[a])) >= MaxSimult
QueueFull == Len(queue) >= MaxQueue
Beside(a) == \E b \in Pushing : adder[b].track = adder[a].track

\* The key is given back, if Redis takes it, except by a duplicate.
Refuse(a) ==
    /\ Adding(a, "scan")
    /\ Duplicate(a) \/ CapReached(a) \/ QueueFull
    /\ adder' = [adder EXCEPT ![a] = NoAdd]
    /\ \/ UNCHANGED rateKey
       \/ ~Duplicate(a) /\ rateKey' = rateKey \ {IpOf[a]}
    /\ UNCHANGED <<queue, plays, ender, nowPlaying>>

Accept(a) ==
    /\ Adding(a, "scan")
    /\ ~Duplicate(a) /\ ~CapReached(a) /\ ~QueueFull
    /\ adder' = [adder EXCEPT ![a] =
         [pc |-> "push", track |-> @.track, sight |-> IF Beside(a) THEN "beside" ELSE "alone"]]
    /\ UNCHANGED <<queue, rateKey, plays, ender, nowPlaying>>

\* A read that fails is an empty queue, in which no rule is broken: it lets in what
\* would be refused.  (Where nothing was to be refused it makes no difference.)
AcceptUnread(a) ==
    /\ Adding(a, "scan") /\ Blind < MaxUnread
    /\ Duplicate(a) \/ CapReached(a) \/ QueueFull
    /\ adder' = [adder EXCEPT ![a] = [pc |-> "push", track |-> @.track, sight |-> "blind"]]
    /\ UNCHANGED <<queue, rateKey, plays, ender, nowPlaying>>

Push(a) ==
    /\ Adding(a, "push")
    /\ queue' = Append(queue, [track |-> adder[a].track, ip |-> IpOf[a], sight |-> adder[a].sight])
    /\ adder' = [adder EXCEPT ![a] = NoAdd]
    /\ UNCHANGED <<rateKey, plays, ender, nowPlaying>>

\* The viewer keeps the key and has nothing in the queue.
PushFails(a) ==
    /\ Adding(a, "push")
    /\ adder' = [adder EXCEPT ![a] = NoAdd]
    /\ UNCHANGED <<queue, rateKey, plays, ender, nowPlaying>>

\* Mutant: the key may expire while the add is under way.
RateKeyExpiresEarly(ip) ==
    /\ ip \in rateKey
    /\ rateKey' = rateKey \ {ip}
    /\ UNCHANGED <<queue, adder, plays, ender, nowPlaying>>

\* Thirty seconds: longer than the calls of one add.
RateKeyExpires(ip) ==
    /\ ip \in rateKey
    /\ \A a \in Adders : IpOf[a] = ip => adder[a].pc \notin {"scan", "push"}
    /\ rateKey' = rateKey \ {ip}
    /\ UNCHANGED <<queue, adder, plays, ender, nowPlaying>>

-----------------------------------------------------------------------------
(* The streamer.                                                           *)

\* The first entry with the track, by value: nothing when it was popped between.
removeFromQueue(t) ==
    /\ QueuedTrack(t) # {}
    /\ \E i \in QueuedTrack(t) :
         /\ \A j \in QueuedTrack(t) : i <= j
         /\ queue' = SubSeq(queue, 1, i - 1) \o SubSeq(queue, i + 1, Len(queue))
    /\ UNCHANGED <<rateKey, adder, plays, ender, nowPlaying>>

clearQueue ==
    /\ queue' = <<>>
    /\ UNCHANGED <<rateKey, adder, plays, ender, nowPlaying>>

\* play_audio: every overlay starts it, then the key is written.
PlayAudio(t) ==
    /\ plays' = [o \in Overlays |-> t]
    /\ nowPlaying' = t
    /\ UNCHANGED <<queue, rateKey, adder, ender>>

StopAudio ==
    /\ plays' = [o \in Overlays |-> "none"]
    /\ nowPlaying' = "none"
    /\ UNCHANGED <<queue, rateKey, adder, ender>>

-----------------------------------------------------------------------------
(* audio:ended, sent by every overlay that played the sound.               *)

AudioEnded(o) ==
    /\ plays[o] # "none" /\ Ending(o, "idle")
    /\ plays' = [plays EXCEPT ![o] = "none"]
    /\ nowPlaying' = "none"
    /\ ender' = [ender EXCEPT ![o].pc = "pop"]
    /\ UNCHANGED <<queue, rateKey, adder>>

popNext(o) ==
    /\ Ending(o, "pop")
    /\ IF queue = <<>> THEN ender' = [ender EXCEPT ![o] = NoEnd] /\ UNCHANGED queue
       ELSE /\ ender' = [ender EXCEPT ![o] = [pc |-> "resolve", track |-> Head(queue).track]]
            /\ queue' = Tail(queue)
    /\ UNCHANGED <<rateKey, adder, plays, nowPlaying>>

resolveTrackForPlay(o) ==
    /\ Ending(o, "resolve")
    /\ plays' = [v \in Overlays |-> ender[o].track]
    /\ ender' = [ender EXCEPT ![o].pc = "note"]
    /\ UNCHANGED <<queue, rateKey, adder, nowPlaying>>

NoteNowPlaying(o) ==
    /\ Ending(o, "note")
    /\ nowPlaying' = ender[o].track
    /\ ender' = [ender EXCEPT ![o] = NoEnd]
    /\ UNCHANGED <<queue, rateKey, adder, plays>>

\* A call fails, or the track has been deleted: the chain ends.  (A failed pop is an
\* empty queue.)
EndFails(o) ==
    /\ ~Ending(o, "idle")
    /\ ender' = [ender EXCEPT ![o] = NoEnd]
    /\ UNCHANGED <<queue, rateKey, adder, plays, nowPlaying>>

SoundNext ==
    \/ \E a \in Adders : \/ \E t \in Tracks : Admit(a, t)
                         \/ Refuse(a) \/ Accept(a) \/ AcceptUnread(a)
                         \/ Push(a) \/ PushFails(a)
    \/ \E ip \in Ips : RateKeyExpires(ip)
    \/ \E t \in Tracks : removeFromQueue(t) \/ PlayAudio(t)
    \/ \E o \in Overlays : \/ AudioEnded(o) \/ popNext(o)
                           \/ resolveTrackForPlay(o) \/ NoteNowPlaying(o) \/ EndFails(o)
    \/ clearQueue \/ StopAudio

SoundSpec == SoundInit /\ [][SoundNext]_soundVars

-----------------------------------------------------------------------------

\* An address adds one track at a time, whatever it sees of the queue, and the
\* cap holds, but for what failed reads let in, although the queue is read before
\* it is appended to: the key keeps the two calls of an address together.
CapPerAddress == \A ip \in Ips :
    /\ Cardinality({a \in Pushing : IpOf[a] = ip}) <= 1
    /\ Cardinality(InSight \cap QueuedFrom(ip)) + Cardinality({a \in Seeing : IpOf[a] = ip})
         <= MaxSimult

\* The length may be passed, by as many adds as there are addresses at most: those
\* that were let in together.  What failed reads let in is not counted.
LengthIsBounded == Cardinality(InSight) + Cardinality(Seeing) < MaxQueue + Cardinality(Ips)

\* A track is in the queue once, but for the adds that looked for it while another
\* of it was on its way, and those that should have seen it and could not look.
OncePerTrack == \A t \in Tracks :
    Cardinality({i \in QueuedTrack(t) : queue[i].sight = "alone"})
      + Cardinality({a \in Pushing : adder[a].track = t /\ adder[a].sight = "alone"}) <= 1

\* What of its rules the queue keeps under any overlap of adds, but for those that
\* it would have refused: a read that fails counts as an empty queue.
QueueWithinLimits == CapPerAddress /\ LengthIsBounded /\ OncePerTrack

\* "Dedup global, max queue 50" (routes/streamer.ts).
QueueKeepsItsRules ==
    Len(queue) <= MaxQueue /\ \A t \in Tracks : Cardinality(QueuedTrack(t)) <= 1

\* The public page shows what the overlays play, when nothing is under way.
PageShowsWhatPlays ==
    (\A o \in Overlays : Ending(o, "idle")) => \A o \in Overlays : plays[o] \in {nowPlaying, "none"}

=============================================================================
