------------------------------ MODULE ChatQueue -------------------------------
(***************************************************************************)
(* Messages on their way to Twitch: relayMessageToTwitch and the worker of *)
(* core/services/streamer/chatOutboundQueue.ts.                            *)
(*                                                                         *)
(* The worker starts a pass every two seconds whether the last one has     *)
(* ended or not.  A pass reads the due members of a sorted set, removes    *)
(* them in a second call, and then sends one after the other.  Which       *)
(* member is due, and when one is too old, is up to the clock.             *)
(***************************************************************************)
EXTENDS Naturals, FiniteSets

CONSTANTS
    Messages,
    Passes,     \* passes of the worker under way at a time
    BatchSize,
    MaxAttempts,
    MaxOutages  \* bound: crashes and failures of Redis

ASSUME ChatAssumption == {BatchSize, MaxAttempts, MaxOutages} \subseteq Nat

VARIABLES
    outbox,     \* the sorted set: <<message, attempts>>
    direct,     \* messages in their first dispatch
    pass,       \* the passes of the worker
    sent,       \* how often Twitch has taken each message
    settled,    \* sent, or given up with a trace in the audit log
    doubtful,   \* history: read by two passes at once, or sent with the answer lost
    inHand,     \* history: held by a pass when it died
    outages

chatVars == <<outbox, direct, pass, sent, settled, doubtful, inHand, outages>>

Entries == Messages \X (0 .. MaxAttempts)
IdlePass == [pc |-> "idle", batch |-> {}]

ChatTypeOK ==
    /\ outbox \subseteq Entries
    /\ direct \subseteq Messages
    /\ pass \in [Passes -> [pc : {"idle", "read", "work"}, batch : SUBSET Entries]]
    /\ {settled, doubtful, inHand} \subseteq SUBSET Messages
    /\ sent \in [Messages -> Nat]
    /\ outages \in 0 .. MaxOutages

ChatInit ==
    /\ outbox = {}
    /\ direct = {}
    /\ pass = [w \in Passes |-> IdlePass]
    /\ sent = [m \in Messages |-> 0]
    /\ settled = {}
    /\ doubtful = {}
    /\ inHand = {}
    /\ outages = 0

-----------------------------------------------------------------------------

Held(w) == {e[1] : e \in pass[w].batch}
Queued == {e[1] : e \in outbox}
Removed == UNION {Held(w) : w \in {v \in Passes : pass[v].pc = "work"}}
Open == Queued \cup Removed
Seen == direct \cup Open \cup settled \cup inHand

\* Mutant: the message stays in the batch.
Next1Again(w, e) == pass' = [pass EXCEPT ![w].pc = "work"]

\* One message of the batch is done with.
Next1(w, e) == pass' = [pass EXCEPT ![w] =
    IF @.batch = {e} THEN IdlePass ELSE [pc |-> "work", batch |-> @.batch \ {e}]]

-----------------------------------------------------------------------------
(* relayMessageToTwitch.                                                   *)

Relay(m) ==
    /\ m \notin Seen
    /\ direct' = direct \cup {m}
    /\ UNCHANGED <<outbox, pass, sent, settled, doubtful, inHand, outages>>

\* Sent, refused for good, or an exception the caller sees.
DirectEnds(m) ==
    /\ m \in direct
    /\ direct' = direct \ {m}
    /\ settled' = settled \cup {m}
    /\ sent' \in {sent, [sent EXCEPT ![m] = @ + 1]}
    /\ UNCHANGED <<outbox, pass, doubtful, inHand, outages>>

\* 429: enqueueOutbound.
Enqueue(m) ==
    /\ m \in direct
    /\ direct' = direct \ {m}
    /\ outbox' = outbox \cup {<<m, 0>>}
    /\ UNCHANGED <<pass, sent, settled, doubtful, inHand, outages>>

-----------------------------------------------------------------------------
(* A pass: popDueMessages, then the loop of tick.                          *)

ReadDue(w, due) ==
    /\ pass[w].pc = "idle"
    /\ due \subseteq outbox /\ due # {} /\ Cardinality(due) <= BatchSize
    /\ pass' = [pass EXCEPT ![w] = [pc |-> "read", batch |-> due]]
    /\ doubtful' = doubtful \cup
         {e[1] : e \in due \cap UNION {pass[v].batch : v \in Passes}}
    /\ UNCHANGED <<outbox, direct, sent, settled, inHand, outages>>

RemoveDue(w) ==
    /\ pass[w].pc = "read"
    /\ outbox' = outbox \ pass[w].batch
    /\ pass' = [pass EXCEPT ![w].pc = "work"]
    /\ UNCHANGED <<direct, sent, settled, doubtful, inHand, outages>>

Drop(w, e) ==
    /\ settled' = settled \cup {e[1]}
    /\ Next1(w, e)
    /\ UNCHANGED <<outbox, direct, sent, doubtful, inHand, outages>>

\* Past expiresAt, or MAX_ATTEMPTS reached.
GiveUp(w, e) ==
    /\ pass[w].pc = "work" /\ e \in pass[w].batch
    /\ Drop(w, e)

\* Mutant: the number of attempts is not looked at.
SendingForEver(w, e) == pass[w].pc = "work" /\ e \in pass[w].batch

\* One dispatch, with its outcome; the loop waits for it.
Sending(w, e) ==
    /\ pass[w].pc = "work" /\ e \in pass[w].batch
    /\ e[2] < MaxAttempts

Sent(w, e) ==
    /\ Sending(w, e)
    /\ sent' = [sent EXCEPT ![e[1]] = @ + 1]
    /\ settled' = settled \cup {e[1]}
    /\ Next1(w, e)
    /\ UNCHANGED <<outbox, direct, doubtful, inHand, outages>>

\* No streamer, offline, or an error of Twitch.
Refused(w, e) == Sending(w, e) /\ Drop(w, e)

\* Mutant: the retry is not counted.
RescheduleUncounted(w, e) ==
    /\ \/ settled' = settled \cup {e[1]} /\ UNCHANGED outbox
       \/ outbox' = outbox \cup {e} /\ UNCHANGED settled
    /\ Next1(w, e)
    /\ UNCHANGED <<direct, inHand, outages>>

\* rescheduleOutbound: one attempt more, or a drop when the retry would come
\* after expiresAt.
Reschedule(w, e) ==
    /\ \/ settled' = settled \cup {e[1]} /\ UNCHANGED outbox
       \/ outbox' = outbox \cup {<<e[1], e[2] + 1>>} /\ UNCHANGED settled
    /\ Next1(w, e)
    /\ UNCHANGED <<direct, inHand, outages>>

RateLimited(w, e) ==
    /\ Sending(w, e)
    /\ Reschedule(w, e)
    /\ UNCHANGED <<sent, doubtful>>

\* The call throws; Twitch may have taken the message.
Throws(w, e) ==
    /\ Sending(w, e)
    /\ Reschedule(w, e)
    /\ \/ UNCHANGED <<sent, doubtful>>
       \/ sent' = [sent EXCEPT ![e[1]] = @ + 1] /\ doubtful' = doubtful \cup {e[1]}

-----------------------------------------------------------------------------
(* Failures.                                                               *)

\* A call to Redis fails in the loop: the pass ends, its batch is removed.
PassDies(w) ==
    /\ pass[w].pc # "idle"
    /\ outages < MaxOutages
    /\ outages' = outages + 1
    /\ inHand' = inHand \cup (IF pass[w].pc = "read" THEN {} ELSE Held(w))
    /\ pass' = [pass EXCEPT ![w] = IdlePass]
    /\ UNCHANGED <<outbox, direct, sent, settled, doubtful>>

Crash ==
    /\ outages < MaxOutages
    /\ outages' = outages + 1
    /\ inHand' = inHand \cup Removed \cup direct
    /\ pass' = [w \in Passes |-> IdlePass]
    /\ direct' = {}
    /\ UNCHANGED <<outbox, sent, settled, doubtful>>

-----------------------------------------------------------------------------

Work(w) ==
    \/ \E due \in SUBSET outbox : ReadDue(w, due)
    \/ RemoveDue(w)
    \/ \E e \in pass[w].batch : GiveUp(w, e) \/ Sent(w, e) \/ Refused(w, e)
                                \/ RateLimited(w, e) \/ Throws(w, e)

ChatNext ==
    \/ \E m \in Messages : Relay(m) \/ DirectEnds(m) \/ Enqueue(m)
    \/ \E w \in Passes : Work(w) \/ PassDies(w)
    \/ Crash

ChatSpec == ChatInit /\ [][ChatNext]_chatVars

\* setInterval, and the end of every call.
ChatFairness ==
    /\ \A m \in Messages : WF_chatVars(DirectEnds(m) \/ Enqueue(m))
    /\ \A w \in Passes : WF_chatVars(Work(w))

FairChat == ChatSpec /\ ChatFairness

-----------------------------------------------------------------------------

\* Nobody reads a message twice on Twitch, whatever passes overlap, unless two
\* of them read it before either removed it, or Twitch's answer was lost.
SentOnce == \A m \in Messages \ doubtful : sent[m] <= 1

\* "Without losing messages silently" (chatOutboundQueue.ts): a message that
\* was rate limited is in the queue, in the hands of a pass, sent or dropped
\* with a trace, unless a pass died with it.
NothingLost == \A m \in inHand : m \in settled \cup Open

\* Every message is decided on in the end: retries and overlapping passes never
\* keep one in circulation.
MessagesSettle == \A m \in Messages : <>[](m \notin direct \cup Open)

=============================================================================
