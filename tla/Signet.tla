-------------------------------- MODULE Signet --------------------------------
(***************************************************************************)
(* Sign-in with a device instead of a password:                            *)
(* core/routes/authenticator.ts.                                           *)
(*                                                                         *)
(* A browser creates a challenge and polls it; a device signs it, or       *)
(* refuses it.  An approval reads the challenge, opens a session and only  *)
(* then writes the challenge, each in a call of its own.  A device this    *)
(* instance has never seen gets an account made for it on the way.         *)
(* What a session is known by is a signature of the account and the second *)
(* it is made in.  Keys, addresses and rate limits are left out.           *)
(***************************************************************************)
EXTENDS Naturals, FiniteSets

CONSTANTS
    Devices,        \* ids a device derives for this instance, always the same one
    Users,          \* accounts of people who registered
    Challenges,
    Requests,       \* approvals and registrations, each made once
    MaxCrashes      \* bound: crashes in the middle of the requests

ASSUME SignetAssumption ==
    /\ MaxCrashes \in Nat
    /\ IsFiniteSet(Requests) /\ IsFiniteSet(Challenges)
    /\ Users \cap Devices = {} /\ "none" \notin Devices \cup Users

VARIABLES
    owner,      \* authenticator_devices: the account of each device
    made,       \* how many accounts were made for each device
    chal,       \* authenticator_challenges
    req,        \* the requests under way
    polling,    \* polls that read an aged challenge as pending
    signed,     \* sessionToken of each request; history: kept when it is over
    handed,     \* how often polls were answered with each token
    posted,     \* history: cross approvals answered with their token
    removed,    \* history: devices that were removed
    crashes

signetVars == <<owner, made, chal, req, polling, signed, handed, posted, removed,
                crashes>>

\* An account is a user, or named after the device it was made for.
Accounts == Users \cup Devices

\* iat: a second is named after the first request that signs in it.
Tokens == Accounts \X Requests
NoToken == <<"none", "none">>
Decided == {"approved", "rejected", "expired"}
NewRequest == [pc |-> "new", chal |-> "none", dev |-> "none", account |-> "none", route |-> "none"]
Done == [NewRequest EXCEPT !.pc = "done"]

SignetTypeOK ==
    /\ owner \in [Devices -> Accounts \cup {"none"}]
    /\ made \in [Devices -> Nat]
    /\ chal \in [Challenges -> [status : Decided \cup {"none", "pending"},
         dev : Devices \cup {"none"}, aged : BOOLEAN, session : Tokens \cup {NoToken}]]
    /\ req \in [Requests -> [pc : {"new", "stranger", "orphan", "known", "session", "enrolled", "done"},
         chal : Challenges \cup {"none"}, dev : Devices \cup {"none"},
         account : Accounts \cup {"none"}, route : {"none", "own", "cross"}]]
    /\ polling \subseteq Challenges
    /\ signed \in [Requests -> Tokens \cup {NoToken}]
    /\ handed \in [Tokens -> Nat]
    /\ posted \subseteq Requests
    /\ removed \subseteq Devices
    /\ crashes \in 0 .. MaxCrashes

SignetInit ==
    /\ owner = [d \in Devices |-> "none"]
    /\ made = [d \in Devices |-> 0]
    /\ chal = [c \in Challenges |->
         [status |-> "none", dev |-> "none", aged |-> FALSE, session |-> NoToken]]
    /\ req = [r \in Requests |-> NewRequest]
    /\ polling = {}
    /\ signed = [r \in Requests |-> NoToken]
    /\ handed = [t \in Tokens |-> 0]
    /\ posted = {}
    /\ removed = {}
    /\ crashes = 0

Acceptable(c) == chal[c].status = "pending" /\ ~chal[c].aged
Known(d) == owner[d] # "none"
Step(r, to) == req' = [req EXCEPT ![r] = to]
Status(c, s) == chal' = [chal EXCEPT ![c].status = s]

-----------------------------------------------------------------------------
(* Devices.                                                                *)

\* devices/register, up to the token: consumed in one statement.
UseEnrollmentToken(r, d, u) ==
    /\ req[r].pc = "new"
    /\ Step(r, [pc |-> "enrolled", chal |-> "none", dev |-> d, account |-> u, route |-> "none"])
    /\ UNCHANGED <<owner, made, chal, polling, signed, handed, posted, removed, crashes>>

\* Mutant: ON CONFLICT updates whoever's device it finds.
RegisterDeviceAnyway(r) ==
    /\ req[r].pc = "enrolled"
    /\ owner' = [owner EXCEPT ![req[r].dev] = req[r].account]
    /\ Step(r, Done)
    /\ UNCHANGED <<made, chal, polling, signed, handed, posted, removed, crashes>>

\* INSERT ... ON CONFLICT ... WHERE user_id = EXCLUDED.user_id.
RegisterDevice(r) ==
    LET d == req[r].dev IN
    /\ req[r].pc = "enrolled"
    /\ owner' = IF owner[d] \in {"none", req[r].account}
                THEN [owner EXCEPT ![d] = req[r].account] ELSE owner
    /\ Step(r, Done)
    /\ UNCHANGED <<made, chal, polling, signed, handed, posted, removed, crashes>>

\* By the device itself or by its owner; its challenges lose their device.
RemoveDevice(d) ==
    /\ Known(d)
    /\ owner' = [owner EXCEPT ![d] = "none"]
    /\ chal' = [c \in Challenges |->
         IF chal[c].dev = d THEN [chal[c] EXCEPT !.dev = "none"] ELSE chal[c]]
    /\ removed' = removed \cup {d}
    /\ UNCHANGED <<made, req, polling, signed, handed, posted, crashes>>

-----------------------------------------------------------------------------
(* Challenges.                                                             *)

\* For a known device, or open to any.
CreateChallenge(c, d) ==
    /\ chal[c].status = "none"
    /\ d # "none" => Known(d)
    /\ chal' = [chal EXCEPT ![c].status = "pending", ![c].dev = d]
    /\ UNCHANGED <<owner, made, req, polling, signed, handed, posted, removed, crashes>>

\* Ninety seconds.
ChallengeAges(c) ==
    /\ chal[c].status # "none" /\ ~chal[c].aged
    /\ chal' = [chal EXCEPT ![c].aged = TRUE]
    /\ UNCHANGED <<owner, made, req, polling, signed, handed, posted, removed, crashes>>

\* challenges/pending sweeps whatever is too old.
Sweep ==
    /\ chal' = [c \in Challenges |->
         IF chal[c].status = "pending" /\ chal[c].aged
         THEN [chal[c] EXCEPT !.status = "expired"] ELSE chal[c]]
    /\ UNCHANGED <<owner, made, req, polling, signed, handed, posted, removed, crashes>>

Approve(r, c, d) ==
    /\ req[r].pc = "new" /\ Known(d)
    /\ Acceptable(c) /\ chal[c].dev = d
    /\ Step(r, [pc |-> "known", chal |-> c, dev |-> d, account |-> owner[d], route |-> "own"])
    /\ UNCHANGED <<owner, made, chal, polling, signed, handed, posted, removed, crashes>>

ApproveCross(r, c, d) ==
    /\ req[r].pc = "new"
    /\ Acceptable(c) /\ chal[c].dev = "none"
    /\ Step(r, IF Known(d)
               THEN [pc |-> "known", chal |-> c, dev |-> d, account |-> owner[d], route |-> "cross"]
               ELSE [pc |-> "stranger", chal |-> c, dev |-> d, account |-> "none", route |-> "cross"])
    /\ UNCHANGED <<owner, made, chal, polling, signed, handed, posted, removed, crashes>>

\* INSERT INTO users: the address is derived from the device and is unique.
MakeAccount(r) ==
    LET d == req[r].dev IN
    /\ req[r].pc = "stranger"
    /\ IF made[d] = 0
       THEN /\ made' = [made EXCEPT ![d] = @ + 1]
            /\ Step(r, [req[r] EXCEPT !.pc = "orphan", !.account = d])
       ELSE Step(r, Done) /\ UNCHANGED made
    /\ UNCHANGED <<owner, chal, polling, signed, handed, posted, removed, crashes>>

\* INSERT INTO authenticator_devices: fails when the id is taken.
MakeDevice(r) ==
    LET d == req[r].dev IN
    /\ req[r].pc = "orphan"
    /\ IF Known(d) THEN Step(r, Done) /\ UNCHANGED owner
       ELSE /\ owner' = [owner EXCEPT ![d] = req[r].account]
            /\ Step(r, [req[r] EXCEPT !.pc = "known"])
    /\ UNCHANGED <<made, chal, polling, signed, handed, posted, removed, crashes>>

\* signToken has no nonce: two sessions of one account made in one second are
\* one token.  The second is another one's, or nobody's yet.
OpenSession(r, s) ==
    /\ req[r].pc = "known"
    /\ s = r \/ \E q \in Requests : signed[q] # NoToken /\ signed[q][2] = s
    /\ signed' = [signed EXCEPT ![r] = <<req[r].account, s>>]
    /\ Step(r, [req[r] EXCEPT !.pc = "session"])
    /\ UNCHANGED <<owner, made, chal, polling, handed, posted, removed, crashes>>

\* The UPDATE names the challenge by its id alone.  A cross approval is answered
\* with the token too.
MarkApproved(r) ==
    /\ req[r].pc = "session"
    /\ chal' = [chal EXCEPT ![req[r].chal].status = "approved", ![req[r].chal].session = signed[r]]
    /\ posted' = IF req[r].route = "cross" THEN posted \cup {r} ELSE posted
    /\ Step(r, Done)
    /\ UNCHANGED <<owner, made, polling, signed, handed, removed, crashes>>

Reject(c, d) ==
    /\ Known(d)
    /\ chal[c].dev = d /\ chal[c].status = "pending"
    /\ Status(c, "rejected")
    /\ UNCHANGED <<owner, made, req, polling, signed, handed, posted, removed, crashes>>

\* challenges/status.
PollAged(c) ==
    /\ chal[c].status = "pending" /\ chal[c].aged /\ c \notin polling
    /\ polling' = polling \cup {c}
    /\ UNCHANGED <<owner, made, chal, req, signed, handed, posted, removed, crashes>>

PollExpires(c) ==
    /\ c \in polling
    /\ polling' = polling \ {c}
    /\ Status(c, "expired")
    /\ UNCHANGED <<owner, made, req, signed, handed, posted, removed, crashes>>

\* Mutant: the session stays in the challenge.
PollTakesAgain(c) ==
    /\ chal[c].status = "approved" /\ chal[c].session # NoToken
    /\ handed' = [handed EXCEPT ![chal[c].session] = @ + 1]
    /\ UNCHANGED <<owner, made, chal, req, polling, signed, posted, removed, crashes>>

PollTakes(c) ==
    /\ chal[c].status = "approved" /\ chal[c].session # NoToken
    /\ chal' = [chal EXCEPT ![c].session = NoToken]
    /\ handed' = [handed EXCEPT ![chal[c].session] = @ + 1]
    /\ UNCHANGED <<owner, made, req, polling, signed, posted, removed, crashes>>

SignetCrash ==
    /\ crashes < MaxCrashes
    /\ crashes' = crashes + 1
    /\ req' = [r \in Requests |-> IF req[r].pc = "new" THEN NewRequest ELSE Done]
    /\ polling' = {}
    /\ UNCHANGED <<owner, made, chal, signed, handed, posted, removed>>

SignetNext ==
    \/ \E r \in Requests :
         \/ RegisterDevice(r) \/ MakeAccount(r) \/ MakeDevice(r)
         \/ MarkApproved(r) \/ \E s \in Requests : OpenSession(r, s)
         \/ \E d \in Devices : \/ \E u \in Users : UseEnrollmentToken(r, d, u)
                               \/ \E c \in Challenges : Approve(r, c, d) \/ ApproveCross(r, c, d)
    \/ \E c \in Challenges :
         \/ \E d \in Devices \cup {"none"} : CreateChallenge(c, d)
         \/ \E d \in Devices : Reject(c, d)
         \/ ChallengeAges(c) \/ PollAged(c) \/ PollExpires(c) \/ PollTakes(c)
    \/ \E d \in Devices : RemoveDevice(d)
    \/ Sweep
    \/ SignetCrash

SignetSpec == SignetInit /\ [][SignetNext]_signetVars

-----------------------------------------------------------------------------

Signers(t) == {r \in Requests : signed[r] = t}
Holding(t) == {c \in Challenges : chal[c].session = t}

\* A token is polled at most as often as it was signed, whatever approvals
\* overwrite each other and however often the browsers poll: what was polled and
\* what still can be are together no more than the approvals that made it.
TokensAreCounted == \A t \in Tokens :
    handed[t] + Cardinality(Holding(t)) <= Cardinality(Signers(t))

\* A device gets at most one account, and has it at hand as long as it was not
\* removed and no request was cut short.
OneAccountPerDevice == \A d \in Devices :
    /\ made[d] <= 1
    /\ made[d] = 1 => \/ Known(d) \/ d \in removed \/ crashes > 0
                      \/ \E r \in Requests : req[r].pc = "orphan" /\ req[r].dev = d

\* What a sign-in gives is counted on each side: one account for a device, one
\* poll for an approval.
SignInsAreCounted == TokensAreCounted /\ OneAccountPerDevice

\* Only a removal takes a device from its account: neither a registration with
\* the same id nor an approval under way moves it to another one.
OwnerStands(d) == Known(d) => owner'[d] \in {owner[d], "none"}

\* Nothing changes a decision on a challenge, except a request or a poll that
\* had read it as pending.
DecisionStands(c) ==
    \/ chal[c].status \notin Decided
    \/ chal'[c].status = chal[c].status
    \/ c \in polling
    \/ \E r \in Requests : req[r].pc = "session" /\ req[r].chal = c

\* What a request or a poll finds written it leaves alone, unless it had read
\* something older.
WhatIsWrittenStands ==
    [][(\A d \in Devices : OwnerStands(d)) /\ (\A c \in Challenges : DecisionStands(c))]_signetVars

\* A challenge that was refused is never approved.
RejectionIsFinal ==
    [][\A c \in Challenges : chal[c].status = "rejected" => chal'[c].status = "rejected"]_signetVars

\* A device that was removed can sign in again with the same seed.
DeviceCanReturn == \A d \in Devices :
    made[d] = 1 => Known(d) \/ \E r \in Requests : req[r].pc = "orphan" /\ req[r].dev = d

\* A token is what one poll was answered with.
TokenPolledOnce == \A t \in Tokens : handed[t] <= 1

\* Whoever approves is not told the token the browser waits for.
OnlyThePollIsTold == \A r \in posted : signed[r] \notin {chal[c].session : c \in Challenges}

=============================================================================
