------------------------------ MODULE SfuRoster ------------------------------
(***************************************************************************)
(* What VoiceService (nodyx-sfu/src/voice.rs) promises to the people of a  *)
(* room, with no engine and no locks: each request takes effect at once.   *)
(* SfuRoom shows which hypotheses the source needs to keep the promise.    *)
(***************************************************************************)
EXTENDS Integers, FiniteSets

CONSTANTS
    Participants,
    Flows,      \* publications there may be
    Owner,      \* the participant each of them is from
    MaxSeats

VARIABLES
    members,
    sfu,        \* the room has left the mesh
    wired,      \* members with transports on the router
    flows,      \* what the room offers
    heard       \* <<p, f>>: p receives f

vars == <<members, sfu, wired, flows, heard>>

RosterTypeOK ==
    /\ members \subseteq Participants
    /\ sfu \in BOOLEAN
    /\ wired \subseteq Participants
    /\ flows \subseteq Flows
    /\ heard \subseteq Participants \X Flows

Init ==
    /\ members = {}
    /\ sfu = FALSE
    /\ wired = {}
    /\ flows = {}
    /\ heard = {}

OwnedBy(p) == {f \in flows : Owner[f] = p}

Join(p) ==
    /\ p \notin members
    /\ Cardinality(members) < MaxSeats
    /\ members' = members \cup {p}
    /\ UNCHANGED <<sfu, wired, flows, heard>>

\* Nothing of the participant outlives its stay, and the last one out takes
\* the room along.
Leave(p) ==
    /\ p \in members
    /\ members' = members \ {p}
    /\ sfu' = (sfu /\ members # {p})
    /\ wired' = wired \ {p}
    /\ flows' = flows \ OwnedBy(p)
    /\ heard' = {h \in heard : h[1] # p /\ h[2] \notin OwnedBy(p)}

\* Everybody moves together.
Migrate ==
    /\ members # {}
    /\ sfu' = TRUE
    /\ wired' = members
    /\ UNCHANGED <<members, flows, heard>>

Publish(f) ==
    /\ Owner[f] \in wired
    /\ f \notin flows
    /\ flows' = flows \cup {f}
    /\ UNCHANGED <<members, sfu, wired, heard>>

Withdraw(f) ==
    /\ f \in flows
    /\ flows' = flows \ {f}
    /\ heard' = {h \in heard : h[2] # f}
    /\ UNCHANGED <<members, sfu, wired>>

Subscribe(p, f) ==
    /\ p \in wired
    /\ f \in flows
    /\ heard' = heard \cup {<<p, f>>}
    /\ UNCHANGED <<members, sfu, wired, flows>>

Next ==
    \/ \E p \in Participants : Join(p) \/ Leave(p)
    \/ Migrate
    \/ \E f \in Flows : Publish(f) \/ Withdraw(f)
    \/ \E p \in Participants, f \in Flows : Subscribe(p, f)

Spec == Init /\ [][Next]_vars

-----------------------------------------------------------------------------

\* Whatever the room offers comes from a member with transports, whoever
\* receives a flow has transports too and the flow is still offered, and only
\* members of a room in SFU have transports.
NoGhosts ==
    /\ \A f \in flows : Owner[f] \in wired
    /\ \A h \in heard : h[1] \in wired /\ h[2] \in flows
    /\ wired \subseteq members
    /\ wired # {} => sfu

SeatsKept == IsFiniteSet(members) /\ Cardinality(members) <= MaxSeats

\* A room stays in SFU until its last member leaves.
StaysInSfu == [][sfu /\ members' # {} => sfu']_vars

=============================================================================
