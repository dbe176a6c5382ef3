---------------------------- MODULE MCVoiceClient ----------------------------
(***************************************************************************)
(* A small channel for TLC, in two parts that share VoiceRoom: its whole   *)
(* next-state relation for four sockets, and the pages of three of them.   *)
(***************************************************************************)
EXTENDS VoiceClient, TLC

CONSTANTS a, b, c, d

\* One tab each: a socket stands for its account.
Tabs == {a, b, c, d}
OwnTab == [s \in Tabs |-> s]
Moderator == {a}
ThreePages == {b, c, d}
TwoPages == {b, c}

Symmetric == Permutations(Tabs \ Moderator)

VARIABLE part

SteadyInit == CallInit /\ part \in {"room", "pages"}

SteadyNext ==
    \/ part = "room" /\ Next /\ UNCHANGED <<part, clientVars>>
    \/ part = "pages" /\ CallNext /\ UNCHANGED part

SteadySpec == SteadyInit /\ [][SteadyNext]_<<part, callVars>>

\* Once nothing is under way the members of the channel are in one call.
CallsAreWhole == part = "pages" => CallIsWhole

=============================================================================
