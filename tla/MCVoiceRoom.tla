---------------------------- MODULE MCVoiceRoom -----------------------------
(* Small channels for TLC: who owns which socket, and who moderates. *)
EXTENDS VoiceRoom, TLC

CONSTANTS a1, a2, b, c, A, B, C

\* Two tabs of one account, and two other people.
TabSockets == {a1, a2, b, c}
TabUsers == {A, B, C}
TabOwner == (a1 :> A) @@ (a2 :> A) @@ (b :> B) @@ (c :> C)
TabModerators == {b}

\* Two accounts, one of them with two tabs, for the violations.
PairSockets == {a1, a2, b}
PairUsers == {A, B}
PairOwner == (a1 :> A) @@ (a2 :> A) @@ (b :> B)
NoModerator == {}

=============================================================================
