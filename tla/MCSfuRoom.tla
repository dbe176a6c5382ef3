----------------------------- MODULE MCSfuRoom ------------------------------
(* Small SFU rooms for TLC. *)
EXTENDS SfuRoom, TLC

CONSTANTS ann, bob, cat, t1, t2

TwoPeople == {ann, bob}
ThreePeople == {ann, bob, cat}
Symmetric == Permutations(Participants) \cup Permutations(Tasks)

RosterOps == {"join", "leave"}
FlowOps == {"join", "leave", "publish", "unpublish", "subscribe"}

=============================================================================
