---------------------------- MODULE MCSfuSession ----------------------------
(* One account with two connections, for TLC: two pages, or one page that   *)
(* may reconnect.                                                            *)
EXTENDS SfuSession

CONSTANTS a1, a2, A

TabSockets == {a1, a2}
SpareTab == {a2}
AllUsers == {A}
TabOwners == [s \in TabSockets |-> A]

=============================================================================
