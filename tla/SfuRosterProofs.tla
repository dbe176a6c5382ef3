-------------------------- MODULE SfuRosterProofs ---------------------------
(***************************************************************************)
(* What the roster of a room guarantees, for every set of participants,    *)
(* every number of flows and seats.  SfuRoom implements the roster when    *)
(* the requests of a room are serialized (ImplementsRoster), so the room   *)
(* guarantees it then.                                                     *)
(***************************************************************************)
EXTENDS SfuRoster, FiniteSetTheorems, TLAPS

IInv == RosterTypeOK /\ NoGhosts

\* The roster keeps its type and never shows the flow of someone who left.
THEOREM RosterHasNoGhosts ==
    ASSUME Owner \in [Flows -> Participants]
    PROVE  Spec => [](RosterTypeOK /\ NoGhosts)
<1>1. Init => IInv
  BY DEF Init, IInv, RosterTypeOK, NoGhosts
<1>2. IInv /\ [Next]_vars => IInv'
  <2> SUFFICES ASSUME IInv, [Next]_vars PROVE IInv'
    OBVIOUS
  <2> USE DEF IInv, RosterTypeOK, NoGhosts
  <2>1. ASSUME NEW p \in Participants, Join(p) PROVE IInv'
    BY <2>1 DEF Join
  <2>2. ASSUME NEW p \in Participants, Leave(p) PROVE IInv'
    <3>1. RosterTypeOK'
      BY <2>2 DEF Leave
    <3>2. wired' \subseteq members'
      BY <2>2 DEF Leave
    <3>3. wired' # {} => sfu'
      BY <2>2 DEF Leave
    <3>4. \A f \in flows' : Owner[f] \in wired'
      BY <2>2 DEF Leave, OwnedBy
    <3>5. \A h \in heard' : h[1] \in wired' /\ h[2] \in flows'
      BY <2>2 DEF Leave, OwnedBy
    <3>6. QED
      BY <3>1, <3>2, <3>3, <3>4, <3>5
  <2>3. CASE Migrate
    BY <2>3 DEF Migrate
  <2>4. ASSUME NEW f \in Flows, Publish(f) PROVE IInv'
    BY <2>4 DEF Publish
  <2>5. ASSUME NEW f \in Flows, Withdraw(f) PROVE IInv'
    BY <2>5 DEF Withdraw
  <2>6. ASSUME NEW p \in Participants, NEW f \in Flows, Subscribe(p, f) PROVE IInv'
    BY <2>6 DEF Subscribe
  <2>7. CASE UNCHANGED vars
    BY <2>7 DEF vars
  <2>8. QED
    BY <2>1, <2>2, <2>3, <2>4, <2>5, <2>6, <2>7 DEF Next
<1>3. QED
  BY <1>1, <1>2, PTL DEF Spec, IInv

\* The seats are never exceeded.
THEOREM RosterKeepsSeats ==
    ASSUME MaxSeats \in Nat
    PROVE  Spec => []SeatsKept
<1>1. Init => SeatsKept
  BY FS_EmptySet DEF Init, SeatsKept
<1>2. SeatsKept /\ [Next]_vars => SeatsKept'
  <2> SUFFICES ASSUME SeatsKept, [Next]_vars PROVE SeatsKept'
    OBVIOUS
  <2>1. ASSUME NEW p \in Participants, Join(p) PROVE SeatsKept'
    <3>1. /\ IsFiniteSet(members \cup {p})
          /\ Cardinality(members \cup {p}) = Cardinality(members) + 1
      BY <2>1, FS_AddElement DEF Join, SeatsKept
    <3>2. Cardinality(members) \in Nat
      BY FS_CardinalityType DEF SeatsKept
    <3>3. QED
      BY <2>1, <3>1, <3>2 DEF Join, SeatsKept
  <2>2. ASSUME NEW p \in Participants, Leave(p) PROVE SeatsKept'
    <3>1. /\ IsFiniteSet(members \ {p})
          /\ Cardinality(members \ {p}) = Cardinality(members) - 1
      BY <2>2, FS_RemoveElement DEF Leave, SeatsKept
    <3>2. Cardinality(members) \in Nat
      BY FS_CardinalityType DEF SeatsKept
    <3>3. QED
      BY <2>2, <3>1, <3>2 DEF Leave, SeatsKept
  <2>3. CASE UNCHANGED members
    BY <2>3 DEF SeatsKept
  <2>4. QED
    BY <2>1, <2>2, <2>3 DEF Next, Migrate, Publish, Withdraw, Subscribe, vars
<1>3. QED
  BY <1>1, <1>2, PTL DEF Spec

\* The room leaves SFU only when it empties.
THEOREM RosterStaysInSfu == Spec => StaysInSfu
<1>1. [Next]_vars => [sfu /\ members' # {} => sfu']_vars
  BY DEF Next, Join, Leave, Migrate, Publish, Withdraw, Subscribe, vars
<1>2. QED
  BY <1>1, PTL DEF Spec, StaysInSfu

=============================================================================
