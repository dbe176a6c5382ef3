---------------------------- MODULE VoiceProofs ----------------------------
(***************************************************************************)
(* The invariants of VoiceRoom that hold whatever the clients and the      *)
(* network do, proved for every set of sockets, accounts and moderators,   *)
(* every threshold and every number of seats.  They are inductive          *)
(* together: MembersSeated needs TypeOK only, but a departure keeps the    *)
(* seats apart and the switch timed in the same step, so one invariant     *)
(* carries them all.                                                       *)
(*                                                                         *)
(* The second part is about a steady channel: what the seats and the mode  *)
(* promise when each account has one tab, confirmations are in time and no *)
(* connection closes during a join.                                        *)
(*                                                                         *)
(* The third part is the call itself: the pages of a steady channel, their *)
(* connections to each other and their sessions in the room of the SFU,    *)
(* for any number of people, moves and news under way.  Its invariant,     *)
(* CInv, says of each page what it has been told and has not read yet, and *)
(* that reading it all leaves the page where the channel is.               *)
(***************************************************************************)
EXTENDS MCVoiceClient, FiniteSetTheorems, SequenceTheorems, WellFoundedInduction, TLAPS

IInv ==
    /\ TypeOK
    /\ SeatsDistinct
    /\ MembersSeated
    /\ OneTabPerAccount
    /\ SwitchIsTimed

-----------------------------------------------------------------------------
(* The orchestrator.                                                       *)

\* Counting the seats after a join keeps the timer armed exactly while the
\* channel switches.
LEMMA OnSeatCountKeeps ==
    ASSUME BasculeTypeOK, SwitchIsTimed, NEW count, OnSeatCount(count)
    PROVE  BasculeTypeOK' /\ SwitchIsTimed'
  BY DEF BasculeTypeOK, SwitchIsTimed, OnSeatCount, StartSwitch, Modes, basculeVars

\* So does the end of a confirmation or of a departure during a switch.
LEMMA CheckAllReadyKeeps ==
    ASSUME BasculeTypeOK, SwitchIsTimed,
           NEW S \in SUBSET Sockets, NEW members, NEW cold \in BOOLEAN,
           CheckAllReady(S, members, cold)
    PROVE  BasculeTypeOK' /\ SwitchIsTimed'
  BY DEF BasculeTypeOK, SwitchIsTimed, CheckAllReady, Reset, Commit, Modes

\* So does a departure.
LEMMA OnLeaveKeeps ==
    ASSUME BasculeTypeOK, SwitchIsTimed,
           NEW s \in Sockets, NEW remaining, NEW members, OnLeave(s, remaining, members)
    PROVE  BasculeTypeOK' /\ SwitchIsTimed'
<1>0. StillCold(remaining) \in BOOLEAN
  BY DEF StillCold, BasculeTypeOK
<1>1. CASE Reset
  BY <1>1 DEF BasculeTypeOK, SwitchIsTimed, Reset, Modes
<1>2. CASE CheckAllReady(ready \ {s}, members, StillCold(remaining))
  <2>1. ready \ {s} \in SUBSET Sockets
    BY DEF BasculeTypeOK
  <2>2. QED
    BY <1>0, <1>2, <2>1, CheckAllReadyKeeps
<1>3. CASE /\ ready' = ready \ {s}
           /\ cooldown' = StillCold(remaining)
           /\ UNCHANGED <<mode, timer>>
  BY <1>0, <1>3 DEF BasculeTypeOK, SwitchIsTimed
<1>4. QED
  BY <1>1, <1>2, <1>3 DEF OnLeave

-----------------------------------------------------------------------------
(* The seats.                                                              *)

\* Unseating sockets gives nobody a seat and moves nobody.
LEMMA UnseatKeeps ==
    ASSUME TypeOK, NEW S
    PROVE  /\ Unseat(seat, S) \in [Sockets -> SeatNumbers \cup {NoSeat}]
           /\ Seated(Unseat(seat, S)) = Seated(seat) \ S
           /\ \A s \in Seated(seat) \ S : Unseat(seat, S)[s] = seat[s]
  BY DEF TypeOK, Unseat, Seated

\* A departure keeps what IInv says of the room, the seats and the switch.
LEMMA DepartKeeps ==
    ASSUME IInv, NEW t \in Sockets, Depart(t)
    PROVE  /\ BasculeTypeOK' /\ SwitchIsTimed'
           /\ room' \subseteq Sockets
           /\ seat' \in [Sockets -> SeatNumbers \cup {NoSeat}]
           /\ confirmed' \subseteq Sockets
           /\ SeatsDistinct' /\ OneTabPerAccount'
           /\ room' = room \ {t}
           /\ room' \subseteq Seated(seat')
<1>1. BasculeTypeOK' /\ SwitchIsTimed'
  BY OnLeaveKeeps DEF IInv, TypeOK, Depart
<1>2. room' = room \ {t} /\ seat' = Unseat(seat, {t})
  BY DEF Depart
<1>3. confirmed' \subseteq Sockets
  BY DEF Depart, Confirming, IInv, TypeOK
<1>4. /\ seat' \in [Sockets -> SeatNumbers \cup {NoSeat}]
      /\ Seated(seat') = Seated(seat) \ {t}
      /\ \A s \in Seated(seat) \ {t} : seat'[s] = seat[s]
  BY <1>2, UnseatKeeps DEF IInv
<1>5. SeatsDistinct'
  BY <1>4 DEF IInv, SeatsDistinct
<1>6. OneTabPerAccount'
  BY <1>2 DEF IInv, OneTabPerAccount
<1>7. room' \subseteq Seated(seat')
  BY <1>2, <1>4 DEF IInv, MembersSeated
<1>8. QED
  BY <1>1, <1>2, <1>3, <1>4, <1>5, <1>6, <1>7 DEF IInv, TypeOK

-----------------------------------------------------------------------------
(* The handlers.                                                           *)

\* An eviction without a seat to give, the end of a join in a full channel.
LEMMA JoinFullKeeps ==
    ASSUME IInv, NEW s \in Sockets, JoinFull(s)
    PROVE  IInv'
<1> DEFINE E == Stale(s)
<1>1. /\ room' = room \ E
      /\ seat' = Unseat(seat, E)
      /\ confirmed' = confirmed \ E
      /\ joining' = joining \ {s}
      /\ UNCHANGED <<live, asking, kicks, mode, ready, timer, cooldown>>
  BY DEF JoinFull, basculeVars
<1>2. /\ seat' \in [Sockets -> SeatNumbers \cup {NoSeat}]
      /\ Seated(seat') = Seated(seat) \ E
      /\ \A u \in Seated(seat) \ E : seat'[u] = seat[u]
  BY <1>1, UnseatKeeps DEF IInv
<1>3. TypeOK'
  BY <1>1, <1>2 DEF IInv, TypeOK, BasculeTypeOK
<1>4. SeatsDistinct'
  BY <1>2 DEF IInv, SeatsDistinct
<1>5. MembersSeated'
  BY <1>1, <1>2 DEF IInv, MembersSeated
<1>6. OneTabPerAccount'
  BY <1>1 DEF IInv, OneTabPerAccount
<1>7. SwitchIsTimed'
  BY <1>1 DEF IInv, SwitchIsTimed
<1>8. QED
  BY <1>3, <1>4, <1>5, <1>6, <1>7 DEF IInv

\* The end of a join that found a seat: the seat is free and the newcomer is
\* the only tab of its account left in the room.
LEMMA JoinSeatedKeeps ==
    ASSUME IInv, NEW s \in Sockets, JoinSeated(s)
    PROVE  IInv'
<1> DEFINE E == Stale(s)
           st == Unseat(seat, E)
<1>1. PICK n \in SeatNumbers : LowestFree(st, n) /\ seat' = [st EXCEPT ![s] = n]
  BY DEF JoinSeated, FreeSeats
<1>2. /\ room' = (room \ E) \cup ({s} \cap live)
      /\ joining' = joining \ {s}
      /\ UNCHANGED <<live, asking, kicks>>
      /\ OnSeatCount(SeatCount(seat'))
      /\ Confirming(confirmed \ E)
  BY DEF JoinSeated
<1>3. BasculeTypeOK' /\ SwitchIsTimed'
  BY <1>2, OnSeatCountKeeps DEF IInv, TypeOK
<1>4. /\ st \in [Sockets -> SeatNumbers \cup {NoSeat}]
      /\ Seated(st) = Seated(seat) \ E
      /\ \A u \in Seated(seat) \ E : st[u] = seat[u]
  BY UnseatKeeps DEF IInv
<1>5. n # NoSeat /\ \A u \in Sockets : st[u] # n
  BY <1>1 DEF LowestFree, FreeSeats, SeatNumbers, NoSeat
<1>6. /\ seat' \in [Sockets -> SeatNumbers \cup {NoSeat}]
      /\ seat'[s] = n
      /\ \A u \in Sockets \ {s} : seat'[u] = st[u]
  BY <1>1, <1>4
<1>7. Seated(seat') = (Seated(seat) \ E) \cup {s}
  <2>1. Seated(seat') = Seated(st) \cup {s}
    BY <1>5, <1>6 DEF Seated
  <2>2. QED
    BY <2>1, <1>4
<1>8. SeatsDistinct'
  <2> SUFFICES ASSUME NEW u \in Seated(seat'), NEW v \in Seated(seat'),
                      seat'[u] = seat'[v]
               PROVE  u = v
    BY DEF SeatsDistinct
  <2>1. u \in Sockets /\ v \in Sockets
    BY DEF Seated
  <2>2. CASE u = s \/ v = s
    BY <2>1, <2>2, <1>5, <1>6
  <2>3. CASE u # s /\ v # s
    <3>1. /\ u \in Seated(seat) \ E
          /\ v \in Seated(seat) \ E
      BY <2>3, <1>7
    <3>2. seat[u] = seat[v]
      BY <3>1, <2>1, <2>3, <1>4, <1>6
    <3>3. QED
      BY <3>1, <3>2 DEF IInv, SeatsDistinct
  <2>4. QED
    BY <2>2, <2>3
<1>9. MembersSeated'
  BY <1>2, <1>7 DEF IInv, MembersSeated
<1>10. OneTabPerAccount'
  BY <1>2 DEF IInv, OneTabPerAccount, Stale
<1>11. TypeOK'
  <2>1. confirmed' \subseteq Sockets
    BY <1>2 DEF IInv, TypeOK, Confirming
  <2>2. room' \subseteq Sockets
    BY <1>2 DEF IInv, TypeOK
  <2>3. QED
    BY <1>2, <1>3, <1>6, <2>1, <2>2 DEF IInv, TypeOK
<1>12. QED
  BY <1>3, <1>8, <1>9, <1>10, <1>11 DEF IInv

\* The three ways out of the room.
LEMMA DepartureKeeps ==
    ASSUME IInv, NEW t \in Sockets, Depart(t),
           live' = live \/ live' = live \ {t},
           joining' \subseteq Sockets, asking' \subseteq Moderators,
           kicks' \subseteq Moderators \X Sockets
    PROVE  IInv'
<1>1. TypeOK'
  BY DepartKeeps DEF IInv, TypeOK
<1>2. MembersSeated'
  BY DepartKeeps DEF IInv, MembersSeated
<1>3. QED
  BY <1>1, <1>2, DepartKeeps DEF IInv

\* Handlers that leave the seats and the room alone.
LEMMA SwitchStepKeeps ==
    ASSUME IInv, BasculeTypeOK', SwitchIsTimed', UNCHANGED <<live, room, seat>>,
           joining' \subseteq Sockets, asking' \subseteq Moderators,
           kicks' \subseteq Moderators \X Sockets, confirmed' \subseteq Sockets
    PROVE  IInv'
  BY DEF IInv, TypeOK, SeatsDistinct, MembersSeated, OneTabPerAccount, Seated

\* A confirmation, in time or stale.
LEMMA OnSfuReadyKeeps ==
    ASSUME IInv, NEW s \in Sockets, NEW members, OnSfuReady(s, members)
    PROVE  BasculeTypeOK' /\ SwitchIsTimed'
<1>1. ready \cup {s} \in SUBSET Sockets /\ cooldown \in BOOLEAN
  BY DEF IInv, TypeOK, BasculeTypeOK
<1>2. QED
  BY <1>1, CheckAllReadyKeeps DEF OnSfuReady, IInv, TypeOK

-----------------------------------------------------------------------------
(* The theorems.                                                           *)

LEMMA InitEstablishes == Init => IInv
<1> SUFFICES ASSUME Init PROVE IInv
  OBVIOUS
<1>1. Seated(seat) = {}
  BY DEF Init, Seated
<1>2. TypeOK
  BY DEF Init, TypeOK, BasculeInit, BasculeTypeOK, Modes
<1>3. QED
  BY <1>1, <1>2
  DEF Init, BasculeInit, IInv, SeatsDistinct, MembersSeated, OneTabPerAccount, SwitchIsTimed

\* Every handler, timer and closed connection keeps the invariant.
LEMMA StepKeeps == IInv /\ [Next]_vars => IInv'
<1> SUFFICES ASSUME IInv, [Next]_vars PROVE IInv'
  OBVIOUS
<1> USE DEF basculeVars
<1>t. /\ joining \subseteq Sockets /\ asking \subseteq Moderators
      /\ kicks \subseteq Moderators \X Sockets /\ confirmed \subseteq Sockets
      /\ BasculeTypeOK /\ SwitchIsTimed
  BY DEF IInv, TypeOK
<1>u. UNCHANGED <<mode, ready, timer, cooldown>> => BasculeTypeOK' /\ SwitchIsTimed'
  BY <1>t DEF BasculeTypeOK, SwitchIsTimed
<1>1. ASSUME NEW s \in Sockets, JoinRequest(s) PROVE IInv'
  BY <1>1, <1>t, <1>u, SwitchStepKeeps DEF JoinRequest
<1>2. ASSUME NEW s \in Sockets, JoinRefused(s) PROVE IInv'
  BY <1>2, <1>t, <1>u, SwitchStepKeeps DEF JoinRefused
<1>3. ASSUME NEW s \in Sockets, JoinFull(s) PROVE IInv'
  BY <1>3, JoinFullKeeps
<1>4. ASSUME NEW s \in Sockets, JoinSeated(s) PROVE IInv'
  BY <1>4, JoinSeatedKeeps
<1>5. ASSUME NEW s \in Sockets, Leave(s) PROVE IInv'
  BY <1>5, <1>t, DepartureKeeps DEF Leave
<1>6. ASSUME NEW s \in Sockets, Disconnect(s) PROVE IInv'
  <2>1. CASE s \in room
    BY <1>6, <1>t, <2>1, DepartureKeeps DEF Disconnect
  <2>2. CASE s \notin room
    BY <1>6, <1>t, <2>2
    DEF Disconnect, IInv, TypeOK, BasculeTypeOK, SeatsDistinct, MembersSeated,
        OneTabPerAccount, SwitchIsTimed, Seated
  <2>3. QED
    BY <2>1, <2>2
<1>7. ASSUME NEW s \in Sockets, SfuReady(s) PROVE IInv'
  <2>1. confirmed' \subseteq Sockets
    BY <1>7, <1>t DEF SfuReady, Confirming
  <2>2. BasculeTypeOK' /\ SwitchIsTimed'
    BY <1>7, OnSfuReadyKeeps DEF SfuReady
  <2>3. QED
    BY <1>7, <1>t, <2>1, <2>2, SwitchStepKeeps DEF SfuReady
<1>8. ASSUME NEW s \in Sockets, StaleReady(s) PROVE IInv'
  <2>1. confirmed' \subseteq Sockets
    BY <1>8, <1>t DEF StaleReady, Confirming
  <2>2. BasculeTypeOK' /\ SwitchIsTimed'
    BY <1>8, OnSfuReadyKeeps DEF StaleReady
  <2>3. QED
    BY <1>8, <1>t, <2>1, <2>2, SwitchStepKeeps DEF StaleReady
<1>9. ASSUME NEW s \in Sockets, ScreenShareIntent(s) PROVE IInv'
  <2>1. BasculeTypeOK' /\ SwitchIsTimed'
    BY <1>9, <1>t
    DEF ScreenShareIntent, OnScreenShare, StartSwitch, BasculeTypeOK, SwitchIsTimed, Modes
  <2>2. QED
    BY <1>9, <1>t, <2>1, SwitchStepKeeps DEF ScreenShareIntent
<1>10. ASSUME NEW m \in Sockets, KickRequest(m) PROVE IInv'
  BY <1>10, <1>t, <1>u, SwitchStepKeeps DEF KickRequest
<1>11. ASSUME NEW m \in Sockets, NEW t \in Sockets, KickFind(m, t) PROVE IInv'
  <2>1. kicks' \subseteq Moderators \X Sockets
    BY <1>11, <1>t DEF KickFind
  <2>2. QED
    BY <1>11, <1>t, <1>u, <2>1, SwitchStepKeeps DEF KickFind
<1>12. ASSUME NEW m \in Sockets, NEW t \in Sockets, KickExecute(m, t) PROVE IInv'
  BY <1>12, <1>t, DepartureKeeps DEF KickExecute
<1>13. ASSUME NEW m \in Sockets, NEW t \in Sockets, KickRefused(m, t) PROVE IInv'
  BY <1>13, <1>t, <1>u, SwitchStepKeeps DEF KickRefused
<1>14. CASE SwitchTimeout
  <2>1. BasculeTypeOK' /\ SwitchIsTimed'
    BY <1>14, <1>t DEF SwitchTimeout, Abort, BasculeTypeOK, SwitchIsTimed, Modes
  <2>2. QED
    BY <1>14, <1>t, <2>1, SwitchStepKeeps DEF SwitchTimeout
<1>15. CASE UNCHANGED vars
  BY <1>15, <1>t, <1>u, SwitchStepKeeps DEF vars
<1>16. QED
  BY <1>1, <1>2, <1>3, <1>4, <1>5, <1>6, <1>7, <1>8, <1>9, <1>10, <1>11, <1>12,
     <1>13, <1>14, <1>15 DEF Next

\* The inductive invariant holds of every behaviour.
THEOREM InductiveInvariant == Spec => []IInv
BY InitEstablishes, StepKeeps, PTL DEF Spec

\* The state of a channel keeps its type.
THEOREM TypeCorrect == Spec => []TypeOK
<1>1. IInv => TypeOK
  BY DEF IInv
<1>2. QED
  BY <1>1, InductiveInvariant, PTL

\* No two sockets are ever given one seat, for any number of clients, with
\* joins suspended on the database, evictions, kicks and closed connections.
THEOREM SeatsNeverShared == Spec => []SeatsDistinct
<1>1. IInv => SeatsDistinct
  BY DEF IInv
<1>2. QED
  BY <1>1, InductiveInvariant, PTL

\* Every member of the room is connected and seated.
THEOREM MembersAlwaysSeated == Spec => []MembersSeated
<1>1. IInv => MembersSeated
  BY DEF IInv
<1>2. QED
  BY <1>1, InductiveInvariant, PTL

\* Overlapping joins of one account never leave two of its tabs in the room.
THEOREM AccountsAppearOnce == Spec => []OneTabPerAccount
<1>1. IInv => OneTabPerAccount
  BY DEF IInv
<1>2. QED
  BY <1>1, InductiveInvariant, PTL

\* All of the above at once, and the timer: what the run checks.
THEOREM RoomAlwaysSound == Spec => []RoomSound
<1>1. IInv => RoomSound
  BY DEF IInv, RoomSound
<1>2. QED
  BY <1>1, InductiveInvariant, PTL

\* A channel that switches has its abort timer armed, and only such a channel.
THEOREM SwitchesAreTimed == Spec => []SwitchIsTimed
<1>1. IInv => SwitchIsTimed
  BY DEF IInv
<1>2. QED
  BY <1>1, InductiveInvariant, PTL

-----------------------------------------------------------------------------
(* A steady channel.                                                       *)

\* One tab for each account, confirmations in time, no connection that closes
\* during a join.
Steady ==
    /\ IsFiniteSet(Sockets)
    /\ \A s, t \in Sockets : User[s] = User[t] => s = t
    /\ ~DropWhileJoining
    /\ ~LateReady

\* Who counts as ready in a switch has confirmed in it.
ReadyConfirmed == mode = "switching" => ready \subseteq confirmed

SInv ==
    /\ IInv
    /\ joining \subseteq live
    /\ SeatsMatchRoom
    /\ ReadyConfirmed
    /\ ModeFitsRoom

\* The parts of SInv that handlers without a seat to give or to take can touch.
ModePart == ReadyConfirmed /\ ModeFitsRoom

\* No seat is left to count when nobody is seated, and fewer seats count less.
LEMMA SeatCountFacts ==
    ASSUME Steady, NEW st, NEW su, Seated(su) \subseteq Seated(st)
    PROVE  /\ SeatCount(st) \in Nat /\ SeatCount(su) \in Nat
           /\ SeatCount(su) <= SeatCount(st)
           /\ Seated(st) = {} => SeatCount(st) = 0
<1>1. IsFiniteSet(Seated(st))
  <2>1. Seated(st) \subseteq Sockets
    BY DEF Seated
  <2>2. QED
    BY <2>1, FS_Subset DEF Steady
<1>2. IsFiniteSet(Seated(su)) /\ Cardinality(Seated(su)) <= Cardinality(Seated(st))
  BY <1>1, FS_Subset
<1>3. QED
  BY <1>1, <1>2, FS_CardinalityType, FS_EmptySet DEF SeatCount

\* With one tab for each account a join evicts nobody.
LEMMA NobodyStale ==
    ASSUME Steady, TypeOK, NEW s \in Sockets
    PROVE  Stale(s) = {}
  BY DEF Steady, TypeOK, Stale

\* A step that leaves the orchestrator, the room, the seats and the
\* confirmations alone leaves ModePart alone.
LEMMA IdleKeeps ==
    ASSUME ModePart, UNCHANGED <<mode, ready, timer, cooldown, room, seat, confirmed>>
    PROVE  ModePart'
  BY DEF ModePart, ReadyConfirmed, ModeFitsRoom, ModeNeedsMembers, CrossingNotMissed,
         NoMissedCommit, SeatCount, Seated

\* A departure, whoever causes it: the seats follow the room, the mode follows
\* the call, and a commit that it decides is one everybody confirmed.
LEMMA SteadyDepart ==
    ASSUME Steady, SInv, NEW t \in Sockets, Depart(t)
    PROVE  /\ SeatsMatchRoom' /\ ModePart'
           /\ mode = "switching" /\ mode' = "sfu" => room' \subseteq confirmed'
<1>1. /\ room' = room \ {t}
      /\ seat' = Unseat(seat, {t})
      /\ OnLeave(t, SeatCount(seat'), room')
      /\ Confirming(confirmed \ {t})
  BY DEF Depart
<1>2. Seated(seat') = Seated(seat) \ {t}
  BY <1>1, UnseatKeeps DEF SInv, IInv
<1>3. SeatsMatchRoom'
  BY <1>1, <1>2 DEF SInv, SeatsMatchRoom
<1>4. /\ SeatCount(seat') \in Nat /\ SeatCount(seat) \in Nat
      /\ SeatCount(seat') <= SeatCount(seat)
      /\ room' = {} => SeatCount(seat') = 0
  BY <1>2, <1>3, SeatCountFacts DEF SeatsMatchRoom
<1>5. SeatCount(seat)' = SeatCount(seat')
  BY DEF SeatCount, Seated
<1>6. Threshold \in Nat \ {0}
  BY ThresholdAssumption
<1>7. CASE Reset /\ (SeatCount(seat') = 0 \/ room' = {})
  <2>1. mode' = "mesh" /\ SeatCount(seat') = 0
    BY <1>4, <1>7 DEF Reset
  <2>2. QED
    BY <2>1, <1>3, <1>5, <1>6
    DEF ModePart, ReadyConfirmed, ModeFitsRoom, ModeNeedsMembers, CrossingNotMissed, NoMissedCommit
<1>8. CASE /\ SeatCount(seat') # 0 /\ mode = "switching"
           /\ CheckAllReady(ready \ {t}, room', StillCold(SeatCount(seat')))
           /\ room' # {}
  <2>1. ready \ {t} \subseteq confirmed \ {t}
    BY <1>8 DEF SInv, ReadyConfirmed
  <2>2. /\ mode' \in {"switching", "sfu"}
        /\ confirmed' = confirmed \ {t}
        /\ mode' = "switching" => ready' = ready \ {t} /\ ~ room' \subseteq ready'
        /\ mode' = "sfu" => room' \subseteq ready \ {t}
    BY <1>1, <1>8 DEF CheckAllReady, Commit, Confirming
  <2>3. QED
    BY <2>1, <2>2, <1>3, <1>8
    DEF ModePart, ReadyConfirmed, ModeFitsRoom, ModeNeedsMembers, CrossingNotMissed, NoMissedCommit
<1>9. CASE /\ SeatCount(seat') # 0 /\ mode # "switching"
           /\ cooldown' = StillCold(SeatCount(seat'))
           /\ UNCHANGED <<mode, timer>>
  <2>1. mode' # "mesh" => room' # {}
    BY <1>4, <1>9
  <2>2. mode' = "mesh" /\ SeatCount(seat') >= Threshold => cooldown'
    <3> SUFFICES ASSUME mode' = "mesh", SeatCount(seat') >= Threshold PROVE cooldown'
      OBVIOUS
    <3>1. mode = "mesh" /\ SeatCount(seat) >= Threshold
      BY <1>4, <1>6, <1>9
    <3>2. cooldown
      BY <3>1 DEF SInv, ModeFitsRoom, CrossingNotMissed
    <3>3. QED
      BY <3>2, <1>9 DEF StillCold
  <2>3. QED
    BY <2>1, <2>2, <1>3, <1>5, <1>9
    DEF ModePart, ReadyConfirmed, ModeFitsRoom, ModeNeedsMembers, CrossingNotMissed, NoMissedCommit
<1>10. QED
  BY <1>1, <1>3, <1>7, <1>8, <1>9 DEF OnLeave, CheckAllReady

\* The end of a join that found a seat: nobody is evicted, the newcomer has not
\* confirmed, and the count is looked at.
LEMMA SteadyJoin ==
    ASSUME Steady, SInv, NEW s \in Sockets, JoinSeated(s)
    PROVE  SeatsMatchRoom' /\ ModePart' /\ (mode' = "sfu" => mode = "sfu")
<1>1. Stale(s) = {}
  BY NobodyStale DEF SInv, IInv
<1> DEFINE st == Unseat(seat, Stale(s))
<1>2. PICK n \in SeatNumbers : seat' = [st EXCEPT ![s] = n]
  BY DEF JoinSeated, FreeSeats, LowestFree
<1>3. /\ s \in live
      /\ room' = room \cup {s}
      /\ OnSeatCount(SeatCount(seat'))
      /\ Confirming(confirmed)
  <2>1. s \in live
    BY DEF JoinSeated, SInv
  <2>2. QED
    BY <1>1, <2>1 DEF JoinSeated
<1>4. SeatsMatchRoom'
  <2>1. /\ st \in [Sockets -> SeatNumbers \cup {NoSeat}]
        /\ Seated(st) = Seated(seat)
    BY <1>1, UnseatKeeps DEF SInv, IInv
  <2>2. Seated(seat') = Seated(st) \cup {s}
    BY <1>2, <2>1 DEF Seated, SeatNumbers, NoSeat
  <2>3. QED
    BY <1>3, <2>1, <2>2 DEF SInv, SeatsMatchRoom
<1>5. SeatCount(seat)' = SeatCount(seat')
  BY DEF SeatCount, Seated
<1>6. CASE mode = "mesh" /\ ~cooldown /\ SeatCount(seat') >= Threshold
  <2>1. mode' = "switching" /\ ready' = {}
    BY <1>3, <1>6 DEF OnSeatCount, StartSwitch
  <2>2. QED
    BY <2>1, <1>3, <1>4
    DEF ModePart, ReadyConfirmed, ModeFitsRoom, ModeNeedsMembers, CrossingNotMissed, NoMissedCommit
<1>7. CASE ~(mode = "mesh" /\ ~cooldown /\ SeatCount(seat') >= Threshold)
  <2>1. UNCHANGED <<mode, ready, timer, cooldown>>
    BY <1>3, <1>7 DEF OnSeatCount, basculeVars
  <2>2. confirmed' = confirmed
    BY <2>1, <1>3 DEF Confirming
  <2>3. ReadyConfirmed' /\ ModeNeedsMembers' /\ NoMissedCommit'
    BY <2>1, <2>2, <1>3
    DEF SInv, ReadyConfirmed, ModeFitsRoom, ModeNeedsMembers, NoMissedCommit
  <2>4. CrossingNotMissed'
    BY <2>1, <1>5, <1>7 DEF CrossingNotMissed
  <2>5. QED
    BY <2>1, <2>3, <2>4, <1>4 DEF ModePart, ModeFitsRoom
<1>8. QED
  BY <1>6, <1>7

\* A confirmation of a member.
LEMMA SteadyReady ==
    ASSUME SInv, NEW s \in Sockets, SfuReady(s)
    PROVE  /\ ModePart'
           /\ mode = "switching" /\ mode' = "sfu" => room' \subseteq confirmed'
<1>1. /\ mode = "switching" /\ s \in room
      /\ CheckAllReady(ready \cup {s}, room, cooldown)
      /\ Confirming(confirmed \cup {s})
      /\ UNCHANGED <<room, seat>>
  BY DEF SfuReady, OnSfuReady
<1>2. ready \cup {s} \subseteq confirmed \cup {s}
  BY <1>1 DEF SInv, ReadyConfirmed
<1>3. /\ mode' \in {"switching", "sfu"}
      /\ confirmed' = confirmed \cup {s}
      /\ mode' = "switching" => ready' = ready \cup {s} /\ ~ room \subseteq ready'
      /\ mode' = "sfu" => room \subseteq ready \cup {s}
  BY <1>1 DEF CheckAllReady, Commit, Confirming
<1>4. QED
  BY <1>1, <1>2, <1>3
  DEF ModePart, ReadyConfirmed, ModeFitsRoom, ModeNeedsMembers, CrossingNotMissed, NoMissedCommit

LEMMA SteadyStart == Steady /\ Init => SInv
<1> SUFFICES ASSUME Steady, Init PROVE SInv
  OBVIOUS
<1>1. Seated(seat) = {}
  BY DEF Init, Seated
<1>2. SeatCount(seat) = 0
  BY <1>1, FS_EmptySet DEF SeatCount
<1>3. QED
  BY <1>1, <1>2, InitEstablishes, ThresholdAssumption
  DEF Init, BasculeInit, SInv, SeatsMatchRoom, ReadyConfirmed, ModeFitsRoom, ModeNeedsMembers,
      CrossingNotMissed, NoMissedCommit

\* What every step of a steady channel keeps, and what a commit has behind it.
LEMMA SteadyStep ==
    ASSUME Steady, SInv, [Next]_vars
    PROVE  /\ SInv'
           /\ mode = "switching" /\ mode' = "sfu" => room' \subseteq confirmed'
<1> DEFINE Committed == mode = "switching" /\ mode' = "sfu" => room' \subseteq confirmed'
           Good == joining' \subseteq live' /\ SeatsMatchRoom' /\ ModePart' /\ Committed
<1> USE DEF basculeVars
<1>0. /\ joining \subseteq live /\ SeatsMatchRoom /\ ModePart
      /\ IInv /\ TypeOK
  BY DEF SInv, ModePart, IInv
<1>i. UNCHANGED <<mode, ready, timer, cooldown, room, seat, confirmed>>
        => SeatsMatchRoom' /\ ModePart' /\ Committed
  BY <1>0, IdleKeeps DEF SeatsMatchRoom, Seated
<1>1. ASSUME NEW s \in Sockets, JoinRequest(s) \/ JoinRefused(s) PROVE Good
  BY <1>0, <1>1, <1>i DEF JoinRequest, JoinRefused
<1>3. ASSUME NEW s \in Sockets, JoinFull(s) PROVE Good
  <2>1. Stale(s) = {}
    BY <1>0, NobodyStale
  <2>2. /\ UNCHANGED <<mode, ready, timer, cooldown, room, confirmed, live>>
        /\ joining' \subseteq joining
        /\ seat' = Unseat(seat, {})
    BY <1>3, <2>1 DEF JoinFull
  <2>3. seat' = seat
    BY <1>0, <2>2 DEF Unseat, TypeOK
  <2>4. QED
    BY <1>0, <1>i, <2>2, <2>3
<1>4. ASSUME NEW s \in Sockets, JoinSeated(s) PROVE Good
  BY <1>0, <1>4, SteadyJoin DEF JoinSeated
<1>5. ASSUME NEW s \in Sockets, Leave(s) PROVE Good
  BY <1>0, <1>5, SteadyDepart DEF Leave
<1>6. ASSUME NEW s \in Sockets, Disconnect(s) PROVE Good
  <2>1. joining' \subseteq live'
    BY <1>0, <1>6 DEF Disconnect, Steady
  <2>2. CASE s \in room
    BY <1>6, <2>1, <2>2, SteadyDepart DEF Disconnect
  <2>3. CASE s \notin room
    BY <1>6, <2>1, <2>3, <1>i DEF Disconnect
  <2>4. QED
    BY <2>2, <2>3
<1>7. ASSUME NEW s \in Sockets, SfuReady(s) PROVE Good
  <2>1. ModePart' /\ Committed
    BY <1>7, SteadyReady
  <2>2. QED
    BY <1>0, <1>7, <2>1 DEF SfuReady, SeatsMatchRoom, Seated
<1>8. ASSUME NEW s \in Sockets, StaleReady(s) PROVE Good
  BY <1>8 DEF StaleReady, Steady
<1>9. ASSUME NEW s \in Sockets, ScreenShareIntent(s) PROVE Good
  <2>1. /\ s \in room /\ mode' = "switching" /\ ready' = {}
        /\ UNCHANGED <<room, seat, joining, live>>
    BY <1>9 DEF ScreenShareIntent, OnScreenShare, StartSwitch
  <2>2. QED
    BY <1>0, <2>1
    DEF ModePart, ReadyConfirmed, ModeFitsRoom, ModeNeedsMembers, CrossingNotMissed,
        NoMissedCommit, SeatsMatchRoom, Seated
<1>10. ASSUME NEW m \in Sockets, NEW t \in Sockets,
              KickRequest(m) \/ KickFind(m, t) \/ KickRefused(m, t)
       PROVE  Good
  BY <1>0, <1>10, <1>i DEF KickRequest, KickFind, KickRefused
<1>12. ASSUME NEW m \in Sockets, NEW t \in Sockets, KickExecute(m, t) PROVE Good
  BY <1>0, <1>12, SteadyDepart DEF KickExecute
<1>14. ASSUME SwitchTimeout PROVE Good
  <2>1. mode' = "mesh" /\ UNCHANGED <<room, seat, joining, live>>
    BY <1>14 DEF SwitchTimeout, Abort
  <2>2. CrossingNotMissed'
    BY <1>14 DEF SwitchTimeout, Abort, CrossingNotMissed
  <2>3. SeatsMatchRoom' /\ joining' \subseteq live'
    BY <1>0, <2>1 DEF SeatsMatchRoom, Seated
  <2>4. ReadyConfirmed' /\ ModeNeedsMembers' /\ NoMissedCommit' /\ Committed
    BY <2>1 DEF ReadyConfirmed, ModeNeedsMembers, NoMissedCommit
  <2>5. QED
    BY <2>2, <2>3, <2>4 DEF ModePart, ModeFitsRoom
<1>15. ASSUME UNCHANGED vars PROVE Good
  BY <1>0, <1>15, <1>i DEF vars
<1>16. Good
  BY <1>1, <1>3, <1>4, <1>5, <1>6, <1>7, <1>8, <1>9, <1>10, <1>12, <1>14, <1>15 DEF Next
<1>17. IInv'
  BY <1>0, StepKeeps
<1>18. QED
  BY <1>16, <1>17 DEF SInv, ModePart

\* The invariant of a steady channel.
THEOREM SteadyInvariant == Steady => (Spec => []SInv)
<1> SUFFICES ASSUME Steady PROVE Spec => []SInv
  OBVIOUS
<1>1. Init => SInv
  BY SteadyStart
<1>2. SInv /\ [Next]_vars => SInv'
  BY SteadyStep
<1>3. QED
  BY <1>1, <1>2, PTL DEF Spec

\* In a steady channel a socket has a seat exactly while it is a member.
THEOREM SeatsFollowMembers == Steady => (Spec => []SeatsMatchRoom)
<1> SUFFICES ASSUME Steady PROVE Spec => []SeatsMatchRoom
  OBVIOUS
<1>1. SInv => SeatsMatchRoom
  BY DEF SInv
<1>2. Spec => []SInv
  BY SteadyInvariant
<1>3. QED
  BY <1>1, <1>2, PTL

\* In a steady channel the mode follows the call: no crossing of the threshold
\* and no commit is missed, and an empty channel is back to mesh.
THEOREM ModeFollowsCall == Steady => (Spec => []ModeFitsRoom)
<1> SUFFICES ASSUME Steady PROVE Spec => []ModeFitsRoom
  OBVIOUS
<1>1. SInv => ModeFitsRoom
  BY DEF SInv
<1>2. Spec => []SInv
  BY SteadyInvariant
<1>3. QED
  BY <1>1, <1>2, PTL

\* In a steady channel the mesh is closed only when each member has confirmed
\* the SFU in this switch and in this stay.
THEOREM CommitsAreConfirmed == Steady => (Spec => CommitNeedsEveryone)
<1> SUFFICES ASSUME Steady PROVE Spec => CommitNeedsEveryone
  OBVIOUS
<1>1. SInv /\ [Next]_vars
        => [mode = "switching" /\ mode' = "sfu" => room' \subseteq confirmed']_vars
  BY SteadyStep
<1>2. Spec => []SInv
  BY SteadyInvariant
<1>3. QED
  BY <1>1, <1>2, PTL DEF Spec, CommitNeedsEveryone

-----------------------------------------------------------------------------
(* The call of a steady channel.                                           *)

\* What a call needs besides: a seat for each page, switches that are not
\* abandoned, sessions that do not fail, and people who neither hang up while
\* they are being connected nor come back before their departure is taken.
SteadyCall ==
    /\ Steady
    /\ Cardinality(Pages) <= MaxSeats
    /\ ~Aborts /\ ~SfuFails /\ ~Hasty

\* Where an event stands among those a page has emitted.
At(events, e) == {i \in 1 .. Len(events) : events[i] = e}

\* None of the first k news is in K; the last of them that is in K is in V.
Silent(news, k, K) == \A i \in 1 .. k : news[i] \notin K
LastIn(news, k, K, V) == \A i \in 1 .. k :
    news[i] \in K /\ (\A j \in i + 1 .. k : news[j] \notin K) => news[i] \in V

\* A set of natural numbers that is not empty has a least one.
LEMMA LeastNatural ==
    ASSUME NEW T \in SUBSET Nat, T # {}
    PROVE  \E x \in T : \A y \in T : x <= y
<1> DEFINE R == {ss \in Nat \X Nat : ss[1] < ss[2]}
<1>1. IsWellFoundedOn(R, Nat)
  BY NatLessThanWellFounded DEF OpToRel
<1> HIDE DEF R
<1>2. PICK x \in T : \A y \in T : ~ (<<y, x>> \in R)
  BY <1>1, WFMin
<1>3. \A y \in T : ~ (y < x)
  BY <1>2 DEF R
<1>4. QED
  BY <1>3

\* Some news is of that kind; voice:init is in it once at most; each commit is
\* followed by a voice:init.
Holds(news, kind) == \E i \in 1 .. Len(news) : news[i].is = kind
OneInit(news) == \A i, j \in 1 .. Len(news) :
    news[i].is = "init" /\ news[j].is = "init" => i = j
Renewed(news) == \A i \in 1 .. Len(news) : news[i].is = "commit" =>
    \E j \in i + 1 .. Len(news) : news[j].is = "init"

\* The departure of q is among the news.
Parted(news, q) == \E i \in 1 .. Len(news) : news[i].is = "left" /\ news[i].who = q

\* What a queue keeps when something is put at its end.
LEMMA AppendFacts ==
    ASSUME NEW S, NEW s \in Seq(S), NEW e \in S
    PROVE  /\ Append(s, e) \in Seq(S) /\ Append(s, e) # <<>>
           /\ Len(Append(s, e)) = Len(s) + 1 /\ Len(s) \in Nat
           /\ \A i \in 1 .. Len(s) : Append(s, e)[i] = s[i]
           /\ Append(s, e)[Len(s) + 1] = e
  OBVIOUS

\* What is left of a queue when its head is taken.
LEMMA TailFacts ==
    ASSUME NEW S, NEW s \in Seq(S), s # <<>>
    PROVE  /\ Tail(s) \in Seq(S)
           /\ Len(s) \in Nat \ {0} /\ Len(Tail(s)) = Len(s) - 1
           /\ \A i \in 1 .. Len(s) - 1 : Tail(s)[i] = s[i + 1]
           /\ Head(s) = s[1] /\ s[1] \in S
  OBVIOUS

\* What pages emit, one event after the other.
LEMMA EmitFacts ==
    ASSUME NEW S, NEW s \in Seq(S), NEW e \in S, NEW f \in S
    PROVE  /\ s \o <<>> = s
           /\ s \o <<e>> = Append(s, e)
           /\ s \o <<e, f>> = Append(Append(s, e), f)
  OBVIOUS

LEMMA AtAppend ==
    ASSUME NEW S, NEW s \in Seq(S), NEW e \in S, NEW f
    PROVE  /\ e = f => At(Append(s, e), f) = At(s, f) \cup {Len(s) + 1}
           /\ e # f => At(Append(s, e), f) = At(s, f)
  BY AppendFacts DEF At

LEMMA AtTail ==
    ASSUME NEW S, NEW s \in Seq(S), s # <<>>, NEW f
    PROVE  /\ At(Tail(s), f) = {i - 1 : i \in At(s, f) \ {1}}
           /\ Head(s) = f <=> 1 \in At(s, f)
  BY TailFacts DEF At

LEMMA AtNone ==
    ASSUME NEW f
    PROVE  At(<<>>, f) = {}
  BY DEF At

\* The views of a queue when something is put at its end.
LEMMA ViewAppend ==
    ASSUME NEW S, NEW s \in Seq(S), NEW n \in S, NEW K, NEW V
    PROVE  /\ \A k \in 0 .. Len(s) :
                /\ Silent(Append(s, n), k, K) <=> Silent(s, k, K)
                /\ LastIn(Append(s, n), k, K, V) <=> LastIn(s, k, K, V)
           /\ n \notin K =>
                /\ Silent(Append(s, n), Len(s) + 1, K) <=> Silent(s, Len(s), K)
                /\ LastIn(Append(s, n), Len(s) + 1, K, V) <=> LastIn(s, Len(s), K, V)
<1>1. /\ Len(s) \in Nat
      /\ \A i \in 1 .. Len(s) : Append(s, n)[i] = s[i]
      /\ Append(s, n)[Len(s) + 1] = n
  BY AppendFacts
<1>2. ASSUME NEW k \in 0 .. Len(s)
      PROVE  /\ Silent(Append(s, n), k, K) <=> Silent(s, k, K)
             /\ LastIn(Append(s, n), k, K, V) <=> LastIn(s, k, K, V)
  BY <1>1 DEF Silent, LastIn
<1>3. ASSUME n \notin K
      PROVE  /\ Silent(Append(s, n), Len(s) + 1, K) <=> Silent(s, Len(s), K)
             /\ LastIn(Append(s, n), Len(s) + 1, K, V) <=> LastIn(s, Len(s), K, V)
  <2>1. Silent(Append(s, n), Len(s) + 1, K) <=> Silent(s, Len(s), K)
    BY <1>1, <1>3 DEF Silent
  <2>2. ASSUME LastIn(s, Len(s), K, V) PROVE LastIn(Append(s, n), Len(s) + 1, K, V)
    BY <1>1, <1>3, <2>2 DEF LastIn
  <2>3. ASSUME LastIn(Append(s, n), Len(s) + 1, K, V) PROVE LastIn(s, Len(s), K, V)
    <3> SUFFICES ASSUME NEW i \in 1 .. Len(s), s[i] \in K,
                        \A j \in i + 1 .. Len(s) : s[j] \notin K
                 PROVE  s[i] \in V
      BY DEF LastIn
    <3>1. \A j \in i + 1 .. Len(s) + 1 : Append(s, n)[j] \notin K
      BY <1>1, <1>3
    <3>2. QED
      BY <1>1, <2>3, <3>1 DEF LastIn
  <2>4. QED
    BY <2>1, <2>2, <2>3
<1>4. QED
  BY <1>2, <1>3

\* What is put at the end of a queue is the last of its kind.
LEMMA ViewLast ==
    ASSUME NEW S, NEW s \in Seq(S), NEW n \in S, NEW K, NEW V, n \in K, n \in V
    PROVE  /\ ~ Silent(Append(s, n), Len(s) + 1, K)
           /\ LastIn(Append(s, n), Len(s) + 1, K, V)
<1>1. /\ Len(s) \in Nat
      /\ \A i \in 1 .. Len(s) : Append(s, n)[i] = s[i]
      /\ Append(s, n)[Len(s) + 1] = n
  BY AppendFacts
<1>2. ~ Silent(Append(s, n), Len(s) + 1, K)
  BY <1>1 DEF Silent
<1>3. LastIn(Append(s, n), Len(s) + 1, K, V)
  BY <1>1 DEF LastIn
<1>4. QED
  BY <1>2, <1>3

\* The views of what is left of a queue.
LEMMA ViewTail ==
    ASSUME NEW S, NEW s \in Seq(S), s # <<>>, NEW k \in 1 .. Len(s), NEW K, NEW V
    PROVE  /\ s[1] \notin K => (Silent(Tail(s), k - 1, K) <=> Silent(s, k, K))
           /\ LastIn(s, k, K, V) => LastIn(Tail(s), k - 1, K, V)
           /\ s[1] \in K /\ LastIn(s, k, K, V) /\ Silent(Tail(s), k - 1, K) => s[1] \in V
<1>1. /\ Len(s) \in Nat \ {0} /\ k \in Nat \ {0} /\ k <= Len(s)
      /\ \A i \in 1 .. Len(s) - 1 : Tail(s)[i] = s[i + 1]
  BY TailFacts
<1>2. \A i \in 2 .. k : s[i] = Tail(s)[i - 1] /\ i - 1 \in 1 .. k - 1
  BY <1>1
<1>3. \A i \in 1 .. k - 1 : Tail(s)[i] = s[i + 1] /\ i + 1 \in 2 .. k
  BY <1>1
<1>4. s[1] \notin K => (Silent(Tail(s), k - 1, K) <=> Silent(s, k, K))
  <2>1. ASSUME Silent(s, k, K) PROVE Silent(Tail(s), k - 1, K)
    BY <1>1, <1>3, <2>1 DEF Silent
  <2>2. ASSUME s[1] \notin K, Silent(Tail(s), k - 1, K), NEW i \in 1 .. k PROVE s[i] \notin K
    BY <1>1, <1>2, <2>2 DEF Silent
  <2>3. QED
    BY <2>1, <2>2 DEF Silent
<1>5. ASSUME LastIn(s, k, K, V) PROVE LastIn(Tail(s), k - 1, K, V)
  <2> SUFFICES ASSUME NEW i \in 1 .. k - 1, Tail(s)[i] \in K,
                      \A j \in i + 1 .. k - 1 : Tail(s)[j] \notin K
               PROVE  Tail(s)[i] \in V
    BY DEF LastIn
  <2>1. \A j \in i + 2 .. k : s[j] \notin K
    <3> TAKE j \in i + 2 .. k
    <3>1. j \in 2 .. k /\ j - 1 \in i + 1 .. k - 1
      BY <1>1
    <3>2. QED
      BY <1>2, <3>1
  <2>2. i + 1 \in 1 .. k /\ s[i + 1] \in K /\ (i + 1) + 1 = i + 2
    BY <1>1, <1>3
  <2>3. QED
    BY <1>3, <1>5, <2>1, <2>2 DEF LastIn
<1>6. ASSUME s[1] \in K, LastIn(s, k, K, V), Silent(Tail(s), k - 1, K) PROVE s[1] \in V
  <2>1. \A j \in 1 + 1 .. k : s[j] \notin K
    BY <1>1, <1>2, <1>6 DEF Silent
  <2>2. QED
    BY <1>1, <1>6, <2>1 DEF LastIn
<1>7. QED
  BY <1>4, <1>5, <1>6

\* News of a kind when something is put at the end of a queue.
LEMMA HoldsAppend ==
    ASSUME NEW S, NEW s \in Seq(S), NEW n \in S
    PROVE  /\ \A kind : Holds(Append(s, n), kind) <=> Holds(s, kind) \/ n.is = kind
           /\ OneInit(s) /\ (n.is = "init" => ~Holds(s, "init")) => OneInit(Append(s, n))
           /\ Renewed(s) /\ n.is # "commit" => Renewed(Append(s, n))
           /\ n.is = "init" => Renewed(Append(s, n))
<1>1. /\ Len(s) \in Nat /\ Len(Append(s, n)) = Len(s) + 1
      /\ \A i \in 1 .. Len(s) : Append(s, n)[i] = s[i]
      /\ Append(s, n)[Len(s) + 1] = n
  BY AppendFacts
<1>2. ASSUME NEW kind
      PROVE  Holds(Append(s, n), kind) <=> Holds(s, kind) \/ n.is = kind
  BY <1>1 DEF Holds
<1>3. OneInit(s) /\ (n.is = "init" => ~Holds(s, "init")) => OneInit(Append(s, n))
  BY <1>1 DEF OneInit, Holds
<1>4. Renewed(s) /\ n.is # "commit" => Renewed(Append(s, n))
  BY <1>1 DEF Renewed
<1>5. n.is = "init" => Renewed(Append(s, n))
  BY <1>1 DEF Renewed
<1>6. QED
  BY <1>2, <1>3, <1>4, <1>5

\* News of a kind in what is left of a queue.
LEMMA HoldsTail ==
    ASSUME NEW S, NEW s \in Seq(S), s # <<>>
    PROVE  /\ \A kind : Holds(s, kind) <=> s[1].is = kind \/ Holds(Tail(s), kind)
           /\ OneInit(s) => OneInit(Tail(s)) /\ (s[1].is = "init" => ~Holds(Tail(s), "init"))
           /\ Renewed(s) => Renewed(Tail(s))
<1>1. /\ Len(s) \in Nat \ {0} /\ Len(Tail(s)) = Len(s) - 1
      /\ \A i \in 1 .. Len(s) - 1 : Tail(s)[i] = s[i + 1]
  BY TailFacts
<1>2. \A i \in 2 .. Len(s) : s[i] = Tail(s)[i - 1] /\ i - 1 \in 1 .. Len(s) - 1
  BY <1>1
<1>3. ASSUME NEW kind
      PROVE  Holds(s, kind) <=> s[1].is = kind \/ Holds(Tail(s), kind)
  <2>1. ASSUME Holds(s, kind), s[1].is # kind PROVE Holds(Tail(s), kind)
    <3>1. PICK i \in 2 .. Len(s) : s[i].is = kind
      BY <1>1, <2>1 DEF Holds
    <3>2. QED
      BY <1>1, <1>2, <3>1 DEF Holds
  <2>2. Holds(Tail(s), kind) => Holds(s, kind)
    BY <1>1 DEF Holds
  <2>3. s[1].is = kind => Holds(s, kind)
    BY <1>1 DEF Holds
  <2>4. QED
    BY <2>1, <2>2, <2>3
<1>4. OneInit(s) => OneInit(Tail(s)) /\ (s[1].is = "init" => ~Holds(Tail(s), "init"))
  BY <1>1 DEF OneInit, Holds
<1>5. ASSUME Renewed(s), NEW i \in 1 .. Len(Tail(s)), Tail(s)[i].is = "commit"
      PROVE  \E j \in i + 1 .. Len(Tail(s)) : Tail(s)[j].is = "init"
  <2>1. i + 1 \in 1 .. Len(s) /\ s[i + 1].is = "commit"
    BY <1>1, <1>5
  <2>2. PICK j \in (i + 1) + 1 .. Len(s) : s[j].is = "init"
    BY <1>5, <2>1 DEF Renewed
  <2>3. j - 1 \in i + 1 .. Len(Tail(s)) /\ Tail(s)[j - 1].is = "init"
    BY <1>1, <1>2, <2>2
  <2>4. QED
    BY <2>3
<1>6. QED
  BY <1>3, <1>4, <1>5 DEF Renewed

\* The departure of q when something is put at the end of a queue.
LEMMA PartedAppend ==
    ASSUME NEW S, NEW s \in Seq(S), NEW n \in S, NEW q
    PROVE  Parted(s, q) \/ (n.is = "left" /\ n.who = q) => Parted(Append(s, n), q)
BY AppendFacts DEF Parted

\* And in what is left of one.
LEMMA PartedTail ==
    ASSUME NEW S, NEW s \in Seq(S), s # <<>>, NEW q, Parted(s, q)
    PROVE  (s[1].is = "left" /\ s[1].who = q) \/ Parted(Tail(s), q)
<1>1. /\ Len(s) \in Nat \ {0} /\ Len(Tail(s)) = Len(s) - 1
      /\ \A i \in 1 .. Len(s) - 1 : Tail(s)[i] = s[i + 1]
  BY TailFacts
<1>2. PICK i \in 1 .. Len(s) : s[i].is = "left" /\ s[i].who = q
  BY DEF Parted
<1>3. CASE i # 1
  <2>1. i - 1 \in 1 .. Len(Tail(s)) /\ Tail(s)[i - 1] = s[i]
    BY <1>1, <1>3
  <2>2. QED
    BY <1>2, <2>1 DEF Parted
<1>4. QED
  BY <1>2, <1>3

\* Where something of K is among the news, there is a last one.
LEMMA LastExists ==
    ASSUME NEW s, NEW k \in Nat, NEW K, ~ Silent(s, k, K)
    PROVE  \E i \in 1 .. k : s[i] \in K /\ \A j \in i + 1 .. k : s[j] \notin K
<1> DEFINE T == {m \in 0 .. k - 1 : s[k - m] \in K}
<1>1. T \in SUBSET Nat /\ T # {}
  <2>1. PICK i \in 1 .. k : s[i] \in K
    BY DEF Silent
  <2>2. k - i \in 0 .. k - 1 /\ k - (k - i) = i
    OBVIOUS
  <2>3. QED
    BY <2>1, <2>2
<1>2. PICK m \in T : \A n \in T : m <= n
  BY <1>1, LeastNatural
<1>3. k - m \in 1 .. k /\ s[k - m] \in K
  BY <1>2
<1>4. ASSUME NEW j \in (k - m) + 1 .. k PROVE s[j] \notin K
  <2>1. k - j \in 0 .. k - 1 /\ k - (k - j) = j /\ ~ (m <= k - j)
    BY <1>2
  <2>2. QED
    BY <1>2, <2>1
<1>5. QED
  BY <1>3, <1>4

-----------------------------------------------------------------------------
(* The invariant of a steady call, page by page.                           *)

Leaves(p) == At(toServer[p], "leave")
Joins(p) == At(toServer[p], "join")
Readies(p) == At(toServer[p], "ready")

\* The stages of a page: away, departing, coming, coming back after a
\* departure that is not taken yet, waiting for its role, a member.
Stage(p) ==
    \/ ~page[p].on /\ p \notin room \cup joining /\ toServer[p] = <<>>
    \/ /\ ~page[p].on /\ p \in room \ joining
       /\ toServer[p] # <<>> /\ Leaves(p) = {Len(toServer[p])} /\ Joins(p) = {}
    \/ page[p].on /\ p \notin room \cup joining /\ Leaves(p) = {} /\ Joins(p) = {1}
    \/ /\ page[p].on /\ p \in room \ joining
       /\ \E k \in 1 .. Len(toServer[p]) : Leaves(p) = {k} /\ Joins(p) = {k + 1}
    \/ page[p].on /\ p \in joining \ room /\ Leaves(p) = {} /\ Joins(p) = {}
    \/ page[p].on /\ p \in room \ joining /\ Leaves(p) = {} /\ Joins(p) = {}

\* A member that has not asked to leave.
Stays(p) == page[p].on /\ p \in room /\ Joins(p) = {}

\* News of that kind is not taken yet.
Pending(p, kind) == Holds(toPage[p], kind)

\* A page that is away has nothing open.
AwayIsIdle(p) == ~page[p].on => page[p] = AwayPage /\ sfu[p].opening = "no" /\ ~sfu[p].session

\* A page waits for one voice:init, and only as a member.
InitFits(p) ==
    /\ Pending(p, "init") => Stays(p)
    /\ OneInit(toPage[p])

\* Nobody is refused a seat, no switch is abandoned, nobody is told of itself.
NewsFor(p) == {news \in News :
    /\ news.is # "full"
    /\ news.is = "mode" => news.mode = "sfu"
    /\ news.is \in {"joined", "left"} => news.who # p
    /\ news.is = "init" => p \notin news.peers}

NewsFits(p) == toPage[p] \in Seq(NewsFor(p))

\* A page of the mesh has a connection for each peer, and mutes no other.
PageFits(p) ==
    /\ page[p].conns = IF page[p].mode = "sfu" THEN {} ELSE page[p].roster
    /\ page[p].muted \subseteq page[p].conns
    /\ p \notin page[p].roster

\* What plays comes from a session and is heard in a session.
FlowsFit(p) ==
    /\ sfu[p].opening = "setup" => sfu[p].session
    /\ sfu[p].opening = "asked" => ~sfu[p].session
    /\ ~sfu[p].session => sfu[p].due = {} /\ sfu[p].heard = {}
    /\ \A q \in sfu[p].due \cup sfu[p].heard : sfu[q].session

\* A page has its session when it has confirmed it, when its confirmation is
\* on its way and when a commit is on its way back.
ConfirmFits(p) ==
    page[p].on /\ (Pending(p, "commit") \/ p \in confirmed \/ Readies(p) # {})
        => sfu[p].session

\* The news that open a stay, that concern the mode, and that tell a mode m.
Inits == {n \in News : n.is = "init"}
ModeNews == {n \in News : n.is \in {"init", "mode", "commit"}}
Telling(m) == {n \in News : \/ n.is = "init" /\ n.mode = m
                            \/ n.is = "mode" /\ m = "switching"
                            \/ n.is = "commit" /\ m = "sfu"}

\* A page in mode was is in mode m once it has taken the first k of the news.
ModeView(news, k, was, m) ==
    /\ Silent(news, k, ModeNews) => was = m
    /\ LastIn(news, k, ModeNews, Telling(m))

\* A switch is only announced to a page that is in mesh by then.
InTurn(news, was) == \A i \in 1 .. Len(news) :
    news[i].is = "mode" => ModeView(news, i - 1, was, "mesh")

\* The page of a member comes to the mode of the channel.
ModeIsTold(p) == page[p].on =>
    /\ p \in room => ModeView(toPage[p], Len(toPage[p]), page[p].mode, mode)
    /\ InTurn(toPage[p], page[p].mode)

\* A commit that is not of an earlier stay is of a channel in SFU mode.
CommitIsTrue(p) == page[p].on /\ p \in room /\ mode # "sfu" => Renewed(toPage[p])

\* A page in SFU mode has its session or opens it, and a member of a channel in
\* SFU mode has one or is told.
SessionFits(p) == page[p].on =>
    /\ page[p].mode = "sfu" => sfu[p].session \/ sfu[p].opening = "asked"
    /\ Stays(p) /\ mode = "sfu" /\ ~sfu[p].session =>
         /\ Silent(toPage[p], Len(toPage[p]), Inits) => page[p].mode = "sfu"
         /\ LastIn(toPage[p], Len(toPage[p]), Inits, Telling("sfu"))

\* The news about q, and those that say q is there.
About(q) == {n \in News : n.is = "init" \/ (n.is \in {"joined", "left"} /\ n.who = q)}
Naming(q) == {n \in About(q) : n.is = "joined" \/ (n.is = "init" /\ q \in n.peers)}

\* The page of a member comes to show who is there.
RosterIsTold(p, q) == Stays(p) =>
    /\ Silent(toPage[p], Len(toPage[p]), About(q)) => (q \in page[p].roster <=> q \in room)
    /\ LastIn(toPage[p], Len(toPage[p]), About(q),
              IF q \in room THEN Naming(q) ELSE About(q) \ Naming(q))

\* A peer whose sound of the mesh is muted is heard over the SFU, or leaves.
MutedFits(p) == Stays(p) /\ ~Pending(p, "init") =>
    \A q \in page[p].muted :
        q \in sfu[p].heard \/ Leaves(q) # {} \/ Parted(toPage[p], q)

\* What the page and the server hold, what is on its way, and the call.
PageInv(p) ==
    /\ Stage(p) /\ AwayIsIdle(p) /\ InitFits(p) /\ NewsFits(p) /\ PageFits(p)
    /\ ConfirmFits(p) /\ ModeIsTold(p) /\ CommitIsTrue(p) /\ SessionFits(p)
    /\ \A q \in Pages \ {p} : RosterIsTold(p, q)

FlowInv(p) == FlowsFit(p) /\ MutedFits(p)

CInv ==
    /\ SInv /\ ClientTypeOK
    /\ room \cup joining \subseteq Pages
    /\ confirmed \subseteq room \cup joining
    /\ \A p \in Pages : PageInv(p) /\ FlowInv(p)

-----------------------------------------------------------------------------
(* What the invariant promises.                                            *)

\* Who stays is not awaited, but for its voice:init.
LEMMA AwaitedFacts ==
    ASSUME CInv, NEW p \in Pages
    PROVE  /\ Awaited(p) <=> p \in joining \/ Joins(p) # {} \/ Pending(p, "init")
           /\ page[p].on => (~Awaited(p) <=> Stays(p) /\ ~Pending(p, "init"))
<1>1. toServer[p] \in Seq(Events) /\ toPage[p] \in Seq(News) /\ toPage[p] \in Seq(NewsFor(p))
  BY DEF CInv, ClientTypeOK, PageInv, NewsFits
<1>2. "join" \in Range(toServer[p]) <=> Joins(p) # {}
  BY <1>1 DEF Range, Joins, At
<1>3. (\E news \in Range(toPage[p]) : news.is \in {"init", "full"}) <=> Pending(p, "init")
  <2>1. \A i \in 1 .. Len(toPage[p]) : toPage[p][i].is # "full"
    BY <1>1 DEF NewsFor
  <2>2. DOMAIN toPage[p] = 1 .. Len(toPage[p])
    BY <1>1
  <2>3. QED
    BY <2>1, <2>2 DEF Range, Pending, Holds
<1>4. Awaited(p) <=> p \in joining \/ Joins(p) # {} \/ Pending(p, "init")
  BY <1>2, <1>3 DEF Awaited
<1>5. Stage(p)
  BY DEF CInv, PageInv
<1>6. page[p].on => (p \notin joining /\ Joins(p) = {} <=> Stays(p))
  BY <1>5 DEF Stage, Stays
<1>7. QED
  BY <1>4, <1>6

\* The call is whole once nothing is under way.
LEMMA WholeFromInv == CInv => CallIsWhole
<1> SUFFICES ASSUME CInv, Settled, NEW p \in room \cap Pages
             PROVE  /\ page[p].on /\ page[p].mode = mode /\ page[p].roster = room \ {p}
                    /\ \A q \in room \ {p} : Hears(p, q)
  BY DEF CallIsWhole
<1>1. ASSUME NEW r \in room
      PROVE  /\ r \in Pages /\ Stays(r) /\ toPage[r] = <<>> /\ sfu[r].opening = "no"
             /\ toServer[r] = <<>>
             /\ \A k \in 1 .. Len(toPage[r]) : FALSE
             /\ page[r].mode = mode
             /\ \A q \in Pages \ {r} : q \in page[r].roster <=> q \in room
             /\ page[r].roster \subseteq Pages \ {r}
             /\ mode = "sfu" => sfu[r].session
  <2>1. r \in Pages /\ toServer[r] = <<>> /\ toPage[r] = <<>> /\ sfu[r].opening = "no" /\ PageInv(r)
    BY DEF CInv, Settled
  <2>2. Stays(r) /\ page[r].on
    BY <2>1 DEF PageInv, Stage, Stays, Joins, Leaves, At
  <2>3. \A k \in 1 .. Len(toPage[r]) : FALSE
    BY <2>1
  <2>4. \A K : Silent(toPage[r], Len(toPage[r]), K)
    BY <2>3 DEF Silent
  <2>5. page[r].mode = mode
    BY <2>1, <2>2, <2>4 DEF PageInv, ModeIsTold, ModeView
  <2>6. \A q \in Pages \ {r} : q \in page[r].roster <=> q \in room
    BY <2>1, <2>2, <2>4 DEF PageInv, RosterIsTold
  <2>7. page[r].roster \subseteq Pages \ {r}
    BY <2>1 DEF PageInv, PageFits, CInv, ClientTypeOK
  <2>8. mode = "sfu" => sfu[r].session
    BY <2>1, <2>2, <2>5 DEF PageInv, SessionFits
  <2>9. QED
    BY <2>1, <2>2, <2>3, <2>5, <2>6, <2>7, <2>8
<1>2. /\ page[p].on /\ page[p].mode = mode
      /\ page[p].roster = room \ {p}
  BY <1>1 DEF Stays, CInv
<1>3. ASSUME NEW q \in room \ {p} PROVE Hears(p, q)
  <2>1. q \in Pages /\ p \in room /\ q \in page[p].roster /\ p \in page[q].roster
    BY <1>1
  <2>2. mode \in {"mesh", "sfu"}
    BY DEF CInv, SInv, IInv, TypeOK, BasculeTypeOK, Modes, Settled
  <2>3. CASE mode = "mesh"
    <3>1. MeshLink(p, q)
      BY <1>1, <2>1, <2>3 DEF MeshLink, CInv, PageInv, PageFits
    <3>2. q \in page[p].muted => q \in sfu[p].heard
      <4>1. Stays(p) /\ ~Pending(p, "init") /\ ~Parted(toPage[p], q) /\ Leaves(q) = {}
        BY <1>1 DEF Pending, Holds, Parted, Leaves, At
      <4>2. QED
        BY <1>1, <4>1 DEF CInv, FlowInv, MutedFits
    <3>3. QED
      BY <3>1, <3>2 DEF Hears, MeshPath
  <2>4. CASE mode = "sfu"
    BY <1>1, <2>1, <2>4 DEF Hears, Settled, CanPlay
  <2>5. QED
    BY <2>2, <2>3, <2>4
<1>4. QED
  BY <1>2, <1>3

\* A peer that is gone is about to be dropped.
LEMMA GoneIsTold ==
    ASSUME CInv, NEW p \in Pages, Stays(p), ~Pending(p, "init"),
           NEW q \in page[p].roster, q \notin room
    PROVE  Parted(toPage[p], q)
<1>1. /\ toPage[p] \in Seq(News) /\ q \in Pages \ {p} /\ RosterIsTold(p, q)
      /\ Len(toPage[p]) \in Nat
  BY DEF CInv, ClientTypeOK, PageInv, PageFits
<1>2. /\ ~Silent(toPage[p], Len(toPage[p]), About(q))
      /\ LastIn(toPage[p], Len(toPage[p]), About(q), About(q) \ Naming(q))
  BY <1>1 DEF RosterIsTold
<1>3. PICK i \in 1 .. Len(toPage[p]) :
         /\ toPage[p][i] \in About(q)
         /\ \A j \in i + 1 .. Len(toPage[p]) : toPage[p][j] \notin About(q)
  BY <1>1, <1>2, LastExists
<1>4. toPage[p][i] \in About(q) \ Naming(q)
  BY <1>2, <1>3 DEF LastIn
<1>5. toPage[p][i].is # "init"
  BY DEF Pending, Holds
<1>6. QED
  BY <1>4, <1>5 DEF About, Naming, Parted

SfuStates == [opening : {"no", "asked", "setup"}, confirm : BOOLEAN,
              session : BOOLEAN, due : SUBSET Pages, heard : SUBSET Pages]

\* Where a session ends the others lose its flow, and nothing else.
LEMMA SessionEndsFacts ==
    ASSUME sfu \in [Pages -> SfuStates], NEW r \in Pages, NEW was \in SfuStates,
           sfu' = SessionEnds(r, was)
    PROVE  /\ sfu' \in [Pages -> SfuStates]
           /\ sfu'[r].opening = was.opening /\ sfu'[r].session = FALSE
           /\ sfu'[r].due = {} /\ sfu'[r].heard = {}
           /\ \A x \in Pages \ {r} :
                /\ sfu'[x].opening = sfu[x].opening
                /\ sfu'[x].session = sfu[x].session
                /\ sfu'[x].due = sfu[x].due \ {r}
                /\ sfu'[x].heard = sfu[x].heard \ {r}
<1>1. /\ sfu'[r] = [was EXCEPT !.session = FALSE, !.due = {}, !.heard = {}]
      /\ sfu'[r] \in SfuStates
  BY DEF SessionEnds, SfuStates
<1>2. ASSUME NEW x \in Pages \ {r}
      PROVE  /\ sfu'[x] \in SfuStates
             /\ sfu'[x].opening = sfu[x].opening
             /\ sfu'[x].session = sfu[x].session
             /\ sfu'[x].due = sfu[x].due \ {r}
             /\ sfu'[x].heard = sfu[x].heard \ {r}
  <2> DEFINE s == sfu[x]
  <2>1. sfu'[x] = [s EXCEPT !.due = @ \ {r}, !.heard = @ \ {r}]
    BY DEF SessionEnds
  <2>2. s \in SfuStates
    OBVIOUS
  <2>3. s.due \subseteq Pages /\ s.heard \subseteq Pages
    BY <2>2 DEF SfuStates
  <2> HIDE DEF s
  <2>4. /\ sfu'[x] \in SfuStates
        /\ sfu'[x].opening = s.opening
        /\ sfu'[x].session = s.session
        /\ sfu'[x].due = s.due \ {r}
        /\ sfu'[x].heard = s.heard \ {r}
    BY <2>1, <2>2, <2>3 DEF SfuStates
  <2>5. QED
    BY <2>4 DEF s
<1>3. sfu' = [x \in Pages |-> sfu'[x]]
  BY DEF SessionEnds
<1>4. \A x \in Pages : sfu'[x] \in SfuStates
  BY <1>1, <1>2
<1>5. sfu' \in [Pages -> SfuStates]
  BY <1>3, <1>4
<1>6. /\ sfu'[r].opening = was.opening /\ sfu'[r].session = FALSE
      /\ sfu'[r].due = {} /\ sfu'[r].heard = {}
  BY <1>1 DEF SfuStates
<1>7. QED
  BY <1>2, <1>5, <1>6

\* Nobody is refused a seat: there is one for each page.
LEMMA SeatForAll ==
    ASSUME SteadyCall, CInv, NEW p \in Pages, p \in joining
    PROVE  FreeSeats(Unseat(seat, Stale(p))) # {}
<1>1. /\ IsFiniteSet(Sockets) /\ Pages \subseteq Sockets /\ TypeOK
      /\ Seated(seat) = room /\ room \subseteq Pages \ {p} /\ MaxSeats \in Nat \ {0}
  <2>1. p \notin room
    BY DEF CInv, PageInv, Stage
  <2>2. QED
    BY <2>1, ClientAssumption, VoiceAssumption
    DEF SteadyCall, Steady, CInv, SInv, IInv, SeatsMatchRoom
<1>2. Stale(p) = {}
  BY <1>1, NobodyStale DEF SteadyCall
<1>3. Unseat(seat, Stale(p)) = seat
  BY <1>1, <1>2 DEF Unseat, TypeOK
<1>4. IsFiniteSet(Pages) /\ IsFiniteSet(room)
  BY <1>1, FS_Subset
<1>5. Cardinality(room) < MaxSeats /\ Cardinality(room) \in Nat
  <2>1. IsFiniteSet(Pages \ {p}) /\ Cardinality(Pages \ {p}) = Cardinality(Pages) - 1
    BY <1>4, FS_RemoveElement
  <2>2. Cardinality(room) <= Cardinality(Pages \ {p})
    BY <1>1, <2>1, FS_Subset
  <2>3. QED
    BY <1>1, <1>4, <2>1, <2>2, FS_CardinalityType DEF SteadyCall
<1>6. SUFFICES ASSUME FreeSeats(seat) = {} PROVE FALSE
  BY <1>3
<1> DEFINE f == [s \in room |-> seat[s]]
<1>7. f \in Surjection(room, SeatNumbers)
  <2>1. \A s \in room : seat[s] \in SeatNumbers
    BY <1>1 DEF Seated, TypeOK
  <2>2. \A n \in SeatNumbers : \E s \in room : seat[s] = n
    <3> TAKE n \in SeatNumbers
    <3>1. PICK s \in Sockets : seat[s] = n
      BY <1>6 DEF FreeSeats
    <3>2. n # NoSeat
      BY DEF SeatNumbers, NoSeat
    <3>3. QED
      BY <1>1, <3>1, <3>2 DEF Seated
  <2>3. QED
    BY <2>1, <2>2 DEF Surjection
<1>8. Cardinality(SeatNumbers) <= Cardinality(room) /\ IsFiniteSet(SeatNumbers)
  BY <1>4, <1>7, FS_Surjection
<1>9. Cardinality(SeatNumbers) = MaxSeats
  BY <1>1, FS_Interval DEF SeatNumbers
<1>10. QED
  BY <1>1, <1>5, <1>8, <1>9

\* What a steady call is spared.
LEMMA Spared ==
    ASSUME SteadyCall, CInv
    PROVE  /\ ~Abandon
           /\ \A p \in Pages : /\ ~SeatRefused(p) /\ ~SessionFails(p)
                               /\ ~OnModeMesh(p) /\ ~OnVoiceFull(p)
<1>1. ~Abandon
  BY DEF SteadyCall, Abandon
<1>2. ASSUME NEW p \in Pages PROVE ~SeatRefused(p)
  BY <1>2, SeatForAll DEF SeatRefused, JoinFull
<1>3. ASSUME NEW p \in Pages PROVE ~SessionFails(p)
  BY DEF SteadyCall, CInv, FlowInv, FlowsFit, SessionFails
<1>4. ASSUME NEW p \in Pages PROVE ~OnModeMesh(p) /\ ~OnVoiceFull(p)
  <2>1. toPage[p] \in Seq(NewsFor(p))
    BY DEF CInv, PageInv, NewsFits
  <2>2. toPage[p] # <<>> => Head(toPage[p]) \in NewsFor(p)
    BY <2>1, TailFacts
  <2>3. QED
    BY <2>2 DEF OnModeMesh, OnVoiceFull, Delivered, NewsFor
<1>5. QED
  BY <1>1, <1>2, <1>3, <1>4

\* What closes the mesh of a page in a call: its peer has a session too.
LEMMA CommitCarries ==
    ASSUME CInv, NEW p \in Pages, NEW q \in Pages, InCall(p, q), MeshLink(p, q),
           toPage[p] # <<>>, Head(toPage[p]).is = "commit"
    PROVE  sfu[p].session /\ sfu[q].session
<1>1. /\ PageInv(p) /\ PageInv(q)
      /\ toPage[p] \in Seq(News) /\ toPage[p][1] = Head(toPage[p]) /\ 1 \in 1 .. Len(toPage[p])
      /\ toPage[p][1] \in News
  BY TailFacts DEF CInv, ClientTypeOK
<1>2. page[p].on /\ page[q].on
  BY <1>1 DEF InCall, PageInv, AwayIsIdle, AwayPage
<1>3. /\ Stays(p) /\ ~Pending(p, "init")
      /\ Stays(q) /\ ~Pending(q, "init")
  BY <1>2, AwaitedFacts DEF InCall
<1>4. sfu[p].session
  BY <1>1, <1>2 DEF PageInv, ConfirmFits, Pending, Holds
<1>5. mode = "sfu"
  <2> SUFFICES ASSUME mode # "sfu" PROVE FALSE
    OBVIOUS
  <2>1. \E j \in 1 + 1 .. Len(toPage[p]) : toPage[p][j].is = "init"
    BY <1>1, <1>2, <1>3 DEF PageInv, CommitIsTrue, Renewed, Stays
  <2>2. QED
    BY <1>1, <1>3, <2>1 DEF Pending, Holds
<1>6. sfu[q].session
  <2> SUFFICES ASSUME ~sfu[q].session PROVE FALSE
    OBVIOUS
  <2>1. Silent(toPage[q], Len(toPage[q]), Inits)
    BY <1>3 DEF Silent, Inits, Pending, Holds
  <2>2. page[q].mode = "sfu"
    BY <1>1, <1>2, <1>3, <1>5, <2>1 DEF PageInv, SessionFits
  <2>3. QED
    BY <1>1, <2>2 DEF PageInv, PageFits, MeshLink
<1>7. QED
  BY <1>4, <1>6

\* A step keeps what two people in a call with each other hear by.
LEMMA NotCut ==
    ASSUME SteadyCall, CInv, [CallNext]_callVars,
           NEW p \in Pages, NEW q \in Pages,
           InCall(p, q), InCall(p, q)', Path(p, q)
    PROVE  Path(p, q)'
<1> DEFINE Sound == Path(p, q)'
           Sessions == sfu[p].session /\ sfu[q].session
<1>0. /\ ClientTypeOK
      /\ \A r \in Pages : PageInv(r) /\ FlowsFit(r)
      /\ p # q /\ page[p].on /\ page[q].on
      /\ q \in page[p].roster /\ p \in page[q].roster
      /\ q \in page'[p].roster /\ p \in page'[q].roster
      /\ ~Awaited(p) /\ ~Awaited(q) /\ ~Awaited(p)' /\ ~Awaited(q)'
  BY DEF CInv, InCall, PageInv, FlowInv, PageFits, AwayIsIdle, AwayPage
<1>1. /\ page \in [Pages -> [on : BOOLEAN, mode : Modes, roster : SUBSET Pages,
                             conns : SUBSET Pages, muted : SUBSET Pages, cross : BOOLEAN]]
      /\ sfu \in [Pages -> SfuStates]
      /\ \A r \in Pages : toPage[r] \in Seq(News)
  BY <1>0 DEF ClientTypeOK, SfuStates
<1>k. ASSUME \A r \in {p, q} : sfu[r].session => sfu'[r].session,
             MeshPath(p, q) => MeshPath(p, q)' \/ Sessions
      PROVE  Sound
  BY <1>k DEF Path
<1>2. CASE UNCHANGED <<page, sfu>>
  BY <1>2 DEF Path, MeshPath, MeshLink
<1>3. ASSUME NEW r \in Pages, SessionOpens(r) PROVE Sound
  <2>1. page' = page /\ \A x \in Pages : sfu[x].session => sfu'[x].session
    BY <1>1, <1>3 DEF SessionOpens, SfuStates
  <2>2. QED
    BY <1>k, <2>1 DEF MeshPath, MeshLink
<1>c. ASSUME NEW r \in Pages, NEW S, Crossfade(r, S),
             \A x \in Pages : sfu[x].session => sfu'[x].session,
             \A x \in S : sfu[r].session /\ sfu[x].session
      PROVE  Sound
  <2>1. \A x \in Pages : page'[x].conns = page[x].conns
    BY <1>1, <1>c DEF Crossfade
  <2>2. \A x \in Pages : x # r => page'[x].muted = page[x].muted
    BY <1>1, <1>c DEF Crossfade
  <2>3. page'[r].muted \subseteq page[r].muted \cup S
    BY <1>1, <1>c DEF Crossfade
  <2>4. MeshPath(p, q) => MeshPath(p, q)' \/ Sessions
    BY <1>c, <2>1, <2>2, <2>3 DEF MeshPath, MeshLink
  <2>5. QED
    BY <1>k, <1>c, <2>4
<1>4. ASSUME NEW r \in Pages, NEW x \in Pages \ {r}, FlowPlays(r, x) PROVE Sound
  <2>1. \A y \in Pages : sfu[y].session => sfu'[y].session
    BY <1>1, <1>4 DEF FlowPlays, SfuStates
  <2>2. QED
    BY <1>4, <1>c, <2>1 DEF FlowPlays, CanPlay
<1>5. ASSUME NEW r \in Pages, SessionReady(r) PROVE Sound
  <2>1. \A y \in Pages : sfu[y].session => sfu'[y].session
    BY <1>1, <1>5 DEF SessionReady, SfuStates
  <2>2. \A x \in sfu[r].due : sfu[r].session /\ sfu[x].session
    BY <1>0, <1>5 DEF SessionReady, FlowsFit
  <2>3. QED
    BY <1>5, <1>c, <2>1, <2>2 DEF SessionReady
<1>6. ASSUME NEW r \in Pages, OnVoiceInit(r) PROVE Sound
  <2>1. /\ toPage[r] # <<>> /\ Head(toPage[r]).is = "init"
        /\ \A x \in Pages : x # r => page'[x] = page[x]
        /\ \A y \in Pages : sfu[y].session => sfu'[y].session
    BY <1>1, <1>6 DEF OnVoiceInit, Delivered, SfuJoin, SfuStates
  <2>2. r # p /\ r # q
    <3>1. Pending(r, "init")
      BY <1>1, <2>1, TailFacts DEF Pending, Holds
    <3>2. Awaited(r)
      BY <3>1, AwaitedFacts
    <3>3. QED
      BY <1>0, <3>2
  <2>3. QED
    BY <1>k, <2>1, <2>2 DEF MeshPath, MeshLink
<1>7. ASSUME NEW r \in Pages, OnPeerJoined(r) PROVE Sound
  <2>1. /\ sfu' = sfu
        /\ \A x \in Pages : page[x].conns \subseteq page'[x].conns /\ page'[x].muted = page[x].muted
    BY <1>1, <1>7 DEF OnPeerJoined
  <2>2. QED
    BY <1>k, <2>1 DEF MeshPath, MeshLink
<1>8. ASSUME NEW r \in Pages, OnPeerLeft(r) PROVE Sound
  <2> DEFINE y == Head(toPage[r]).who
  <2>1. /\ sfu' = sfu
        /\ \A x \in Pages : x # r => page'[x] = page[x]
        /\ page'[r].roster = page[r].roster \ {y}
        /\ page'[r].conns = page[r].conns \ {y}
        /\ page'[r].muted = page[r].muted \ {y}
    BY <1>1, <1>8 DEF OnPeerLeft
  <2>2. (r = p => y # q) /\ (r = q => y # p)
    BY <1>0, <2>1
  <2> HIDE DEF y
  <2>3. MeshPath(p, q) => MeshPath(p, q)'
    BY <2>1, <2>2 DEF MeshPath, MeshLink
  <2>4. QED
    BY <1>k, <2>1, <2>3
<1>9. ASSUME NEW r \in Pages, OnModeSfu(r) PROVE Sound
  <2>1. /\ \A y \in Pages : sfu[y].session => sfu'[y].session
        /\ \A x \in Pages : page[x].conns = page'[x].conns /\ page'[x].muted = page[x].muted
    <3>1. \A y \in Pages : sfu[y].session => sfu'[y].session
      BY <1>1, <1>9 DEF OnModeSfu, SfuJoin, SfuStates
    <3>2. \/ page' = page
          \/ page' = [page EXCEPT ![r].mode = "switching", ![r].cross = TRUE]
      BY <1>9 DEF OnModeSfu
    <3>3. QED
      BY <1>1, <3>1, <3>2
  <2>2. QED
    BY <1>k, <2>1 DEF MeshPath, MeshLink
<1>10. ASSUME NEW r \in Pages, OnSfuCommit(r) PROVE Sound
  <2>1. /\ toPage[r] # <<>> /\ Head(toPage[r]).is = "commit" /\ sfu' = sfu
        /\ \A x \in Pages : x # r => page'[x] = page[x]
    BY <1>1, <1>10 DEF OnSfuCommit, Delivered
  <2>2. InCall(q, p)
    BY DEF InCall
  <2>3. MeshPath(p, q) => MeshPath(p, q)' \/ Sessions
    <3>1. MeshPath(p, q) => MeshLink(p, q) /\ MeshLink(q, p)
      BY DEF MeshPath, MeshLink
    <3>2. CASE r = p
      BY <2>1, <3>1, <3>2, CommitCarries
    <3>3. CASE r = q
      BY <2>1, <2>2, <3>1, <3>3, CommitCarries
    <3>4. CASE r # p /\ r # q
      BY <2>1, <3>4 DEF MeshPath, MeshLink
    <3>5. QED
      BY <3>2, <3>3, <3>4
  <2>4. QED
    BY <1>k, <2>1, <2>3
<1>11. ASSUME NEW r \in Pages, JoinVoice(r) \/ Rejoin(r) PROVE Sound
  <2>1. /\ sfu' = sfu
        /\ \A x \in Pages : x # r => page'[x] = page[x]
        /\ page'[r].roster = {}
    <3>1. CASE JoinVoice(r)
      BY <1>1, <3>1 DEF JoinVoice, AwayPage
    <3>2. CASE Rejoin(r)
      BY <1>1, <3>2 DEF Rejoin, Forget
    <3>3. QED
      BY <1>11, <3>1, <3>2
  <2>2. QED
    BY <1>0, <1>k, <2>1 DEF MeshPath, MeshLink
<1>12. ASSUME NEW r \in Pages, LeaveVoice(r) \/ ClosePage(r) PROVE Sound
  <2>1. /\ \A x \in Pages : x # r => page'[x] = page[x]
        /\ \A x \in Pages : x # r => sfu'[x].session = sfu[x].session
        /\ page'[r].roster = {}
    <3>1. page' = [page EXCEPT ![r] = AwayPage]
      BY <1>12 DEF LeaveVoice, ClosePage, HangsUp
    <3>2. \A x \in Pages : x # r => sfu'[x].session = sfu[x].session
      <4>1. PICK was \in SfuStates : sfu' = SessionEnds(r, was)
        BY <1>1, <1>12 DEF LeaveVoice, ClosePage, HangsUp, SfuLeave, NoSfu, SfuStates
      <4>2. sfu \in [Pages -> SfuStates]
        BY <1>1
      <4>3. \A x \in Pages \ {r} : sfu'[x].session = sfu[x].session
        BY <4>1, <4>2, SessionEndsFacts
      <4>4. QED
        BY <4>3
    <3>3. QED
      BY <1>1, <3>1, <3>2 DEF AwayPage
  <2>2. QED
    BY <1>0, <1>k, <2>1 DEF MeshPath, MeshLink
<1>13. ASSUME NEW r \in Pages,
              \/ JoinArrives(r) \/ SeatTaken(r) \/ LeaveArrives(r) \/ ReadyArrives(r)
              \/ ShareArrives(r) \/ Ignored(r) \/ ShareScreen(r)
       PROVE  Sound
  BY <1>2, <1>13 DEF JoinArrives, SeatTaken, LeaveArrives, ReadyArrives, ShareArrives, Ignored,
                     ShareScreen
<1>14. CASE UNCHANGED callVars
  BY <1>2, <1>14 DEF callVars, clientVars
<1>15. QED
  BY <1>3, <1>4, <1>5, <1>6, <1>7, <1>8, <1>9, <1>10, <1>11, <1>12, <1>13, <1>14, Spared DEF CallNext

-----------------------------------------------------------------------------
(* The server.                                                             *)

\* How a step of the server may move the mode of a steady call.
ModeStep ==
    \/ mode' = mode
    \/ mode = "mesh" /\ mode' = "switching"
    \/ mode = "switching" /\ mode' = "sfu" /\ room' \subseteq confirmed'
    \/ mode' = "mesh" /\ room' = {}

\* The parts of the invariant that are about the room alone.
RoomInv ==
    /\ SInv
    /\ room \cup joining \subseteq Pages
    /\ confirmed \subseteq room \cup joining

LEMMA RoomFacts ==
    ASSUME SteadyCall, CInv
    PROVE  /\ Steady /\ SInv /\ IInv /\ TypeOK /\ RoomInv /\ Pages \subseteq Sockets
           /\ mode \in Modes /\ room \subseteq live
  BY ClientAssumption
  DEF SteadyCall, CInv, SInv, IInv, RoomInv, TypeOK, BasculeTypeOK, MembersSeated

\* A voice:join that waits for its role.
LEMMA JoinRequested ==
    ASSUME SteadyCall, CInv, NEW p \in Pages, JoinRequest(p)
    PROVE  /\ RoomInv'
           /\ joining' = joining \cup {p}
           /\ UNCHANGED <<room, confirmed, mode>>
<1>1. SInv'
  BY RoomFacts, SteadyStep, ClientAssumption DEF Next
<1>2. QED
  BY <1>1 DEF JoinRequest, RoomInv, CInv, basculeVars

\* A voice:join that is given its seat.
LEMMA JoinAnswered ==
    ASSUME SteadyCall, CInv, NEW p \in Pages, JoinSeated(p)
    PROVE  /\ RoomInv' /\ ModeStep
           /\ p \in joining \ room
           /\ joining' = joining \ {p}
           /\ room' = room \cup {p}
           /\ confirmed' \subseteq confirmed
<1>1. SInv'
  BY RoomFacts, SteadyStep, ClientAssumption DEF Next
<1>2. Stale(p) = {} /\ joining \subseteq live
  BY RoomFacts, NobodyStale DEF SInv
<1>3. p \in joining \ room
  BY DEF JoinSeated, CInv, PageInv, Stage
<1>4. /\ joining' = joining \ {p}
      /\ room' = room \cup {p}
      /\ confirmed' \subseteq confirmed
      /\ OnSeatCount(SeatCount(seat'))
  BY <1>2, <1>3 DEF JoinSeated, Confirming
<1>5. ModeStep
  BY <1>4 DEF OnSeatCount, StartSwitch, basculeVars, ModeStep
<1>6. QED
  BY <1>1, <1>3, <1>4, <1>5 DEF RoomInv, CInv

\* A departure, by voice:leave or with the page.
LEMMA Departed ==
    ASSUME SteadyCall, CInv, NEW p \in Pages, p \in room, Depart(p), SInv', joining' = joining
    PROVE  /\ RoomInv' /\ ModeStep
           /\ room' = room \ {p}
           /\ confirmed' \subseteq confirmed \ {p}
<1>1. /\ room' = room \ {p}
      /\ OnLeave(p, SeatCount(seat'), room')
      /\ confirmed' \subseteq confirmed \ {p}
  BY DEF Depart, Confirming
<1>2. SeatCount(seat') = 0 => room' = {}
  <2>1. Seated(seat') = room' /\ IsFiniteSet(room')
    <3>1. Seated(seat') = room'
      BY DEF SInv, SeatsMatchRoom, Seated
    <3>2. room' \subseteq Sockets /\ IsFiniteSet(Sockets)
      BY <1>1, RoomFacts DEF TypeOK, Steady
    <3>3. QED
      BY <3>1, <3>2, FS_Subset
  <2>2. QED
    BY <2>1, FS_EmptySet DEF SeatCount
<1>3. mode = "switching" /\ mode' = "sfu" => room' \subseteq confirmed'
  BY RoomFacts, SteadyDepart, ClientAssumption
<1>4. ModeStep
  BY <1>1, <1>2, <1>3 DEF OnLeave, CheckAllReady, Reset, Commit, ModeStep
<1>5. QED
  BY <1>1, <1>4 DEF RoomInv, CInv

\* A confirmation of a page that waits for its role is kept for later.
LEMMA EarlyReady ==
    ASSUME SteadyCall, CInv, NEW p \in Pages, p \in joining \ room,
           OnSfuReady(p, room), Confirming(confirmed \cup {p}),
           UNCHANGED <<live, room, seat, joining, asking, kicks>>
    PROVE  RoomInv' /\ mode' = mode /\ confirmed' = confirmed \cup {p}
<1>1. mode = "switching" /\ ~ room \subseteq ready /\ SInv /\ TypeOK /\ p \in Sockets
  BY RoomFacts, ClientAssumption DEF OnSfuReady, SInv, ModeFitsRoom, NoMissedCommit
<1>2. ready' = ready \cup {p} /\ UNCHANGED <<cooldown, mode, timer>>
  BY <1>1 DEF OnSfuReady, CheckAllReady
<1>3. confirmed' = confirmed \cup {p}
  BY <1>2 DEF Confirming
<1>4. IInv'
  BY <1>1, <1>2, <1>3
  DEF SInv, IInv, TypeOK, BasculeTypeOK, SeatsDistinct, MembersSeated, OneTabPerAccount,
      SwitchIsTimed, Seated
<1>5. joining' \subseteq live' /\ SeatsMatchRoom' /\ ReadyConfirmed'
  BY <1>1, <1>2, <1>3 DEF SInv, SeatsMatchRoom, ReadyConfirmed, Seated
<1>6. ModeFitsRoom'
  BY <1>1, <1>2
  DEF SInv, ModeFitsRoom, ModeNeedsMembers, CrossingNotMissed, NoMissedCommit, SeatCount, Seated
<1>7. QED
  BY <1>2, <1>3, <1>4, <1>5, <1>6 DEF SInv, RoomInv, CInv

\* The events of a page, and the first of them.
LEMMA ArrivesFacts ==
    ASSUME ClientTypeOK, NEW p \in Pages, NEW e, Arrives(p, e)
    PROVE  /\ toServer[p] \in Seq(Events) /\ toServer[p] # <<>>
           /\ toServer'[p] = Tail(toServer[p])
           /\ \A r \in Pages \ {p} : toServer'[r] = toServer[r]
           /\ toServer' \in [Pages -> Seq(Events)]
           /\ 1 \in At(toServer[p], e)
           /\ \A f : At(toServer'[p], f) = {i - 1 : i \in At(toServer[p], f) \ {1}}
<1>1. /\ toServer \in [Pages -> Seq(Events)] /\ toServer[p] # <<>> /\ Head(toServer[p]) = e
      /\ toServer' = [toServer EXCEPT ![p] = Tail(toServer[p])]
  BY DEF ClientTypeOK, Arrives
<1>2. Tail(toServer[p]) \in Seq(Events)
  BY <1>1, TailFacts
<1>3. 1 \in At(toServer[p], e)
  BY <1>1, AtTail
<1>4. \A f : At(Tail(toServer[p]), f) = {i - 1 : i \in At(toServer[p], f) \ {1}}
  BY <1>1, AtTail
<1>5. QED
  BY <1>1, <1>2, <1>3, <1>4

\* A confirmation, of a member or of a page that waits for its role.
LEMMA ReadyTaken ==
    ASSUME SteadyCall, CInv, NEW p \in Pages, ReadyArrives(p)
    PROVE  /\ RoomInv' /\ ModeStep
           /\ UNCHANGED <<room, joining>>
           /\ confirmed' \subseteq confirmed \cup {p}
<1>1. p \in room \cup joining
  <2>1. 1 \in Readies(p)
    BY ArrivesFacts DEF ReadyArrives, CInv, Readies
  <2>2. p \notin room \cup joining => 1 \in Joins(p) \/ toServer[p] = <<>>
    BY DEF CInv, PageInv, Stage
  <2>3. QED
    BY <2>1, <2>2 DEF Readies, Joins, At
<1>2. CASE mode # "switching"
  BY <1>2, RoomFacts DEF ReadyArrives, RoomInv, ModeStep, vars, CInv, SInv, IInv, TypeOK,
     BasculeTypeOK, SeatsDistinct, MembersSeated, OneTabPerAccount, SwitchIsTimed, SeatsMatchRoom,
     ReadyConfirmed, ModeFitsRoom, ModeNeedsMembers, CrossingNotMissed, NoMissedCommit, SeatCount,
     Seated
<1>3. CASE mode = "switching" /\ p \in room
  <2>1. SfuReady(p)
    BY <1>3 DEF ReadyArrives
  <2>2. SInv' /\ (mode = "switching" /\ mode' = "sfu" => room' \subseteq confirmed')
    BY <2>1, RoomFacts, SteadyStep, ClientAssumption DEF Next
  <2>3. UNCHANGED <<room, joining>> /\ confirmed' \subseteq confirmed \cup {p}
    BY <2>1 DEF SfuReady, Confirming
  <2>4. mode' \in {"switching", "sfu"}
    BY <1>3, <2>1 DEF SfuReady, OnSfuReady, CheckAllReady, Reset, Commit
  <2>5. QED
    BY <1>3, <2>2, <2>3, <2>4 DEF RoomInv, ModeStep, CInv
<1>4. CASE mode = "switching" /\ p \notin room
  <2>1. p \in joining \ room
    BY <1>1, <1>4
  <2>2. /\ OnSfuReady(p, room)
        /\ Confirming(confirmed \cup {p})
        /\ UNCHANGED <<live, room, seat, joining, asking, kicks>>
    <3>1. {p} \cap joining = {p}
      BY <2>1
    <3>2. QED
      BY <1>4, <3>1 DEF ReadyArrives
  <2>3. QED
    BY <2>1, <2>2, EarlyReady DEF ModeStep
<1>5. QED
  BY <1>2, <1>3, <1>4

\* A share that ignores the threshold.
LEMMA ShareTaken ==
    ASSUME SteadyCall, CInv, NEW p \in Pages, ShareArrives(p)
    PROVE  /\ RoomInv' /\ ModeStep
           /\ UNCHANGED <<room, joining>>
           /\ confirmed' \subseteq confirmed
<1>1. SInv'
  BY RoomFacts, SteadyStep, ClientAssumption DEF ShareArrives, Next
<1>2. /\ UNCHANGED <<room, joining>>
      /\ confirmed' \subseteq confirmed
      /\ ModeStep
  BY DEF ShareArrives, ScreenShareIntent, OnScreenShare, StartSwitch, ModeStep, vars
<1>3. QED
  BY <1>1, <1>2 DEF RoomInv, CInv

\* What the server first tells r in a step about p ...
First(p, r, Q) ==
    \/ Q = toPage[r] /\ (r \in room' => room' = room)
    \/ \E n \in NewsFor(r) : r \in room' /\ Q = Append(toPage[r], n) /\
         \/ /\ n.is = "init" /\ n.peers = room /\ n.mode = mode
            /\ r = p /\ p \notin room /\ room' = room \cup {p}
         \/ n.is = "joined" /\ n.who = p /\ r \in room \ {p} /\ room' = room \cup {p}
         \/ n.is = "left" /\ n.who = p /\ r \in room /\ room' = room \ {p}

\* ... and after that of a switch or of a commit.
After(r, Q) ==
    \/ toPage'[r] = Q /\ (r \in room' => mode' = mode)
    \/ \E n \in NewsFor(r) : r \in room' /\ toPage'[r] = Append(Q, n) /\
         \/ n.is = "mode" /\ mode = "mesh" /\ mode' = "switching"
         \/ n.is = "commit" /\ mode = "switching" /\ mode' = "sfu" /\ r \in confirmed'

\* A step of the server about p, as the page r sees it.
ServerStep(p, r) ==
    /\ ModeStep
    /\ page'[r] = page[r]
    /\ sfu'[r].session = sfu[r].session /\ sfu'[r].opening = sfu[r].opening
    /\ \E Q : First(p, r, Q) /\ After(r, Q)
    /\ Stays(r) => Stays(r)'
    /\ Stays(r)' => Stays(r) \/ r \notin room
    /\ r \in room' \ room => Stays(r)'
    /\ r \in confirmed' => r \in confirmed \/ Readies(r) # {}
    /\ Readies(r)' # {} => Readies(r) # {}

\* What a step of the server leaves in the queue of a page.
LEMMA ToldFits ==
    ASSUME CInv, NEW p \in Pages, NEW r \in Pages, NEW Q, First(p, r, Q), After(r, Q)
    PROVE  /\ toPage[r] \in Seq(NewsFor(r)) /\ Q \in Seq(NewsFor(r))
           /\ toPage'[r] \in Seq(NewsFor(r)) /\ mode \in Modes
           /\ PageInv(r)
<1>1. toPage[r] \in Seq(NewsFor(r)) /\ mode \in Modes /\ PageInv(r)
  BY DEF CInv, PageInv, NewsFits, SInv, IInv, TypeOK, BasculeTypeOK
<1>2. Q = toPage[r] \/ \E n \in NewsFor(r) : Q = Append(toPage[r], n)
  BY DEF First
<1>3. Q \in Seq(NewsFor(r))
  BY <1>1, <1>2, AppendFacts
<1>4. toPage'[r] = Q \/ \E n \in NewsFor(r) : toPage'[r] = Append(Q, n)
  BY DEF After
<1>5. toPage'[r] \in Seq(NewsFor(r))
  BY <1>3, <1>4, AppendFacts
<1>6. QED
  BY <1>1, <1>3, <1>5

\* The news of a step of the server, in the order in which they are told.
LEMMA ServerNews ==
    ASSUME CInv, NEW p \in Pages, NEW r \in Pages, ServerStep(p, r)
    PROVE  NewsFits(r)' /\ InitFits(r)' /\ AwayIsIdle(r)' /\ PageFits(r)'
<1>1. PICK Q : First(p, r, Q) /\ After(r, Q)
  BY DEF ServerStep
<1>2. /\ toPage[r] \in Seq(NewsFor(r)) /\ Q \in Seq(NewsFor(r))
      /\ toPage'[r] \in Seq(NewsFor(r)) /\ PageInv(r)
  BY <1>1, ToldFits
<1>3. NewsFits(r)'
  BY <1>2 DEF NewsFits, NewsFor
<1>4. Holds(toPage[r], "init") => Stays(r)
  BY <1>2 DEF PageInv, InitFits, Pending
<1>5. /\ Holds(Q, "init") => Stays(r) \/ r \in room' \ room
      /\ OneInit(Q)
  <2>1. OneInit(toPage[r])
    BY <1>2 DEF PageInv, InitFits
  <2>2. r \notin room => ~Holds(toPage[r], "init")
    BY <1>4 DEF Stays
  <2>3. CASE Q = toPage[r]
    BY <1>4, <2>1, <2>3
  <2>4. ASSUME NEW n \in NewsFor(r), Q = Append(toPage[r], n), n.is = "init" => r \in room' \ room
        PROVE  /\ Holds(Q, "init") => Stays(r) \/ r \in room' \ room
               /\ OneInit(Q)
    BY <1>2, <1>4, <2>1, <2>2, <2>4, HoldsAppend
  <2>5. QED
    BY <1>1, <2>3, <2>4 DEF First
<1>6. OneInit(toPage'[r]) /\ (Holds(toPage'[r], "init") <=> Holds(Q, "init"))
  <2>1. ASSUME NEW n \in NewsFor(r), toPage'[r] = Append(Q, n), n.is # "init"
        PROVE  OneInit(toPage'[r]) /\ (Holds(toPage'[r], "init") <=> Holds(Q, "init"))
    BY <1>2, <1>5, <2>1, HoldsAppend
  <2>2. QED
    BY <1>1, <1>5, <2>1 DEF After
<1>7. InitFits(r)'
  <2>1. Holds(toPage'[r], "init") => Stays(r)'
    BY <1>5, <1>6 DEF ServerStep
  <2>2. QED
    BY <1>6, <2>1 DEF InitFits, Pending
<1>8. AwayIsIdle(r)' /\ PageFits(r)'
  BY <1>2 DEF PageInv, AwayIsIdle, PageFits, ServerStep
<1>9. QED
  BY <1>3, <1>7, <1>8

\* The session of a page that is sent a commit or that has confirmed.
LEMMA ServerConfirm ==
    ASSUME CInv, NEW p \in Pages, NEW r \in Pages, ServerStep(p, r)
    PROVE  ConfirmFits(r)' /\ CommitIsTrue(r)'
<1>1. PICK Q : First(p, r, Q) /\ After(r, Q)
  BY DEF ServerStep
<1>2. /\ toPage[r] \in Seq(NewsFor(r)) /\ Q \in Seq(NewsFor(r))
      /\ toPage'[r] \in Seq(NewsFor(r)) /\ PageInv(r)
  BY <1>1, ToldFits
<1>3. /\ Holds(Q, "commit") <=> Holds(toPage[r], "commit")
      /\ Renewed(toPage[r]) \/ r \in room' \ room => Renewed(Q)
  <2>1. ASSUME NEW n \in NewsFor(r), Q = Append(toPage[r], n), n.is # "commit",
               r \in room' \ room => n.is = "init"
        PROVE  /\ Holds(Q, "commit") <=> Holds(toPage[r], "commit")
               /\ Renewed(toPage[r]) \/ r \in room' \ room => Renewed(Q)
    BY <1>2, <2>1, HoldsAppend
  <2>2. QED
    BY <1>1, <2>1 DEF First
<1>4. Holds(toPage'[r], "commit") => Holds(toPage[r], "commit") \/ r \in confirmed'
  <2>1. ASSUME NEW n \in NewsFor(r), toPage'[r] = Append(Q, n), n.is = "commit" => r \in confirmed'
        PROVE  Holds(toPage'[r], "commit") => Holds(toPage[r], "commit") \/ r \in confirmed'
    BY <1>2, <1>3, <2>1, HoldsAppend
  <2>2. QED
    BY <1>1, <1>3, <2>1 DEF After
<1>5. ConfirmFits(r)'
  BY <1>2, <1>4 DEF PageInv, ConfirmFits, Pending, ServerStep
<1>6. ASSUME page[r].on, r \in room', mode' # "sfu" PROVE Renewed(toPage'[r])
  <2>1. mode # "sfu"
    BY <1>6 DEF ServerStep, ModeStep
  <2>2. Renewed(Q)
    BY <1>2, <1>3, <1>6, <2>1 DEF PageInv, CommitIsTrue
  <2>3. ASSUME NEW n \in NewsFor(r), toPage'[r] = Append(Q, n), n.is # "commit"
        PROVE  Renewed(toPage'[r])
    BY <1>2, <2>2, <2>3, HoldsAppend
  <2>4. QED
    BY <1>1, <1>6, <2>2, <2>3 DEF After
<1>7. CommitIsTrue(r)'
  BY <1>6 DEF CommitIsTrue, ServerStep
<1>8. QED
  BY <1>5, <1>7

\* The view of the mode when something is put at the end of a queue.
LEMMA ModeViewAppend ==
    ASSUME NEW S \in SUBSET News, NEW s \in Seq(S), NEW n \in S, NEW was
    PROVE  /\ Len(Append(s, n)) = Len(s) + 1
           /\ \A m : n \notin ModeNews =>
                (ModeView(s, Len(s), was, m) => ModeView(Append(s, n), Len(s) + 1, was, m))
           /\ \A m : n \in Telling(m) => ModeView(Append(s, n), Len(s) + 1, was, m)
           /\ InTurn(s, was) /\ (n.is = "mode" => ModeView(s, Len(s), was, "mesh"))
                => InTurn(Append(s, n), was)
<1>1. /\ Len(s) \in Nat /\ Len(Append(s, n)) = Len(s) + 1
      /\ \A i \in 1 .. Len(s) : Append(s, n)[i] = s[i]
      /\ Append(s, n)[Len(s) + 1] = n
  BY AppendFacts
<1>2. ASSUME NEW m, n \notin ModeNews, ModeView(s, Len(s), was, m)
      PROVE  ModeView(Append(s, n), Len(s) + 1, was, m)
  BY <1>2, ViewAppend DEF ModeView
<1>3. ASSUME NEW m, n \in Telling(m)
      PROVE  ModeView(Append(s, n), Len(s) + 1, was, m)
  <2>1. n \in ModeNews
    BY <1>3 DEF Telling, ModeNews
  <2>2. QED
    BY <1>3, <2>1, ViewLast DEF ModeView
<1>4. ASSUME InTurn(s, was), n.is = "mode" => ModeView(s, Len(s), was, "mesh"),
             NEW i \in 1 .. Len(s) + 1, Append(s, n)[i].is = "mode"
      PROVE  ModeView(Append(s, n), i - 1, was, "mesh")
  <2>1. i - 1 \in 0 .. Len(s)
    BY <1>1
  <2>2. ModeView(s, i - 1, was, "mesh")
    BY <1>1, <1>4 DEF InTurn
  <2>3. QED
    BY <2>1, <2>2, ViewAppend DEF ModeView
<1>5. QED
  BY <1>1, <1>2, <1>3, <1>4 DEF InTurn

\* The mode a page is told.
LEMMA ServerMode ==
    ASSUME CInv, NEW p \in Pages, NEW r \in Pages, ServerStep(p, r)
    PROVE  ModeIsTold(r)'
<1>0. SUFFICES ASSUME page[r].on
               PROVE  /\ r \in room' => ModeView(toPage'[r], Len(toPage'[r]), page[r].mode, mode')
                      /\ InTurn(toPage'[r], page[r].mode)
  BY DEF ModeIsTold, ServerStep, ModeView, InTurn
<1>1. PICK Q : First(p, r, Q) /\ After(r, Q)
  BY DEF ServerStep
<1>2. /\ toPage[r] \in Seq(NewsFor(r)) /\ Q \in Seq(NewsFor(r))
      /\ ModeIsTold(r) /\ NewsFor(r) \subseteq News
  BY <1>1, ToldFits DEF PageInv, NewsFor
<1> DEFINE was == page[r].mode
<1>3. /\ InTurn(Q, was)
      /\ r \in room' => ModeView(Q, Len(Q), was, mode)
  <2>1. CASE Q = toPage[r] /\ (r \in room' => room' = room)
    BY <1>0, <1>2, <2>1 DEF ModeIsTold
  <2>2. ASSUME NEW n \in NewsFor(r), Q = Append(toPage[r], n), n.is # "mode",
               \/ n \in Telling(mode)
               \/ n \notin ModeNews /\ r \in room
        PROVE  InTurn(Q, was) /\ ModeView(Q, Len(Q), was, mode)
    BY <1>0, <1>2, <2>2, ModeViewAppend DEF ModeIsTold
  <2>3. ASSUME NEW n \in NewsFor(r)
        PROVE  /\ n.is = "init" /\ n.mode = mode => n \in Telling(mode)
               /\ n.is \in {"joined", "left"} => n \notin ModeNews
    BY <1>2 DEF Telling, ModeNews
  <2>4. QED
    BY <1>1, <2>1, <2>2, <2>3 DEF First
<1>4. CASE toPage'[r] = Q /\ (r \in room' => mode' = mode)
  BY <1>3, <1>4
<1>5. ASSUME NEW n \in NewsFor(r), toPage'[r] = Append(Q, n), r \in room', n \in Telling(mode'),
             n.is = "mode" => mode = "mesh"
      PROVE  InTurn(toPage'[r], was) /\ ModeView(toPage'[r], Len(toPage'[r]), was, mode')
  BY <1>2, <1>3, <1>5, ModeViewAppend
<1>6. ASSUME NEW n \in NewsFor(r)
      PROVE  /\ n.is = "mode" /\ mode' = "switching" => n \in Telling(mode')
             /\ n.is = "commit" /\ mode' = "sfu" => n \in Telling(mode')
  BY <1>2 DEF Telling
<1>7. QED
  BY <1>1, <1>4, <1>5, <1>6 DEF After

\* The session a page needs once the channel is in SFU mode.
LEMMA ServerSession ==
    ASSUME CInv, NEW p \in Pages, NEW r \in Pages, ServerStep(p, r)
    PROVE  SessionFits(r)'
<1>1. PICK Q : First(p, r, Q) /\ After(r, Q)
  BY DEF ServerStep
<1>2. /\ toPage[r] \in Seq(NewsFor(r)) /\ Q \in Seq(NewsFor(r))
      /\ PageInv(r) /\ NewsFor(r) \subseteq News /\ mode \in Modes
  BY <1>1, ToldFits DEF NewsFor
<1>3. SUFFICES ASSUME page[r].on, Stays(r)', mode' = "sfu", ~sfu[r].session
               PROVE  /\ Silent(toPage'[r], Len(toPage'[r]), Inits) => page[r].mode = "sfu"
                      /\ LastIn(toPage'[r], Len(toPage'[r]), Inits, Telling("sfu"))
  BY <1>2 DEF SessionFits, PageInv, ServerStep
<1>4. r \in room' /\ r \notin confirmed'
  <2>1. r \in room' /\ ConfirmFits(r)'
    BY <1>3, ServerConfirm DEF Stays
  <2>2. QED
    BY <1>3, <2>1 DEF ConfirmFits, ServerStep
<1>5. mode = "sfu" /\ toPage'[r] = Q
  BY <1>1, <1>3, <1>4 DEF ServerStep, ModeStep, After
<1>6. CASE Q = toPage[r] /\ room' = room
  BY <1>2, <1>3, <1>4, <1>5, <1>6 DEF PageInv, SessionFits, ServerStep
<1>7. ASSUME NEW n \in NewsFor(r), Q = Append(toPage[r], n),
             \/ n \in Inits /\ n \in Telling("sfu")
             \/ n \notin Inits /\ r \in room
      PROVE  /\ Silent(Q, Len(Q), Inits) => page[r].mode = "sfu"
             /\ LastIn(Q, Len(Q), Inits, Telling("sfu"))
  <2>1. Len(Q) = Len(toPage[r]) + 1
    BY <1>2, <1>7, AppendFacts
  <2>2. CASE n \in Inits /\ n \in Telling("sfu")
    BY <1>2, <1>7, <2>1, <2>2, ViewLast
  <2>3. CASE n \notin Inits /\ r \in room
    <3>1. /\ Silent(toPage[r], Len(toPage[r]), Inits) => page[r].mode = "sfu"
          /\ LastIn(toPage[r], Len(toPage[r]), Inits, Telling("sfu"))
      BY <1>2, <1>3, <1>5, <2>3 DEF PageInv, SessionFits, ServerStep
    <3>2. QED
      BY <1>2, <1>7, <2>1, <2>3, <3>1, ViewAppend
  <2>4. QED
    BY <1>7, <2>2, <2>3
<1>8. ASSUME NEW n \in NewsFor(r)
      PROVE  /\ n.is = "init" /\ n.mode = mode => n \in Inits /\ n \in Telling("sfu")
             /\ n.is \in {"joined", "left"} => n \notin Inits
  BY <1>2, <1>5 DEF Inits, Telling
<1>9. QED
  BY <1>1, <1>4, <1>5, <1>6, <1>7, <1>8 DEF First

\* Who a page is told is there.
LEMMA ServerRoster ==
    ASSUME CInv, NEW p \in Pages, NEW r \in Pages, ServerStep(p, r), NEW q \in Pages \ {r}
    PROVE  RosterIsTold(r, q)'
<1>1. PICK Q : First(p, r, Q) /\ After(r, Q)
  BY DEF ServerStep
<1>2. /\ toPage[r] \in Seq(NewsFor(r)) /\ Q \in Seq(NewsFor(r))
      /\ PageInv(r) /\ NewsFor(r) \subseteq News
  BY <1>1, ToldFits DEF NewsFor
<1> DEFINE V == IF q \in room' THEN Naming(q) ELSE About(q) \ Naming(q)
           Told(s) == /\ Silent(s, Len(s), About(q)) => (q \in page[r].roster <=> q \in room')
                      /\ LastIn(s, Len(s), About(q), V)
<1>3. SUFFICES ASSUME Stays(r)' PROVE Told(toPage'[r])
  BY DEF RosterIsTold, ServerStep
<1>4. r \in room'
  BY <1>3 DEF Stays
<1>5. r \in room /\ (q \in room' <=> q \in room) => Told(toPage[r])
  BY <1>2, <1>3 DEF PageInv, RosterIsTold, ServerStep
<1>6. ASSUME NEW s \in Seq(NewsFor(r)), NEW n \in NewsFor(r),
             \/ n \in About(q) /\ n \in V
             \/ n \notin About(q) /\ Told(s)
      PROVE  Told(Append(s, n))
  <2>1. Len(Append(s, n)) = Len(s) + 1
    BY AppendFacts
  <2>2. CASE n \in About(q) /\ n \in V
    <3> HIDE DEF V, Told
    <3>1. /\ ~Silent(Append(s, n), Len(s) + 1, About(q))
          /\ LastIn(Append(s, n), Len(s) + 1, About(q), V)
      BY <2>2, ViewLast
    <3>2. QED
      BY <2>1, <3>1 DEF Told
  <2>3. CASE n \notin About(q) /\ Told(s)
    BY <2>1, <2>3, ViewAppend
  <2>4. QED
    BY <1>6, <2>2, <2>3
<1>7. Told(Q)
  <2>1. CASE Q = toPage[r] /\ room' = room
    BY <1>4, <1>5, <2>1
  <2>2. ASSUME NEW n \in NewsFor(r), Q = Append(toPage[r], n),
               n.is = "init", n.peers = room, r = p, room' = room \cup {p}
        PROVE  Told(Q)
    <3>1. n \in About(q) /\ n \in V
      BY <1>2, <2>2 DEF About, Naming
    <3>2. QED
      BY <1>2, <1>6, <2>2, <3>1
  <2>3. ASSUME NEW n \in NewsFor(r), Q = Append(toPage[r], n), r \in room,
               n.who = p, \/ n.is = "joined" /\ room' = room \cup {p}
                          \/ n.is = "left" /\ room' = room \ {p}
        PROVE  Told(Q)
    <3>1. CASE q = p
      <4>1. n \in About(q) /\ n \in V
        BY <1>2, <2>3, <3>1 DEF About, Naming
      <4>2. QED
        BY <1>2, <1>6, <2>3, <4>1
    <3>2. CASE q # p
      <4>1. n \notin About(q) /\ Told(toPage[r])
        BY <1>2, <1>5, <2>3, <3>2 DEF About
      <4>2. QED
        BY <1>2, <1>6, <2>3, <4>1
    <3>3. QED
      BY <3>1, <3>2
  <2>4. QED
    BY <1>1, <1>4, <2>1, <2>2, <2>3 DEF First
<1>8. ASSUME NEW n \in NewsFor(r), n.is \in {"mode", "commit"} PROVE n \notin About(q)
  BY <1>8 DEF About
<1>9. QED
  BY <1>1, <1>2, <1>4, <1>6, <1>7, <1>8 DEF After

\* What a step of the server keeps of what is on its way to a page.
LEMMA ServerKeeps ==
    ASSUME CInv, NEW p \in Pages, NEW r \in Pages, ServerStep(p, r), Stage(r)'
    PROVE  PageInv(r)'
BY ServerNews, ServerConfirm, ServerMode, ServerSession, ServerRoster DEF PageInv

-----------------------------------------------------------------------------
(* What the server sends.                                                  *)

Queues == [Pages -> Seq(News)]

LEMMA SentFacts ==
    ASSUME NEW queues \in Queues, NEW S, NEW n \in News
    PROVE  /\ Sent(queues, S, n) \in Queues
           /\ \A r \in Pages : r \in S => Sent(queues, S, n)[r] = Append(queues[r], n)
           /\ \A r \in Pages : r \notin S => Sent(queues, S, n)[r] = queues[r]
<1>1. \A r \in Pages : queues[r] \in Seq(News) /\ Append(queues[r], n) \in Seq(News)
  BY AppendFacts DEF Queues
<1>2. Sent(queues, S, n) \in Queues
  BY <1>1 DEF Sent, Queues
<1>3. ASSUME NEW r \in Pages
      PROVE  Sent(queues, S, n)[r] = IF r \in S THEN Append(queues[r], n) ELSE queues[r]
  BY DEF Sent
<1>4. QED
  BY <1>2, <1>3

\* A switch or a commit is told last.
LEMMA SwitchFacts ==
    ASSUME ModeStep, NEW queues \in Queues, room' \subseteq Pages
    PROVE  /\ SwitchSent(queues) \in Queues
           /\ \A r \in Pages : toPage'[r] = SwitchSent(queues)[r] => After(r, queues[r])
<1>1. ASSUME NEW r \in Pages
      PROVE  [is |-> "mode", mode |-> "sfu"] \in NewsFor(r) /\ [is |-> "commit"] \in NewsFor(r)
  BY DEF NewsFor, News
<1>2. [is |-> "mode", mode |-> "sfu"] \in News /\ [is |-> "commit"] \in News
  BY DEF News
<1>3. CASE mode' = mode \/ room' = {}
  BY <1>3 DEF SwitchSent, After
<1>4. CASE room' # {} /\ mode = "mesh" /\ mode' = "switching"
  <2> DEFINE n == [is |-> "mode", mode |-> "sfu"]
  <2>1. SwitchSent(queues) = Sent(queues, room', n)
    BY <1>4 DEF SwitchSent
  <2>2. /\ n.is = "mode" /\ n \in News
        /\ \A r \in Pages : n \in NewsFor(r)
    BY <1>1, <1>2
  <2> HIDE DEF n
  <2>3. /\ Sent(queues, room', n) \in Queues
        /\ \A r \in Pages : r \in room' => Sent(queues, room', n)[r] = Append(queues[r], n)
        /\ \A r \in Pages : r \notin room' => Sent(queues, room', n)[r] = queues[r]
    BY <2>2, SentFacts
  <2>4. QED
    BY <1>4, <2>1, <2>2, <2>3 DEF After
<1>5. CASE room' # {} /\ mode = "switching" /\ mode' = "sfu" /\ room' \subseteq confirmed'
  <2> DEFINE n == [is |-> "commit"]
  <2>1. SwitchSent(queues) = Sent(queues, room', n)
    BY <1>5 DEF SwitchSent
  <2>2. /\ n.is = "commit" /\ n \in News
        /\ \A r \in Pages : n \in NewsFor(r)
    BY <1>1, <1>2
  <2> HIDE DEF n
  <2>3. /\ Sent(queues, room', n) \in Queues
        /\ \A r \in Pages : r \in room' => Sent(queues, room', n)[r] = Append(queues[r], n)
        /\ \A r \in Pages : r \notin room' => Sent(queues, room', n)[r] = queues[r]
    BY <2>2, SentFacts
  <2>4. QED
    BY <1>5, <2>1, <2>2, <2>3 DEF After
<1>6. QED
  BY <1>3, <1>4, <1>5 DEF ModeStep

\* What a newcomer and the members are told of a join.
LEMMA JoinTold ==
    ASSUME CInv, NEW p \in Pages, NEW r \in Pages,
           p \notin room, room' = room \cup {p}, ModeStep,
           LET init == Sent(toPage, {p}, [is |-> "init", peers |-> room \ {p}, mode |-> mode])
               told == Sent(init, room' \ {p}, [is |-> "joined", who |-> p])
           IN  toPage' = SwitchSent(told)
    PROVE  toPage' \in Queues /\ \E Q : First(p, r, Q) /\ After(r, Q)
<1> DEFINE i == [is |-> "init", peers |-> room \ {p}, mode |-> mode]
           j == [is |-> "joined", who |-> p]
           init == Sent(toPage, {p}, i)
           told == Sent(init, room' \ {p}, j)
<1>1. toPage \in Queues /\ room \subseteq Pages /\ mode \in Modes
  BY DEF CInv, ClientTypeOK, Queues, SInv, IInv, TypeOK, BasculeTypeOK
<1>2. /\ i \in News /\ i.is = "init" /\ i.peers = room /\ i.mode = mode
      /\ j \in News /\ j.is = "joined" /\ j.who = p
      /\ r = p => i \in NewsFor(r)
      /\ r # p => j \in NewsFor(r)
  BY <1>1 DEF News, NewsFor
<1>3. toPage' = SwitchSent(told)
  OBVIOUS
<1> HIDE DEF i, j
<1>4. /\ init \in Queues
      /\ init[p] = Append(toPage[p], i)
      /\ r # p => init[r] = toPage[r]
  BY <1>1, <1>2, SentFacts
<1> HIDE DEF init
<1>5. /\ told \in Queues
      /\ r \in room' \ {p} => told[r] = Append(init[r], j)
      /\ r \notin room' \ {p} => told[r] = init[r]
  BY <1>2, <1>4, SentFacts
<1> HIDE DEF told
<1>6. toPage' \in Queues /\ After(r, told[r])
  BY <1>1, <1>3, <1>5, SwitchFacts
<1>7. First(p, r, told[r])
  BY <1>2, <1>4, <1>5 DEF First
<1>8. QED
  BY <1>6, <1>7

\* What the members that stay are told of a departure.
LEMMA DepartureTold ==
    ASSUME CInv, NEW p \in Pages, NEW r \in Pages,
           p \in room, room' = room \ {p}, ModeStep
    PROVE  /\ DepartureSent(p) \in Queues
           /\ toPage'[r] = DepartureSent(p)[r] => \E Q : First(p, r, Q) /\ After(r, Q)
<1> DEFINE n == [is |-> "left", who |-> p]
           told == Sent(toPage, room', n)
<1>1. toPage \in Queues /\ room \subseteq Pages /\ mode \in Modes
  BY DEF CInv, ClientTypeOK, Queues, SInv, IInv, TypeOK, BasculeTypeOK
<1>2. /\ n \in News /\ n.is = "left" /\ n.who = p
      /\ r # p => n \in NewsFor(r)
  BY <1>1 DEF News, NewsFor
<1>3. DepartureSent(p) = SwitchSent(told)
  BY DEF DepartureSent
<1> HIDE DEF n
<1>4. /\ told \in Queues
      /\ r \in room' => told[r] = Append(toPage[r], n)
      /\ r \notin room' => told[r] = toPage[r]
  BY <1>1, <1>2, SentFacts
<1> HIDE DEF told
<1>5. /\ DepartureSent(p) \in Queues
      /\ toPage'[r] = DepartureSent(p)[r] => After(r, told[r])
  BY <1>1, <1>3, <1>4, SwitchFacts
<1>6. First(p, r, told[r])
  BY <1>2, <1>4 DEF First
<1>7. QED
  BY <1>5, <1>6

-----------------------------------------------------------------------------
(* The steps of the server, one by one.                                    *)

\* Nothing that is on its way gets lost, and a newcomer is told who is there.
LEMMA ServerGrows ==
    ASSUME CInv, NEW p \in Pages, NEW r \in Pages, NEW Q, First(p, r, Q), After(r, Q)
    PROVE  /\ \A q : Parted(toPage[r], q) => Parted(Q, q)
           /\ \A q : Parted(Q, q) => Parted(toPage'[r], q)
           /\ Holds(toPage[r], "init") => Holds(Q, "init")
           /\ Holds(Q, "init") => Holds(toPage'[r], "init")
           /\ r \in room' \ room => Holds(Q, "init")
<1>1. /\ toPage[r] \in Seq(NewsFor(r)) /\ Q \in Seq(NewsFor(r)) /\ toPage'[r] \in Seq(NewsFor(r))
  BY ToldFits
<1>2. ASSUME NEW s \in Seq(NewsFor(r)), NEW n \in NewsFor(r)
      PROVE  /\ \A q : Parted(s, q) => Parted(Append(s, n), q)
             /\ Holds(s, "init") => Holds(Append(s, n), "init")
             /\ n.is = "init" => Holds(Append(s, n), "init")
  BY PartedAppend, HoldsAppend
<1>3. /\ \A q : Parted(toPage[r], q) => Parted(Q, q)
      /\ Holds(toPage[r], "init") => Holds(Q, "init")
  <2>1. Q = toPage[r] \/ \E n \in NewsFor(r) : Q = Append(toPage[r], n)
    BY DEF First
  <2>2. QED
    BY <1>1, <1>2, <2>1
<1>4. /\ \A q : Parted(Q, q) => Parted(toPage'[r], q)
      /\ Holds(Q, "init") => Holds(toPage'[r], "init")
  <2>1. toPage'[r] = Q \/ \E n \in NewsFor(r) : toPage'[r] = Append(Q, n)
    BY DEF After
  <2>2. QED
    BY <1>1, <1>2, <2>1
<1>5. r \in room' \ room => Holds(Q, "init")
  <2>1. r \in room' \ room => \E n \in NewsFor(r) : Q = Append(toPage[r], n) /\ n.is = "init"
    BY DEF First
  <2>2. QED
    BY <1>1, <1>2, <2>1
<1>6. QED
  BY <1>3, <1>4, <1>5

\* Flows are not touched by the server; a departure it takes, it tells.
LEMMA ServerFlows ==
    ASSUME CInv, NEW p \in Pages, NEW r \in Pages, ServerStep(p, r), sfu' = sfu,
           \A q \in Pages : Leaves(q) # {} => Leaves(q)' # {} \/ (q = p /\ p \in room \ room')
    PROVE  FlowInv(r)'
<1>1. PICK Q : First(p, r, Q) /\ After(r, Q)
  BY DEF ServerStep
<1>2. /\ toPage[r] \in Seq(NewsFor(r)) /\ Q \in Seq(NewsFor(r))
      /\ toPage'[r] \in Seq(NewsFor(r)) /\ FlowsFit(r) /\ MutedFits(r)
      /\ page'[r] = page[r] /\ page[r].muted \subseteq Pages
  BY <1>1, ToldFits DEF CInv, FlowInv, ServerStep, ClientTypeOK
<1>3. FlowsFit(r)'
  BY <1>2 DEF FlowsFit
<1>4. SUFFICES ASSUME Stays(r)', ~Pending(r, "init")', NEW q \in page[r].muted
               PROVE  q \in sfu[r].heard \/ Leaves(q)' # {} \/ Parted(toPage'[r], q)
  BY <1>2, <1>3 DEF FlowInv, MutedFits
<1>5. ~Holds(Q, "init") /\ ~Holds(toPage[r], "init")
  BY <1>1, <1>4, ServerGrows DEF Pending
<1>6. Stays(r) /\ r \in room'
  <2>1. r \in room \/ Holds(Q, "init")
    BY <1>1, <1>4, ServerGrows DEF Stays
  <2>2. QED
    BY <1>4, <1>5, <2>1 DEF ServerStep, Stays
<1>7. q \in sfu[r].heard \/ Leaves(q) # {} \/ Parted(toPage[r], q)
  BY <1>2, <1>5, <1>6 DEF MutedFits, Pending
<1>8. Parted(toPage[r], q) => Parted(Q, q)
  BY <1>1, ServerGrows
<1>9. Parted(Q, q) => Parted(toPage'[r], q)
  BY <1>1, ServerGrows
<1>10. Leaves(q) # {} => Leaves(q)' # {} \/ Parted(Q, q)
  <2>1. SUFFICES ASSUME q = p, p \in room \ room' PROVE Parted(Q, q)
    BY <1>2
  <2>2. PICK n \in NewsFor(r) : Q = Append(toPage[r], n) /\ n.is = "left" /\ n.who = q
    BY <1>1, <1>6, <2>1 DEF First
  <2>3. QED
    BY <1>2, <2>2, PartedAppend
<1>11. QED
  BY <1>7, <1>8, <1>9, <1>10

\* A step of the server that takes an event of p, or ends its voice:join.
LEMMA ServerMoves ==
    ASSUME SteadyCall, CInv, NEW p \in Pages,
           UNCHANGED <<page, sfu, moves>>, RoomInv', ModeStep,
           toServer' \in [Pages -> Seq(Events)], toPage' \in Queues,
           \A r \in Pages : \E Q : First(p, r, Q) /\ After(r, Q),
           \A r \in Pages \ {p} : /\ toServer'[r] = toServer[r]
                                  /\ r \in room' <=> r \in room
                                  /\ r \in joining' <=> r \in joining
                                  /\ r \in confirmed' => r \in confirmed,
           Stage(p)',
           Stays(p) => Stays(p)',
           Stays(p)' => Stays(p) \/ p \notin room,
           p \in room' \ room => Stays(p)',
           p \in confirmed' => p \in confirmed \/ Readies(p) # {},
           Readies(p)' # {} => Readies(p) # {},
           Leaves(p) # {} => Leaves(p)' # {} \/ p \in room \ room'
    PROVE  CInv'
<1>1. ClientTypeOK'
  BY DEF CInv, ClientTypeOK, Queues
<1>2. ASSUME NEW r \in Pages
      PROVE  Stage(r)' /\ ServerStep(p, r) /\ (Leaves(r) # {} => Leaves(r)' # {} \/ (r = p /\ p \in room \ room'))
  <2>1. CASE r = p
    BY <2>1 DEF ServerStep
  <2>2. CASE r # p
    <3>1. /\ Leaves(r)' = Leaves(r) /\ Joins(r)' = Joins(r) /\ Readies(r)' = Readies(r)
      BY <2>2 DEF Leaves, Joins, Readies
    <3>2. Stays(r)' <=> Stays(r)
      BY <2>2, <3>1 DEF Stays
    <3>3. Stage(r)
      BY DEF CInv, PageInv
    <3>4. Stage(r)'
      BY <2>2, <3>1, <3>3 DEF Stage
    <3>5. QED
      BY <2>2, <3>1, <3>2, <3>4 DEF ServerStep
  <2>3. QED
    BY <2>1, <2>2
<1>3. ASSUME NEW r \in Pages PROVE PageInv(r)' /\ FlowInv(r)'
  BY <1>2, ServerKeeps, ServerFlows
<1>4. QED
  BY <1>1, <1>3 DEF RoomInv, CInv

LEMMA JoinArrivesKeeps ==
    ASSUME SteadyCall, CInv, NEW p \in Pages, JoinArrives(p)
    PROVE  CInv'
<1>1. /\ RoomInv' /\ joining' = joining \cup {p}
      /\ UNCHANGED <<room, confirmed, mode, toPage, page, sfu, moves>>
  BY JoinRequested DEF JoinArrives
<1>2. /\ \A r \in Pages \ {p} : toServer'[r] = toServer[r]
      /\ toServer' \in [Pages -> Seq(Events)]
      /\ toServer[p] # <<>> /\ 1 \in Joins(p)
      /\ \A f : At(toServer'[p], f) = {i - 1 : i \in At(toServer[p], f) \ {1}}
  BY ArrivesFacts DEF JoinArrives, CInv, Joins
<1>3. Stage(p) /\ Len(toServer[p]) \in Nat
  BY DEF CInv, PageInv, ClientTypeOK
<1>4. page[p].on /\ p \notin room \cup joining /\ Leaves(p) = {} /\ Joins(p) = {1}
  <2>1. \A k \in 1 .. Len(toServer[p]) : Joins(p) # {k + 1}
    BY <1>2, <1>3
  <2>2. QED
    BY <1>2, <1>3, <2>1 DEF Stage
<1>5. Leaves(p)' = {} /\ Joins(p)' = {}
  BY <1>2, <1>4 DEF Leaves, Joins
<1>6. Stage(p)'
  BY <1>1, <1>4, <1>5 DEF Stage
<1>7. ~Stays(p) /\ ~Stays(p)'
  BY <1>1, <1>4 DEF Stays
<1>8. Readies(p)' # {} => Readies(p) # {}
  BY <1>2 DEF Readies
<1>9. \A r \in Pages : First(p, r, toPage[r]) /\ After(r, toPage[r])
  BY <1>1 DEF First, After
<1>10. toPage' \in Queues /\ ModeStep
  BY <1>1 DEF Queues, CInv, ClientTypeOK, ModeStep
<1>11. QED
  BY <1>1, <1>2, <1>4, <1>6, <1>7, <1>8, <1>9, <1>10, ServerMoves

LEMMA SeatTakenKeeps ==
    ASSUME SteadyCall, CInv, NEW p \in Pages, SeatTaken(p)
    PROVE  CInv'
<1>1. /\ RoomInv' /\ ModeStep
      /\ p \in joining \ room
      /\ joining' = joining \ {p}
      /\ room' = room \cup {p}
      /\ confirmed' \subseteq confirmed
      /\ UNCHANGED <<toServer, page, sfu, moves>>
  BY JoinAnswered DEF SeatTaken
<1>2. \A r \in Pages : toPage' \in Queues /\ \E Q : First(p, r, Q) /\ After(r, Q)
  BY <1>1, JoinTold DEF SeatTaken
<1>3. page[p].on /\ Leaves(p) = {} /\ Joins(p) = {}
  BY <1>1 DEF CInv, PageInv, Stage
<1>4. Leaves(p)' = Leaves(p) /\ Joins(p)' = Joins(p) /\ Readies(p)' = Readies(p)
  BY <1>1 DEF Leaves, Joins, Readies
<1>5. Stage(p)' /\ Stays(p)' /\ ~Stays(p)
  BY <1>1, <1>3, <1>4 DEF Stage, Stays
<1>6. toServer' \in [Pages -> Seq(Events)]
  BY <1>1 DEF CInv, ClientTypeOK
<1>7. QED
  BY <1>1, <1>2, <1>4, <1>5, <1>6, ServerMoves

LEMMA LeaveArrivesKeeps ==
    ASSUME SteadyCall, CInv, NEW p \in Pages, LeaveArrives(p)
    PROVE  CInv'
<1>1. /\ toServer[p] \in Seq(Events) /\ toServer'[p] = Tail(toServer[p]) /\ toServer[p] # <<>>
      /\ \A r \in Pages \ {p} : toServer'[r] = toServer[r]
      /\ toServer' \in [Pages -> Seq(Events)]
      /\ 1 \in Leaves(p)
      /\ \A f : At(toServer'[p], f) = {i - 1 : i \in At(toServer[p], f) \ {1}}
  BY ArrivesFacts DEF LeaveArrives, CInv, Leaves
<1>2. Stage(p) /\ Len(toServer[p]) \in Nat
  BY <1>1 DEF CInv, PageInv
<1>3. /\ p \in room \ joining /\ Leaves(p) = {1}
      /\ \/ ~page[p].on /\ Len(toServer[p]) = 1 /\ Joins(p) = {}
         \/ page[p].on /\ Joins(p) = {2}
  <2>1. \A k \in 1 .. Len(toServer[p]) : Leaves(p) = {k} => k = 1
    BY <1>1
  <2>2. Leaves(p) # {}
    BY <1>1
  <2>3. CASE \E k \in 1 .. Len(toServer[p]) : Leaves(p) = {k} /\ Joins(p) = {k + 1}
    <3>1. Leaves(p) = {1} /\ Joins(p) = {1 + 1}
      BY <2>1, <2>3
    <3>2. QED
      BY <1>1, <1>2, <2>2, <3>1 DEF Stage
  <2>4. Leaves(p) = {Len(toServer[p])} => Len(toServer[p]) = 1
    BY <1>1
  <2>5. QED
    BY <1>1, <1>2, <2>2, <2>3, <2>4 DEF Stage
<1>4. /\ Leave(p) /\ toPage' = DepartureSent(p)
      /\ UNCHANGED <<page, sfu, moves>>
  BY <1>3 DEF LeaveArrives
<1>5. SInv'
  BY <1>4, RoomFacts, SteadyStep, ClientAssumption DEF Next
<1>6. /\ RoomInv' /\ ModeStep
      /\ joining' = joining
      /\ room' = room \ {p}
      /\ confirmed' \subseteq confirmed \ {p}
  <2>1. Depart(p) /\ joining' = joining
    BY <1>4 DEF Leave
  <2>2. QED
    BY <1>3, <1>5, <2>1, Departed
<1>7. \A r \in Pages : toPage' \in Queues /\ \E Q : First(p, r, Q) /\ After(r, Q)
  <2>1. ASSUME NEW r \in Pages PROVE toPage' \in Queues /\ \E Q : First(p, r, Q) /\ After(r, Q)
    BY <1>3, <1>4, <1>6, DepartureTold
  <2>2. QED
    BY <2>1
<1>8. Stage(p)' /\ ~Stays(p)' /\ ~Stays(p)
  <2>1. Leaves(p)' = {}
    BY <1>1, <1>3 DEF Leaves
  <2>2. CASE ~page[p].on /\ Len(toServer[p]) = 1 /\ Joins(p) = {}
    <3>1. toServer'[p] = <<>>
      BY <1>1, <2>2
    <3>2. QED
      BY <1>3, <1>4, <1>6, <2>2, <3>1 DEF Stage, Stays
  <2>3. CASE page[p].on /\ Joins(p) = {2}
    <3>1. Joins(p)' = {1}
      <4>1. At(toServer'[p], "join") = {i - 1 : i \in At(toServer[p], "join") \ {1}}
        BY <1>1
      <4>2. At(toServer[p], "join") \ {1} = {2}
        BY <2>3 DEF Joins
      <4>3. {i - 1 : i \in {2}} = {1}
        OBVIOUS
      <4>4. QED
        BY <4>1, <4>2, <4>3 DEF Joins
    <3>2. QED
      BY <1>3, <1>4, <1>6, <2>1, <2>3, <3>1 DEF Stage, Stays
  <2>4. QED
    BY <1>3, <2>2, <2>3
<1>9. Readies(p)' # {} => Readies(p) # {}
  BY <1>1 DEF Readies
<1>10. QED
  BY <1>1, <1>3, <1>4, <1>6, <1>7, <1>8, <1>9, ServerMoves

\* An event that moves nobody.
LEMMA EventTaken ==
    ASSUME SteadyCall, CInv, NEW p \in Pages, NEW e \in {"ready", "share"}, Arrives(p, e),
           UNCHANGED <<page, sfu, moves, room, joining>>, RoomInv', ModeStep,
           confirmed' \subseteq confirmed \cup {p},
           e # "ready" => confirmed' \subseteq confirmed,
           toPage' = SwitchSent(toPage)
    PROVE  CInv'
<1>1. /\ toServer[p] \in Seq(Events) /\ toServer[p] # <<>>
      /\ \A r \in Pages \ {p} : toServer'[r] = toServer[r]
      /\ toServer' \in [Pages -> Seq(Events)] /\ toServer'[p] = Tail(toServer[p])
      /\ 1 \in At(toServer[p], e)
      /\ \A f : At(toServer'[p], f) = {i - 1 : i \in At(toServer[p], f) \ {1}}
  BY ArrivesFacts DEF CInv
<1>2. toPage \in Queues
  BY DEF CInv, ClientTypeOK, Queues
<1>3. toPage' \in Queues /\ \A r \in Pages : After(r, toPage[r])
  BY <1>2, SwitchFacts DEF RoomInv
<1>4. \A r \in Pages : First(p, r, toPage[r])
  BY DEF First
<1>5. 1 \notin Leaves(p) /\ 1 \notin Joins(p) /\ (Readies(p) = {} => e # "ready")
  BY <1>1 DEF Leaves, Joins, Readies, At
<1>6. /\ Leaves(p)' = {i - 1 : i \in Leaves(p)}
      /\ Joins(p)' = {i - 1 : i \in Joins(p)}
      /\ Readies(p)' # {} => Readies(p) # {}
  BY <1>1, <1>5 DEF Leaves, Joins, Readies
<1>7. Stage(p)
  BY DEF CInv, PageInv
<1>8. Len(toServer'[p]) = Len(toServer[p]) - 1 /\ Len(toServer[p]) \in Nat
  BY <1>1, TailFacts
<1>9. Stage(p)'
  <2>1. CASE /\ ~page[p].on /\ p \in room \ joining
             /\ Leaves(p) = {Len(toServer[p])} /\ Joins(p) = {}
    <3>1. Leaves(p)' = {Len(toServer'[p])} /\ Joins(p)' = {}
      BY <1>6, <1>8, <2>1
    <3>2. toServer'[p] # <<>>
      <4>1. Len(toServer[p]) # 1
        BY <1>5, <2>1
      <4>2. Len(toServer'[p]) # 0
        BY <1>8, <4>1
      <4>3. QED
        BY <4>2
    <3>3. QED
      BY <2>1, <3>1, <3>2 DEF Stage
  <2>2. CASE /\ page[p].on /\ p \in room \ joining
             /\ \E k \in 1 .. Len(toServer[p]) : Leaves(p) = {k} /\ Joins(p) = {k + 1}
    <3>1. PICK k \in 1 .. Len(toServer[p]) : Leaves(p) = {k} /\ Joins(p) = {k + 1}
      BY <2>2
    <3>2. k - 1 \in 1 .. Len(toServer'[p])
      BY <1>5, <1>8, <3>1
    <3>3. Leaves(p)' = {k - 1} /\ Joins(p)' = {(k - 1) + 1}
      BY <1>6, <3>1
    <3>4. QED
      BY <2>2, <3>2, <3>3 DEF Stage
  <2>3. CASE page[p].on /\ p \in joining \ room /\ Leaves(p) = {} /\ Joins(p) = {}
    BY <1>6, <2>3 DEF Stage
  <2>4. CASE page[p].on /\ p \in room \ joining /\ Leaves(p) = {} /\ Joins(p) = {}
    BY <1>6, <2>4 DEF Stage
  <2>5. QED
    BY <1>1, <1>5, <1>7, <2>1, <2>2, <2>3, <2>4 DEF Stage
<1>10. (Stays(p)' <=> Stays(p)) /\ (Leaves(p) # {} => Leaves(p)' # {})
  BY <1>6 DEF Stays
<1>11. QED
  BY <1>1, <1>3, <1>4, <1>5, <1>6, <1>9, <1>10, ServerMoves

LEMMA ReadyArrivesKeeps ==
    ASSUME SteadyCall, CInv, NEW p \in Pages, ReadyArrives(p)
    PROVE  CInv'
BY ReadyTaken, EventTaken DEF ReadyArrives

LEMMA ShareArrivesKeeps ==
    ASSUME SteadyCall, CInv, NEW p \in Pages, ShareArrives(p)
    PROVE  CInv'
BY ShareTaken, EventTaken DEF ShareArrives

-----------------------------------------------------------------------------
(* The steps of the pages.                                                 *)

PageStates == [on : BOOLEAN, mode : Modes, roster : SUBSET Pages,
               conns : SUBSET Pages, muted : SUBSET Pages, cross : BOOLEAN]

LEMMA ClientTypes ==
    ASSUME CInv
    PROVE  /\ page \in [Pages -> PageStates] /\ sfu \in [Pages -> SfuStates]
           /\ toServer \in [Pages -> Seq(Events)] /\ toPage \in Queues
           /\ moves \in 0 .. MaxMoves
BY DEF CInv, ClientTypeOK, PageStates, SfuStates, Queues

\* What a step of the pages leaves to show.
LEMMA PageDone ==
    ASSUME CInv, UNCHANGED vars,
           page' \in [Pages -> PageStates], sfu' \in [Pages -> SfuStates],
           toServer' \in [Pages -> Seq(Events)], toPage' \in Queues,
           moves' \in 0 .. MaxMoves,
           \A r \in Pages : PageInv(r)' /\ FlowInv(r)'
    PROVE  CInv'
<1>1. ClientTypeOK'
  BY DEF ClientTypeOK, PageStates, SfuStates, Queues
<1>2. SInv'
  BY DEF vars, CInv, SInv, IInv, TypeOK, BasculeTypeOK, SeatsDistinct, MembersSeated,
     OneTabPerAccount, SwitchIsTimed, SeatsMatchRoom, ReadyConfirmed, ModeFitsRoom,
     ModeNeedsMembers, CrossingNotMissed, NoMissedCommit, SeatCount, Seated
<1>3. QED
  BY <1>1, <1>2 DEF vars, CInv

\* A page that does nothing, with nothing sent to it or by it.
LEMMA Unmoved ==
    ASSUME CInv, UNCHANGED vars, NEW r \in Pages,
           page'[r] = page[r], toPage'[r] = toPage[r], toServer'[r] = toServer[r],
           sfu'[r].opening = sfu[r].opening, sfu'[r].session = sfu[r].session
    PROVE  PageInv(r)'
<1>1. /\ PageInv(r)
      /\ UNCHANGED <<room, joining, confirmed, mode>>
  BY DEF CInv, vars
<1>2. Leaves(r)' = Leaves(r) /\ Joins(r)' = Joins(r) /\ Readies(r)' = Readies(r)
  BY DEF Leaves, Joins, Readies
<1>3. (Stays(r)' <=> Stays(r)) /\ \A kind : Pending(r, kind)' <=> Pending(r, kind)
  BY <1>1, <1>2 DEF Stays, Pending
<1>4. Stage(r)' /\ AwayIsIdle(r)' /\ InitFits(r)' /\ PageFits(r)'
  BY <1>1, <1>2, <1>3 DEF PageInv, Stage, AwayIsIdle, InitFits, PageFits
<1>5. NewsFits(r)' /\ ConfirmFits(r)' /\ CommitIsTrue(r)'
  BY <1>1, <1>2, <1>3 DEF PageInv, NewsFits, NewsFor, ConfirmFits, CommitIsTrue
<1>6. ModeIsTold(r)' /\ SessionFits(r)'
  BY <1>1, <1>2, <1>3 DEF PageInv, ModeIsTold, SessionFits
<1>7. \A q \in Pages \ {r} : RosterIsTold(r, q)'
  BY <1>1, <1>2, <1>3 DEF PageInv, RosterIsTold
<1>8. QED
  BY <1>4, <1>5, <1>6, <1>7 DEF PageInv

\* A page that keeps its own flows while no session ends and no departure gets
\* lost.
LEMMA FlowsUnmoved ==
    ASSUME CInv, UNCHANGED vars, NEW r \in Pages,
           page'[r] = page[r], toPage'[r] = toPage[r], toServer'[r] = toServer[r],
           sfu'[r] = sfu[r],
           \A q \in Pages : sfu[q].session => sfu'[q].session,
           \A q \in Pages : Leaves(q) # {} => Leaves(q)' # {}
    PROVE  FlowInv(r)'
<1>1. /\ FlowsFit(r) /\ MutedFits(r)
      /\ page[r].muted \subseteq Pages /\ sfu[r].due \cup sfu[r].heard \subseteq Pages
      /\ room' = room
  BY ClientTypes DEF CInv, FlowInv, vars, PageStates, SfuStates
<1>2. FlowsFit(r)'
  BY <1>1 DEF FlowsFit
<1>3. (Stays(r)' <=> Stays(r)) /\ (Pending(r, "init")' <=> Pending(r, "init"))
  BY <1>1 DEF Stays, Joins, Pending
<1>4. MutedFits(r)'
  BY <1>1, <1>3 DEF MutedFits
<1>5. QED
  BY <1>2, <1>4 DEF FlowInv

\* What a page emits while it stays leaves it in its stage.
LEMMA StageKept ==
    ASSUME CInv, NEW p \in Pages, page[p].on, page'[p].on, UNCHANGED <<room, joining>>,
           \/ toServer'[p] = toServer[p]
           \/ \E e \in {"ready", "share"} : toServer'[p] = Append(toServer[p], e)
    PROVE  /\ Stage(p)' /\ Leaves(p)' = Leaves(p) /\ Joins(p)' = Joins(p)
           /\ Stays(p)' <=> Stays(p)
           /\ toServer'[p] \in Seq(Events)
           /\ Readies(p)' # {} => \/ Readies(p) # {}
                                  \/ toServer'[p] = Append(toServer[p], "ready")
<1>1. toServer[p] \in Seq(Events) /\ Stage(p)
  BY ClientTypes DEF CInv, PageInv
<1>2. CASE toServer'[p] = toServer[p]
  <2>1. Leaves(p)' = Leaves(p) /\ Joins(p)' = Joins(p) /\ Readies(p)' = Readies(p)
    BY <1>2 DEF Leaves, Joins, Readies
  <2>2. Stays(p)' <=> Stays(p)
    BY <2>1 DEF Stays
  <2>3. Stage(p)'
    BY <1>1, <1>2, <2>1 DEF Stage
  <2>4. QED
    BY <1>1, <1>2, <2>1, <2>2, <2>3
<1>3. ASSUME NEW e \in {"ready", "share"}, toServer'[p] = Append(toServer[p], e)
      PROVE  /\ Stage(p)' /\ Leaves(p)' = Leaves(p) /\ Joins(p)' = Joins(p)
             /\ Stays(p)' <=> Stays(p)
             /\ toServer'[p] \in Seq(Events)
             /\ e # "ready" => Readies(p)' = Readies(p)
  <2>1. e \in Events /\ e # "leave" /\ e # "join"
    BY DEF Events
  <2>2. /\ At(toServer'[p], "leave") = At(toServer[p], "leave")
        /\ At(toServer'[p], "join") = At(toServer[p], "join")
        /\ e # "ready" => At(toServer'[p], "ready") = At(toServer[p], "ready")
    BY <1>1, <1>3, <2>1, AtAppend
  <2>3. /\ Leaves(p)' = Leaves(p) /\ Joins(p)' = Joins(p)
        /\ e # "ready" => Readies(p)' = Readies(p)
    BY <2>2 DEF Leaves, Joins, Readies
  <2>4. /\ Len(toServer'[p]) = Len(toServer[p]) + 1 /\ Len(toServer[p]) \in Nat
        /\ toServer'[p] \in Seq(Events)
    BY <1>1, <1>3, <2>1, AppendFacts
  <2>5. \A k \in 1 .. Len(toServer[p]) : k \in 1 .. Len(toServer'[p])
    BY <2>4
  <2>6. Stage(p)'
    BY <1>1, <2>3, <2>5 DEF Stage
  <2>7. QED
    BY <2>3, <2>4, <2>6 DEF Stays
<1>4. QED
  BY <1>2, <1>3

\* What a page emits, and to whom.
LEMMA EmitsOne ==
    ASSUME CInv, NEW p \in Pages, NEW emits \in BOOLEAN, NEW e \in Events,
           Emit(p, IF emits THEN <<e>> ELSE <<>>)
    PROVE  /\ toServer' \in [Pages -> Seq(Events)]
           /\ \A r \in Pages \ {p} : toServer'[r] = toServer[r]
           /\ emits => toServer'[p] = Append(toServer[p], e)
           /\ ~emits => toServer'[p] = toServer[p]
<1>1. toServer \in [Pages -> Seq(Events)]
  BY ClientTypes
<1> DEFINE s == toServer[p]
<1>2. toServer' = [toServer EXCEPT ![p] = s \o IF emits THEN <<e>> ELSE <<>>]
  BY DEF Emit
<1>3. s \in Seq(Events)
  BY <1>1
<1> HIDE DEF s
<1>4. (s \o IF emits THEN <<e>> ELSE <<>>) = IF emits THEN Append(s, e) ELSE s
  BY <1>3, EmitFacts
<1>5. toServer' = [toServer EXCEPT ![p] = IF emits THEN Append(s, e) ELSE s]
  BY <1>2, <1>4
<1>6. Append(s, e) \in Seq(Events)
  BY <1>3, AppendFacts
<1>7. toServer' \in [Pages -> Seq(Events)]
  BY <1>1, <1>3, <1>5, <1>6
<1>8. QED
  BY <1>1, <1>5, <1>7 DEF s

\* The crossfade mutes peers that have a connection, and changes nothing else.
LEMMA CrossfadeFacts ==
    ASSUME CInv, NEW p \in Pages, NEW S, Crossfade(p, S)
    PROVE  /\ page' \in [Pages -> PageStates]
           /\ \A r \in Pages \ {p} : page'[r] = page[r]
           /\ page'[p].on = page[p].on /\ page'[p].mode = page[p].mode
           /\ page'[p].roster = page[p].roster /\ page'[p].conns = page[p].conns
           /\ page'[p].muted \subseteq page[p].muted \cup S
           /\ page'[p].muted \subseteq page[p].muted \cup page[p].conns
<1> DEFINE s == page[p]
           M == {q \in S \cap page[p].roster : MeshLink(p, q)}
<1>1. page \in [Pages -> PageStates]
  BY ClientTypes
<1>2. M \subseteq Pages /\ M \subseteq S /\ M \subseteq s.conns
  BY <1>1 DEF MeshLink, PageStates
<1>3. s \in PageStates /\ s.muted \subseteq Pages
  BY <1>1 DEF PageStates
<1>4. page' = page \/ page' = [page EXCEPT ![p].muted = s.muted \cup M]
  BY DEF Crossfade
<1>5. CASE page' = page
  BY <1>1, <1>5
<1>6. CASE page' = [page EXCEPT ![p].muted = s.muted \cup M]
  <2>1. page' = [page EXCEPT ![p] = [s EXCEPT !.muted = s.muted \cup M]]
    BY <1>6
  <2> HIDE DEF M, s
  <2> DEFINE t == [s EXCEPT !.muted = s.muted \cup M]
  <2>2. /\ t \in PageStates /\ t.muted = s.muted \cup M
        /\ t.on = s.on /\ t.mode = s.mode /\ t.roster = s.roster /\ t.conns = s.conns
    BY <1>2, <1>3 DEF PageStates
  <2> HIDE DEF t
  <2>3. page' = [page EXCEPT ![p] = t]
    BY <2>1 DEF t
  <2>4. page'[p] = t /\ page' \in [Pages -> PageStates]
        /\ \A r \in Pages \ {p} : page'[r] = page[r]
    BY <1>1, <2>2, <2>3
  <2>5. QED
    BY <1>2, <2>2, <2>4 DEF s
<1>7. QED
  BY <1>4, <1>5, <1>6

\* A step of one page, as the call sees it.
LEMMA PageMoves ==
    ASSUME CInv, UNCHANGED vars, NEW p \in Pages,
           page' \in [Pages -> PageStates], sfu' \in [Pages -> SfuStates],
           toServer' \in [Pages -> Seq(Events)], toPage' \in Queues,
           moves' \in 0 .. MaxMoves,
           \A r \in Pages \ {p} : /\ page'[r] = page[r] /\ sfu'[r] = sfu[r]
                                  /\ toServer'[r] = toServer[r] /\ toPage'[r] = toPage[r],
           sfu[p].session => sfu'[p].session,
           Leaves(p) # {} => Leaves(p)' # {},
           PageInv(p)', FlowInv(p)'
    PROVE  CInv'
<1>1. \A q \in Pages : Leaves(q) # {} => Leaves(q)' # {}
  BY DEF Leaves
<1>2. \A q \in Pages : sfu[q].session => sfu'[q].session
  OBVIOUS
<1>3. ASSUME NEW r \in Pages \ {p} PROVE PageInv(r)' /\ FlowInv(r)'
  BY <1>1, <1>2, Unmoved, FlowsUnmoved
<1>4. QED
  BY <1>3, PageDone

\* A page that is on, with nothing told to it.
LEMMA OwnKept ==
    ASSUME CInv, UNCHANGED vars, NEW p \in Pages, page[p].on,
           page'[p].on = page[p].on, page'[p].mode = page[p].mode,
           page'[p].roster = page[p].roster, page'[p].conns = page[p].conns,
           page'[p].muted \subseteq page[p].muted \cup page[p].conns,
           toPage'[p] = toPage[p],
           Stage(p)', Stays(p)' <=> Stays(p),
           sfu[p].session => sfu'[p].session,
           sfu[p].opening = "asked" => sfu'[p].opening = "asked" \/ sfu'[p].session,
           Readies(p)' # {} => Readies(p) # {} \/ sfu'[p].session
    PROVE  PageInv(p)'
<1>1. /\ PageInv(p)
      /\ UNCHANGED <<room, joining, confirmed, mode>>
  BY DEF CInv, vars
<1>2. \A kind : Pending(p, kind)' <=> Pending(p, kind)
  BY DEF Pending
<1>3. AwayIsIdle(p)' /\ InitFits(p)' /\ PageFits(p)'
  BY <1>1, <1>2 DEF PageInv, AwayIsIdle, InitFits, PageFits
<1>4. NewsFits(p)' /\ ConfirmFits(p)' /\ CommitIsTrue(p)'
  BY <1>1, <1>2 DEF PageInv, NewsFits, NewsFor, ConfirmFits, CommitIsTrue
<1>5. ModeIsTold(p)' /\ SessionFits(p)'
  BY <1>1, <1>2 DEF PageInv, ModeIsTold, SessionFits
<1>6. \A q \in Pages \ {p} : RosterIsTold(p, q)'
  BY <1>1, <1>2 DEF PageInv, RosterIsTold
<1>7. QED
  BY <1>3, <1>4, <1>5, <1>6 DEF PageInv

\* A page that mutes nobody but whom it hears over the SFU.
LEMMA FlowsKept ==
    ASSUME CInv, UNCHANGED vars, NEW p \in Pages, FlowsFit(p)',
           Stays(p)' => Stays(p),
           Stays(p)' /\ ~Pending(p, "init")' => ~Pending(p, "init"),
           page'[p].muted \subseteq page[p].muted \cup sfu'[p].heard,
           sfu[p].heard \subseteq sfu'[p].heard,
           \A q \in Pages : Leaves(q) # {} => Leaves(q)' # {},
           \A q \in page'[p].muted : Parted(toPage[p], q) => Parted(toPage'[p], q)
    PROVE  FlowInv(p)'
<1>1. MutedFits(p) /\ page[p].muted \subseteq Pages
  BY ClientTypes DEF CInv, FlowInv, PageStates
<1>2. MutedFits(p)'
  BY <1>1 DEF MutedFits
<1>3. QED
  BY <1>2 DEF FlowInv

-----------------------------------------------------------------------------
(* The SFU session of a page.                                              *)

LEMMA SessionOpensKeeps ==
    ASSUME CInv, NEW p \in Pages, SessionOpens(p)
    PROVE  CInv'
<1> DEFINE s == sfu[p]
           t == [s EXCEPT !.opening = "setup", !.session = TRUE, !.heard = {},
                          !.due = {q \in Pages \ {p} : sfu[q].session}]
<1>1. /\ s.opening = "asked" /\ UNCHANGED <<vars, toServer, toPage, page, moves>>
      /\ sfu' = [sfu EXCEPT ![p] = t]
  BY DEF SessionOpens
<1>2. s \in SfuStates /\ sfu \in [Pages -> SfuStates] /\ PageInv(p) /\ FlowInv(p)
  BY ClientTypes DEF CInv
<1>3. /\ t \in SfuStates /\ t.opening = "setup" /\ t.session = TRUE /\ t.heard = {}
      /\ t.due = {q \in Pages \ {p} : sfu[q].session}
  BY <1>2 DEF SfuStates
<1> HIDE DEF t
<1>4. sfu'[p] = t /\ sfu' \in [Pages -> SfuStates] /\ \A r \in Pages \ {p} : sfu'[r] = sfu[r]
  BY <1>1, <1>2, <1>3
<1>5. page[p].on /\ s.heard = {}
  BY <1>1, <1>2 DEF PageInv, AwayIsIdle, FlowInv, FlowsFit
<1>6. /\ Stage(p)' /\ Leaves(p)' = Leaves(p) /\ (Stays(p)' <=> Stays(p))
      /\ Readies(p)' # {} => Readies(p) # {}
  <2>1. toServer'[p] # Append(toServer[p], "ready") \/ Readies(p)' = Readies(p)
    BY <1>1 DEF Readies
  <2>2. Readies(p)' = Readies(p)
    BY <1>1 DEF Readies
  <2>3. QED
    BY <1>1, <1>5, <2>2, StageKept DEF vars
<1>7. FlowsFit(p)'
  BY <1>3, <1>4 DEF FlowsFit
<1>8. PageInv(p)'
  BY <1>1, <1>3, <1>4, <1>5, <1>6, OwnKept
<1>9. FlowInv(p)'
  <2>1. \A q \in Pages : Leaves(q)' = Leaves(q)
    BY <1>1 DEF Leaves
  <2>2. Pending(p, "init")' <=> Pending(p, "init")
    BY <1>1 DEF Pending
  <2>3. QED
    BY <1>1, <1>4, <1>5, <1>6, <1>7, <2>1, <2>2, FlowsKept
<1>10. QED
  BY <1>1, <1>3, <1>4, <1>6, <1>8, <1>9, ClientTypes, PageMoves

\* A flow plays, or all those that were listed.
LEMMA FlowPlaysKeeps ==
    ASSUME CInv, NEW p \in Pages, NEW q \in Pages \ {p}, FlowPlays(p, q)
    PROVE  CInv'
<1> DEFINE s == sfu[p]
           t == [s EXCEPT !.heard = s.heard \cup {q}]
<1>1. /\ s.session /\ sfu[q].session /\ UNCHANGED <<vars, toServer, toPage, moves>>
      /\ sfu' = [sfu EXCEPT ![p] = t]
      /\ Crossfade(p, {q})
  BY DEF FlowPlays, CanPlay
<1>2. s \in SfuStates /\ sfu \in [Pages -> SfuStates] /\ PageInv(p) /\ FlowInv(p)
  BY ClientTypes DEF CInv
<1>3. /\ t \in SfuStates /\ t.opening = s.opening /\ t.session = s.session
      /\ t.heard = s.heard \cup {q} /\ t.due = s.due
  BY <1>2 DEF SfuStates
<1> HIDE DEF t
<1>4. sfu'[p] = t /\ sfu' \in [Pages -> SfuStates] /\ \A r \in Pages \ {p} : sfu'[r] = sfu[r]
  BY <1>1, <1>2, <1>3
<1>5. page[p].on
  BY <1>1, <1>2 DEF PageInv, AwayIsIdle
<1>6. /\ page' \in [Pages -> PageStates]
      /\ \A r \in Pages \ {p} : page'[r] = page[r]
      /\ page'[p].on = page[p].on /\ page'[p].mode = page[p].mode
      /\ page'[p].roster = page[p].roster /\ page'[p].conns = page[p].conns
      /\ page'[p].muted \subseteq page[p].muted \cup {q}
      /\ page'[p].muted \subseteq page[p].muted \cup page[p].conns
  BY <1>1, CrossfadeFacts
<1>7. /\ Stage(p)' /\ Leaves(p)' = Leaves(p) /\ (Stays(p)' <=> Stays(p))
      /\ Readies(p)' = Readies(p)
  <2>1. Readies(p)' = Readies(p)
    BY <1>1 DEF Readies
  <2>2. QED
    BY <1>1, <1>5, <1>6, <2>1, StageKept DEF vars
<1>8. FlowsFit(p)'
  <2>1. \A r \in Pages : sfu'[r].session = sfu[r].session
    BY <1>3, <1>4
  <2>2. s.due \cup s.heard \subseteq Pages
    BY <1>2 DEF SfuStates
  <2>3. QED
    BY <1>1, <1>2, <1>3, <1>4, <2>1, <2>2 DEF FlowInv, FlowsFit
<1>9. PageInv(p)'
  BY <1>1, <1>3, <1>4, <1>5, <1>6, <1>7, OwnKept
<1>10. FlowInv(p)'
  <2>1. \A r \in Pages : Leaves(r)' = Leaves(r)
    BY <1>1 DEF Leaves
  <2>2. Pending(p, "init")' <=> Pending(p, "init")
    BY <1>1 DEF Pending
  <2>3. page'[p].muted \subseteq page[p].muted \cup sfu'[p].heard /\ s.heard \subseteq sfu'[p].heard
    BY <1>3, <1>4, <1>6
  <2>4. QED
    BY <1>1, <1>4, <1>7, <1>8, <2>1, <2>2, <2>3, FlowsKept
<1>11. QED
  BY <1>1, <1>3, <1>4, <1>6, <1>7, <1>9, <1>10, ClientTypes, PageMoves

LEMMA SessionReadyKeeps ==
    ASSUME CInv, NEW p \in Pages, SessionReady(p)
    PROVE  CInv'
<1> DEFINE s == sfu[p]
           t == [s EXCEPT !.opening = "no", !.due = {}, !.heard = s.heard \cup s.due]
<1>1. /\ s.session /\ s.opening = "setup" /\ UNCHANGED <<vars, toPage, moves>>
      /\ sfu' = [sfu EXCEPT ![p] = t]
      /\ Crossfade(p, s.due)
      /\ Emit(p, IF s.confirm THEN <<"ready">> ELSE <<>>)
  BY DEF SessionReady
<1>2. s \in SfuStates /\ sfu \in [Pages -> SfuStates] /\ PageInv(p) /\ FlowInv(p)
  BY ClientTypes DEF CInv
<1>3. /\ t \in SfuStates /\ t.opening = "no" /\ t.session = s.session
      /\ t.heard = s.heard \cup s.due /\ t.due = {}
  BY <1>2 DEF SfuStates
<1>4. s.confirm \in BOOLEAN /\ s.due \cup s.heard \subseteq Pages
  BY <1>2 DEF SfuStates
<1> HIDE DEF t
<1>5. sfu'[p] = t /\ sfu' \in [Pages -> SfuStates] /\ \A r \in Pages \ {p} : sfu'[r] = sfu[r]
  BY <1>1, <1>2, <1>3
<1>6. page[p].on
  BY <1>1, <1>2 DEF PageInv, AwayIsIdle
<1>7. /\ page' \in [Pages -> PageStates]
      /\ \A r \in Pages \ {p} : page'[r] = page[r]
      /\ page'[p].on = page[p].on /\ page'[p].mode = page[p].mode
      /\ page'[p].roster = page[p].roster /\ page'[p].conns = page[p].conns
      /\ page'[p].muted \subseteq page[p].muted \cup s.due
      /\ page'[p].muted \subseteq page[p].muted \cup page[p].conns
  BY <1>1, CrossfadeFacts
<1>8. /\ toServer' \in [Pages -> Seq(Events)]
      /\ \A r \in Pages \ {p} : toServer'[r] = toServer[r]
      /\ toServer'[p] = toServer[p] \/ toServer'[p] = Append(toServer[p], "ready")
  <2>1. "ready" \in Events
    BY DEF Events
  <2>2. QED
    BY <1>1, <1>4, <2>1, EmitsOne
<1>9. Stage(p)' /\ Leaves(p)' = Leaves(p) /\ (Stays(p)' <=> Stays(p))
  BY <1>1, <1>6, <1>7, <1>8, StageKept DEF vars
<1>10. FlowsFit(p)'
  <2>1. \A r \in Pages : sfu'[r].session = sfu[r].session
    BY <1>3, <1>5
  <2>2. QED
    BY <1>1, <1>2, <1>3, <1>4, <1>5, <2>1 DEF FlowInv, FlowsFit
<1>11. PageInv(p)'
  BY <1>1, <1>3, <1>5, <1>6, <1>7, <1>9, OwnKept
<1>12. FlowInv(p)'
  <2>1. \A r \in Pages : Leaves(r) # {} => Leaves(r)' # {}
    BY <1>8, <1>9 DEF Leaves
  <2>2. Pending(p, "init")' <=> Pending(p, "init")
    BY <1>1 DEF Pending
  <2>3. page'[p].muted \subseteq page[p].muted \cup sfu'[p].heard /\ s.heard \subseteq sfu'[p].heard
    BY <1>3, <1>5, <1>7
  <2>4. QED
    BY <1>1, <1>5, <1>9, <1>10, <2>1, <2>2, <2>3, FlowsKept
<1>13. QED
  BY <1>1, <1>3, <1>5, <1>7, <1>8, <1>9, <1>11, <1>12, ClientTypes, PageMoves

-----------------------------------------------------------------------------
(* What a page does with the news.                                         *)

\* News tells one mode.
LEMMA OneMode ==
    ASSUME NEW n \in News, NEW m, NEW w, n \in Telling(m), n \in Telling(w)
    PROVE  m = w
BY DEF Telling

\* The view of the mode once the head of a queue is taken.
LEMMA ModeViewTail ==
    ASSUME NEW S \in SUBSET News, NEW s \in Seq(S), s # <<>>, NEW was, NEW new,
           \/ s[1] \in ModeNews /\ s[1] \in Telling(new)
           \/ s[1] \notin ModeNews /\ new = was
    PROVE  /\ \A m : ModeView(s, Len(s), was, m) => ModeView(Tail(s), Len(Tail(s)), new, m)
           /\ InTurn(s, was) => InTurn(Tail(s), new)
<1>1. /\ Len(s) \in Nat \ {0} /\ Len(Tail(s)) = Len(s) - 1
      /\ \A i \in 1 .. Len(s) - 1 : Tail(s)[i] = s[i + 1]
      /\ s[1] \in News
  BY TailFacts
<1>2. ASSUME NEW m, NEW k \in 1 .. Len(s), ModeView(s, k, was, m)
      PROVE  ModeView(Tail(s), k - 1, new, m)
  <2>1. LastIn(s, k, ModeNews, Telling(m))
    BY <1>2 DEF ModeView
  <2>2. LastIn(Tail(s), k - 1, ModeNews, Telling(m))
    BY <2>1, ViewTail
  <2>3. ASSUME Silent(Tail(s), k - 1, ModeNews) PROVE new = m
    <3>1. CASE s[1] \in ModeNews /\ s[1] \in Telling(new)
      <4>1. s[1] \in Telling(m)
        BY <2>1, <2>3, <3>1, ViewTail
      <4>2. QED
        BY <1>1, <3>1, <4>1, OneMode
    <3>2. CASE s[1] \notin ModeNews /\ new = was
      <4>1. Silent(s, k, ModeNews)
        BY <2>3, <3>2, ViewTail
      <4>2. QED
        BY <1>2, <3>2, <4>1 DEF ModeView
    <3>3. QED
      BY <3>1, <3>2
  <2>4. QED
    BY <2>2, <2>3 DEF ModeView
<1>3. ASSUME NEW m, ModeView(s, Len(s), was, m)
      PROVE  ModeView(Tail(s), Len(Tail(s)), new, m)
  BY <1>1, <1>2, <1>3
<1>4. ASSUME InTurn(s, was), NEW i \in 1 .. Len(Tail(s)), Tail(s)[i].is = "mode"
      PROVE  ModeView(Tail(s), i - 1, new, "mesh")
  <2>1. i \in 1 .. Len(s) /\ i + 1 \in 1 .. Len(s) /\ (i + 1) - 1 = i /\ s[i + 1].is = "mode"
    BY <1>1, <1>4
  <2>2. ModeView(s, (i + 1) - 1, was, "mesh")
    BY <1>4, <2>1 DEF InTurn
  <2>3. ModeView(s, i, was, "mesh")
    BY <2>1, <2>2
  <2>4. QED
    BY <1>2, <2>1, <2>3
<1>5. QED
  BY <1>3, <1>4 DEF InTurn

\* The views of a queue whose head is taken.
LEMMA ViewTaken ==
    ASSUME NEW S, NEW s \in Seq(S), s # <<>>, NEW K, NEW V
    PROVE  /\ s[1] \notin K => (Silent(Tail(s), Len(s) - 1, K) <=> Silent(s, Len(s), K))
           /\ LastIn(s, Len(s), K, V) => LastIn(Tail(s), Len(s) - 1, K, V)
           /\ s[1] \in K /\ LastIn(s, Len(s), K, V) /\ Silent(Tail(s), Len(s) - 1, K) => s[1] \in V
<1>1. Len(s) \in 1 .. Len(s)
  BY TailFacts
<1>2. QED
  BY <1>1, ViewTail

\* A page that takes its next news: its mode and its roster follow what is told.
Takes(p, h) ==
    /\ UNCHANGED vars
    /\ page[p].on /\ page'[p].on
    /\ toPage[p] # <<>> /\ h = toPage[p][1] /\ toPage'[p] = Tail(toPage[p])
    /\ \/ h \in ModeNews /\ h \in Telling(page'[p].mode)
       \/ h \notin ModeNews /\ page'[p].mode = page[p].mode
    /\ \A q \in Pages \ {p} :
         \/ h \in About(q) /\ (q \in page'[p].roster <=> h \in Naming(q))
         \/ h \notin About(q) /\ (q \in page'[p].roster <=> q \in page[p].roster)

\* The session of p stays as it was, or is asked for; a page that has one may
\* confirm it.
SameSession(p) ==
    /\ sfu' \in [Pages -> SfuStates] /\ \A r \in Pages \ {p} : sfu'[r] = sfu[r]
    /\ sfu'[p].session = sfu[p].session /\ sfu'[p].heard = sfu[p].heard
    /\ FlowsFit(p)'
    /\ toServer' \in [Pages -> Seq(Events)]
    /\ \A r \in Pages \ {p} : toServer'[r] = toServer[r]
    /\ \/ toServer'[p] = toServer[p]
       \/ sfu[p].session /\ toServer'[p] = Append(toServer[p], "ready")

\* What is left to take fits what was taken.
LEMMA TakenFits ==
    ASSUME CInv, NEW p \in Pages, NEW h, Takes(p, h)
    PROVE  /\ NewsFits(p)' /\ OneInit(toPage'[p]) /\ ModeIsTold(p)' /\ CommitIsTrue(p)'
           /\ \A kind : Pending(p, kind)' => Pending(p, kind)
           /\ h.is # "init" => (Pending(p, "init") => Pending(p, "init")')
<1>1. /\ toPage[p] \in Seq(NewsFor(p)) /\ toPage[p] # <<>> /\ toPage'[p] = Tail(toPage[p])
      /\ PageInv(p) /\ NewsFor(p) \in SUBSET News /\ page[p].on
      /\ UNCHANGED <<room, mode>>
  BY DEF CInv, PageInv, NewsFits, NewsFor, Takes, vars
<1>2. Tail(toPage[p]) \in Seq(NewsFor(p))
  BY <1>1, TailFacts
<1>3. NewsFits(p)'
  BY <1>1, <1>2 DEF NewsFits, NewsFor
<1>4. /\ \A kind : Holds(toPage[p], kind) <=> toPage[p][1].is = kind \/ Holds(Tail(toPage[p]), kind)
      /\ OneInit(toPage[p]) => OneInit(Tail(toPage[p]))
      /\ Renewed(toPage[p]) => Renewed(Tail(toPage[p]))
  BY <1>1, HoldsTail
<1>5. /\ \A m : ModeView(toPage[p], Len(toPage[p]), page[p].mode, m) =>
                  ModeView(Tail(toPage[p]), Len(Tail(toPage[p])), page'[p].mode, m)
      /\ InTurn(toPage[p], page[p].mode) => InTurn(Tail(toPage[p]), page'[p].mode)
  <2>1. \/ toPage[p][1] \in ModeNews /\ toPage[p][1] \in Telling(page'[p].mode)
        \/ toPage[p][1] \notin ModeNews /\ page'[p].mode = page[p].mode
    BY DEF Takes
  <2>2. QED
    BY <1>1, <2>1, ModeViewTail
<1>6. ModeIsTold(p)'
  BY <1>1, <1>5 DEF PageInv, ModeIsTold
<1>7. OneInit(toPage'[p]) /\ CommitIsTrue(p)'
  BY <1>1, <1>4 DEF PageInv, InitFits, CommitIsTrue
<1>8. /\ \A kind : Pending(p, kind)' => Pending(p, kind)
      /\ h.is # "init" => (Pending(p, "init") => Pending(p, "init")')
  BY <1>1, <1>4 DEF Pending, Takes
<1>9. QED
  BY <1>3, <1>6, <1>7, <1>8

\* The session a page still needs.
LEMMA TakenSession ==
    ASSUME CInv, NEW p \in Pages, NEW h, Takes(p, h), sfu'[p].session = sfu[p].session,
           page'[p].mode = "sfu" => sfu'[p].session \/ sfu'[p].opening = "asked",
           Stays(p)' <=> Stays(p)
    PROVE  SessionFits(p)'
<1>1. /\ toPage[p] \in Seq(NewsFor(p)) /\ toPage[p] # <<>> /\ toPage'[p] = Tail(toPage[p])
      /\ PageInv(p) /\ NewsFor(p) \in SUBSET News /\ page[p].on
      /\ UNCHANGED <<room, mode>> /\ h = toPage[p][1]
  BY DEF CInv, PageInv, NewsFits, NewsFor, Takes, vars
<1>2. Len(toPage[p]) \in Nat \ {0} /\ Len(Tail(toPage[p])) = Len(toPage[p]) - 1 /\ h \in News
  BY <1>1, TailFacts
<1>3. SUFFICES ASSUME Stays(p), mode = "sfu", ~sfu[p].session
               PROVE  /\ Silent(Tail(toPage[p]), Len(toPage[p]) - 1, Inits) => page'[p].mode = "sfu"
                      /\ LastIn(Tail(toPage[p]), Len(toPage[p]) - 1, Inits, Telling("sfu"))
  BY <1>1, <1>2 DEF SessionFits
<1>4. /\ Silent(toPage[p], Len(toPage[p]), Inits) => page[p].mode = "sfu"
      /\ LastIn(toPage[p], Len(toPage[p]), Inits, Telling("sfu"))
  BY <1>1, <1>3 DEF PageInv, SessionFits
<1>5. LastIn(Tail(toPage[p]), Len(toPage[p]) - 1, Inits, Telling("sfu"))
  BY <1>1, <1>2, <1>4, ViewTaken
<1>6. ASSUME Silent(Tail(toPage[p]), Len(toPage[p]) - 1, Inits) PROVE page'[p].mode = "sfu"
  <2>1. CASE h \in Inits
    <3>1. h \in Telling("sfu")
      BY <1>1, <1>2, <1>4, <1>6, <2>1, ViewTaken
    <3>2. h \in ModeNews
      BY <2>1 DEF Inits, ModeNews
    <3>3. h \in Telling(page'[p].mode)
      BY <3>2 DEF Takes
    <3>4. QED
      BY <1>2, <3>1, <3>3, OneMode
  <2>2. CASE h \notin Inits
    <3>1. Silent(toPage[p], Len(toPage[p]), Inits)
      <4>1. h \notin Inits => (Silent(Tail(toPage[p]), Len(toPage[p]) - 1, Inits)
                                        <=> Silent(toPage[p], Len(toPage[p]), Inits))
        BY <1>1, ViewTaken
      <4>2. QED
        BY <1>6, <2>2, <4>1
    <3>2. page[p].mode = "sfu"
      BY <1>4, <3>1
    <3>3. h.is # "mode"
      <4>1. SUFFICES ASSUME h.is = "mode" PROVE FALSE
        OBVIOUS
      <4>2. ModeView(toPage[p], 1 - 1, page[p].mode, "mesh")
        BY <1>1, <1>2, <4>1 DEF PageInv, ModeIsTold, InTurn
      <4>3. Silent(toPage[p], 1 - 1, ModeNews)
        BY DEF Silent
      <4>4. QED
        BY <3>2, <4>2, <4>3 DEF ModeView
    <3>4. CASE h \in ModeNews
      BY <1>2, <2>2, <3>3, <3>4 DEF Takes, ModeNews, Inits, Telling
    <3>5. CASE h \notin ModeNews
      BY <3>2, <3>5 DEF Takes
    <3>6. QED
      BY <3>4, <3>5
  <2>3. QED
    BY <2>1, <2>2
<1>7. QED
  BY <1>5, <1>6

\* Who is there.
LEMMA TakenRoster ==
    ASSUME CInv, NEW p \in Pages, NEW h, Takes(p, h), NEW q \in Pages \ {p},
           Stays(p)' <=> Stays(p)
    PROVE  RosterIsTold(p, q)'
<1>1. /\ toPage[p] \in Seq(News) /\ toPage[p] # <<>> /\ toPage'[p] = Tail(toPage[p])
      /\ PageInv(p) /\ room' = room /\ h = toPage[p][1]
  BY DEF CInv, ClientTypeOK, Takes, vars
<1>2. Len(toPage[p]) \in Nat \ {0} /\ Len(Tail(toPage[p])) = Len(toPage[p]) - 1
  BY <1>1, TailFacts
<1> DEFINE V == IF q \in room THEN Naming(q) ELSE About(q) \ Naming(q)
<1>3. SUFFICES ASSUME Stays(p)
               PROVE  /\ Silent(Tail(toPage[p]), Len(toPage[p]) - 1, About(q)) =>
                            (q \in page'[p].roster <=> q \in room)
                      /\ LastIn(Tail(toPage[p]), Len(toPage[p]) - 1, About(q), V)
  BY <1>1, <1>2 DEF RosterIsTold
<1>4. /\ Silent(toPage[p], Len(toPage[p]), About(q)) => (q \in page[p].roster <=> q \in room)
      /\ LastIn(toPage[p], Len(toPage[p]), About(q), V)
  BY <1>1, <1>3 DEF PageInv, RosterIsTold
<1> HIDE DEF V
<1>5. LastIn(Tail(toPage[p]), Len(toPage[p]) - 1, About(q), V)
  BY <1>1, <1>2, <1>4, ViewTaken
<1>6. ASSUME Silent(Tail(toPage[p]), Len(toPage[p]) - 1, About(q))
      PROVE  q \in page'[p].roster <=> q \in room
  <2>1. CASE h \in About(q)
    <3>1. h \in V
      BY <1>1, <1>2, <1>4, <1>6, <2>1, ViewTaken
    <3>2. q \in page'[p].roster <=> h \in Naming(q)
      BY <2>1 DEF Takes
    <3>3. QED
      BY <3>1, <3>2 DEF V
  <2>2. CASE h \notin About(q)
    <3>1. Silent(toPage[p], Len(toPage[p]), About(q))
      <4>1. h \notin About(q) => (Silent(Tail(toPage[p]), Len(toPage[p]) - 1, About(q))
                                           <=> Silent(toPage[p], Len(toPage[p]), About(q)))
        BY <1>1, ViewTaken
      <4>2. QED
        BY <1>6, <2>2, <4>1
    <3>2. QED
      BY <1>4, <2>2, <3>1 DEF Takes
  <2>3. QED
    BY <2>1, <2>2
<1>7. QED
  BY <1>5, <1>6

\* A page that takes its next news keeps what it knows and what it hears.
LEMMA TakenKeeps ==
    ASSUME CInv, NEW p \in Pages, NEW h, Takes(p, h), SameSession(p),
           page' \in [Pages -> PageStates], toPage' \in Queues, moves' = moves,
           \A r \in Pages \ {p} : page'[r] = page[r] /\ toPage'[r] = toPage[r],
           PageFits(p)',
           page'[p].mode = "sfu" => sfu'[p].session \/ sfu'[p].opening = "asked",
           \/ page'[p].muted = {}
           \/ /\ h.is # "init" /\ page'[p].muted \subseteq page[p].muted
              /\ \A q \in page'[p].muted : ~(h.is = "left" /\ h.who = q)
    PROVE  CInv'
<1>1. /\ page[p].on /\ page'[p].on /\ UNCHANGED <<vars, room, joining, confirmed, mode>>
      /\ PageInv(p) /\ FlowInv(p)
  BY DEF Takes, vars, CInv
<1>2. /\ Stage(p)' /\ Leaves(p)' = Leaves(p) /\ (Stays(p)' <=> Stays(p))
      /\ Readies(p)' # {} => Readies(p) # {} \/ sfu[p].session
  <2>1. toServer'[p] = toServer[p] => Readies(p)' = Readies(p)
    BY DEF Readies
  <2>2. QED
    BY <1>1, <2>1, StageKept DEF SameSession
<1>3. /\ NewsFits(p)' /\ OneInit(toPage'[p]) /\ ModeIsTold(p)' /\ CommitIsTrue(p)'
      /\ \A kind : Pending(p, kind)' => Pending(p, kind)
      /\ h.is # "init" => (Pending(p, "init") => Pending(p, "init")')
  BY TakenFits
<1>4. SessionFits(p)' /\ \A q \in Pages \ {p} : RosterIsTold(p, q)'
  BY <1>2, TakenSession, TakenRoster DEF SameSession
<1>5. AwayIsIdle(p)' /\ InitFits(p)'
  BY <1>1, <1>2, <1>3 DEF AwayIsIdle, InitFits, PageInv
<1>6. ConfirmFits(p)'
  BY <1>1, <1>2, <1>3 DEF ConfirmFits, PageInv, SameSession
<1>7. PageInv(p)'
  BY <1>2, <1>3, <1>4, <1>5, <1>6 DEF PageInv
<1>8. \A q \in Pages : Leaves(q) # {} => Leaves(q)' # {}
  BY <1>2 DEF Leaves, SameSession
<1>9. FlowInv(p)'
  <2>1. FlowsFit(p)' /\ sfu[p].heard \subseteq sfu'[p].heard
    BY DEF SameSession
  <2>2. CASE page'[p].muted = {}
    BY <2>1, <2>2 DEF FlowInv, MutedFits
  <2>3. CASE /\ h.is # "init" /\ page'[p].muted \subseteq page[p].muted
             /\ \A q \in page'[p].muted : ~(h.is = "left" /\ h.who = q)
    <3>1. toPage[p] \in Seq(News) /\ toPage[p] # <<>> /\ h = toPage[p][1] /\ toPage'[p] = Tail(toPage[p])
      BY DEF Takes, CInv, ClientTypeOK
    <3>2. \A q \in page'[p].muted : Parted(toPage[p], q) => Parted(toPage'[p], q)
      BY <2>3, <3>1, PartedTail
    <3>3. QED
      BY <1>1, <1>2, <1>3, <1>8, <2>1, <2>3, <3>2, FlowsKept
  <2>4. QED
    BY <2>2, <2>3
<1>10. QED
  BY <1>1, <1>2, <1>7, <1>9, ClientTypes, PageMoves DEF SameSession

\* The next news of a page.
LEMMA DeliveredFacts ==
    ASSUME CInv, NEW p \in Pages, NEW kind, Delivered(p, kind)
    PROVE  /\ UNCHANGED <<vars, moves>> /\ page[p].on
           /\ toPage[p] # <<>> /\ toPage'[p] = Tail(toPage[p])
           /\ \A r \in Pages \ {p} : toPage'[r] = toPage[r]
           /\ toPage' \in Queues
           /\ Head(toPage[p]) = toPage[p][1]
           /\ toPage[p][1] \in NewsFor(p) /\ toPage[p][1] \in News /\ toPage[p][1].is = kind
           /\ kind \in {"init", "mode"} => sfu[p].opening = "no"
           /\ page \in [Pages -> PageStates] /\ page[p] \in PageStates
<1>1. /\ toPage \in Queues /\ toPage[p] \in Seq(NewsFor(p))
      /\ page \in [Pages -> PageStates]
  BY ClientTypes DEF CInv, PageInv, NewsFits
<1>2. /\ UNCHANGED <<vars, moves>> /\ page[p].on
      /\ toPage[p] # <<>> /\ Head(toPage[p]).is = kind
      /\ toPage' = [toPage EXCEPT ![p] = Tail(toPage[p])]
      /\ kind \in {"init", "mode"} => sfu[p].opening = "no"
  BY DEF Delivered
<1>3. /\ Head(toPage[p]) = toPage[p][1] /\ toPage[p][1] \in NewsFor(p)
      /\ Tail(toPage[p]) \in Seq(News)
  BY <1>1, <1>2, TailFacts DEF Queues
<1>4. toPage' \in Queues /\ toPage'[p] = Tail(toPage[p])
  BY <1>1, <1>2, <1>3 DEF Queues
<1>5. \A r \in Pages \ {p} : toPage'[r] = toPage[r]
  BY <1>1, <1>2 DEF Queues
<1>6. QED
  BY <1>1, <1>2, <1>3, <1>4, <1>5 DEF NewsFor

\* A session that stays as it was.
LEMMA SessionStays ==
    ASSUME CInv, NEW p \in Pages, UNCHANGED <<sfu, toServer>>
    PROVE  SameSession(p) /\ sfu'[p].opening = sfu[p].opening
<1>1. /\ sfu \in [Pages -> SfuStates] /\ toServer \in [Pages -> Seq(Events)]
      /\ FlowsFit(p)
  BY ClientTypes DEF CInv, FlowInv
<1>2. FlowsFit(p)'
  BY <1>1 DEF FlowsFit
<1>3. QED
  BY <1>1, <1>2 DEF SameSession

\* sfuJoin: a session that is there is confirmed, another one is asked for.
LEMMA SfuJoinFacts ==
    ASSUME CInv, NEW p \in Pages, NEW confirm \in BOOLEAN, SfuJoin(p, confirm)
    PROVE  SameSession(p) /\ (sfu'[p].session \/ sfu'[p].opening = "asked")
<1> DEFINE s == sfu[p]
           t == [s EXCEPT !.opening = "asked", !.confirm = confirm]
<1>1. /\ sfu \in [Pages -> SfuStates] /\ toServer \in [Pages -> Seq(Events)]
      /\ s \in SfuStates /\ FlowsFit(p)
  BY ClientTypes DEF CInv, FlowInv
<1>2. CASE s.session
  <2>1. sfu' = sfu /\ Emit(p, IF confirm THEN <<"ready">> ELSE <<>>)
    BY <1>2 DEF SfuJoin
  <2>2. /\ toServer' \in [Pages -> Seq(Events)]
        /\ \A r \in Pages \ {p} : toServer'[r] = toServer[r]
        /\ toServer'[p] = toServer[p] \/ toServer'[p] = Append(toServer[p], "ready")
    <3>1. "ready" \in Events
      BY DEF Events
    <3>2. QED
      BY <2>1, <3>1, EmitsOne
  <2>3. FlowsFit(p)'
    BY <1>1, <2>1 DEF FlowsFit
  <2>4. QED
    BY <1>1, <1>2, <2>1, <2>2, <2>3 DEF SameSession
<1>3. CASE ~s.session
  <2>1. sfu' = [sfu EXCEPT ![p] = t] /\ toServer' = toServer
    BY <1>3 DEF SfuJoin
  <2>2. /\ t \in SfuStates /\ t.opening = "asked" /\ t.session = s.session
        /\ t.heard = s.heard /\ t.due = s.due
    BY <1>1 DEF SfuStates
  <2> HIDE DEF t
  <2>3. sfu'[p] = t /\ sfu' \in [Pages -> SfuStates] /\ \A r \in Pages \ {p} : sfu'[r] = sfu[r]
    BY <1>1, <2>1, <2>2
  <2>4. FlowsFit(p)'
    BY <1>1, <1>3, <2>2, <2>3 DEF FlowsFit
  <2>5. QED
    BY <1>1, <1>3, <2>1, <2>2, <2>3, <2>4 DEF SameSession
<1>4. QED
  BY <1>2, <1>3

LEMMA OnVoiceInitKeeps ==
    ASSUME CInv, NEW p \in Pages, OnVoiceInit(p)
    PROVE  CInv'
<1> DEFINE h == toPage[p][1]
           s == page[p]
           t == [s EXCEPT !.muted = {}, !.roster = h.peers, !.mode = h.mode,
                          !.conns = IF h.mode = "sfu" THEN {} ELSE h.peers,
                          !.cross = (s.cross \/ h.mode = "switching")]
<1>1. Delivered(p, "init")
  BY DEF OnVoiceInit
<1>2. /\ UNCHANGED <<vars, moves>> /\ s.on
      /\ toPage[p] # <<>> /\ toPage'[p] = Tail(toPage[p])
      /\ \A r \in Pages \ {p} : toPage'[r] = toPage[r]
      /\ toPage' \in Queues
      /\ Head(toPage[p]) = h
      /\ h \in NewsFor(p) /\ h \in News /\ h.is = "init"
      /\ sfu[p].opening = "no"
      /\ page \in [Pages -> PageStates] /\ s \in PageStates
  BY <1>1, DeliveredFacts
<1>3. h.peers \subseteq Pages \ {p} /\ h.mode \in Modes
  BY <1>2 DEF NewsFor, News
<1>4. page' = [page EXCEPT ![p] = t]
  BY <1>2 DEF OnVoiceInit, Forget
<1>5. /\ t \in PageStates /\ t.on = s.on /\ t.muted = {} /\ t.roster = h.peers /\ t.mode = h.mode
      /\ t.conns = IF h.mode = "sfu" THEN {} ELSE h.peers
  BY <1>2, <1>3 DEF PageStates
<1> HIDE DEF t
<1>6. page'[p] = t /\ page' \in [Pages -> PageStates] /\ \A r \in Pages \ {p} : page'[r] = page[r]
  BY <1>2, <1>4, <1>5
<1>7. SameSession(p) /\ (h.mode = "sfu" => sfu'[p].session \/ sfu'[p].opening = "asked")
  <2>1. CASE h.mode = "mesh"
    <3>1. UNCHANGED <<sfu, toServer>>
      BY <1>2, <2>1 DEF OnVoiceInit
    <3>2. QED
      BY <2>1, <3>1, SessionStays
  <2>2. CASE h.mode # "mesh"
    <3>1. SfuJoin(p, h.mode = "switching")
      BY <1>2, <2>2 DEF OnVoiceInit
    <3>2. (h.mode = "switching") \in BOOLEAN
      OBVIOUS
    <3>3. QED
      BY <3>1, <3>2, SfuJoinFacts
  <2>3. QED
    BY <2>1, <2>2
<1>8. PageFits(p)'
  BY <1>3, <1>5, <1>6 DEF PageFits
<1>9. Takes(p, h)
  <2>1. h \in ModeNews /\ h \in Telling(page'[p].mode)
    BY <1>2, <1>5, <1>6 DEF ModeNews, Telling
  <2>2. \A q \in Pages \ {p} : h \in About(q) /\ (q \in page'[p].roster <=> h \in Naming(q))
    BY <1>2, <1>5, <1>6 DEF About, Naming
  <2>3. QED
    BY <1>2, <1>5, <1>6, <2>1, <2>2 DEF Takes
<1>10. QED
  BY <1>2, <1>5, <1>6, <1>7, <1>8, <1>9, TakenKeeps

LEMMA OnPeerJoinedKeeps ==
    ASSUME CInv, NEW p \in Pages, OnPeerJoined(p)
    PROVE  CInv'
<1> DEFINE h == toPage[p][1]
           s == page[p]
           t == [s EXCEPT !.roster = s.roster \cup {h.who},
                          !.conns = IF s.mode = "sfu" THEN s.conns ELSE s.conns \cup {h.who}]
<1>1. Delivered(p, "joined") /\ UNCHANGED <<sfu, toServer>>
  BY DEF OnPeerJoined
<1>2. /\ UNCHANGED <<vars, moves>> /\ s.on
      /\ toPage[p] # <<>> /\ toPage'[p] = Tail(toPage[p])
      /\ \A r \in Pages \ {p} : toPage'[r] = toPage[r]
      /\ toPage' \in Queues
      /\ Head(toPage[p]) = h
      /\ h \in NewsFor(p) /\ h \in News /\ h.is = "joined"
      /\ page \in [Pages -> PageStates] /\ s \in PageStates
  BY <1>1, DeliveredFacts
<1>3. h.who \in Pages \ {p}
  BY <1>2 DEF NewsFor, News
<1>4. page' = [page EXCEPT ![p] = t]
  BY <1>2 DEF OnPeerJoined
<1>5. /\ t \in PageStates /\ t.on = s.on /\ t.muted = s.muted /\ t.mode = s.mode
      /\ t.roster = s.roster \cup {h.who}
      /\ t.conns = IF s.mode = "sfu" THEN s.conns ELSE s.conns \cup {h.who}
  BY <1>2, <1>3 DEF PageStates
<1> HIDE DEF t
<1>6. page'[p] = t /\ page' \in [Pages -> PageStates] /\ \A r \in Pages \ {p} : page'[r] = page[r]
  BY <1>2, <1>4, <1>5
<1>7. SameSession(p) /\ PageFits(p) /\ SessionFits(p) /\ sfu' = sfu
  BY <1>1, SessionStays DEF CInv, PageInv
<1>8. PageFits(p)'
  BY <1>3, <1>5, <1>6, <1>7 DEF PageFits
<1>9. Takes(p, h)
  <2>1. h \notin ModeNews
    BY <1>2 DEF ModeNews
  <2>2. ASSUME NEW q \in Pages \ {p}
        PROVE  \/ h \in About(q) /\ (q \in page'[p].roster <=> h \in Naming(q))
               \/ h \notin About(q) /\ (q \in page'[p].roster <=> q \in page[p].roster)
    BY <1>2, <1>5, <1>6 DEF About, Naming
  <2>3. QED
    BY <1>2, <1>5, <1>6, <2>1, <2>2 DEF Takes
<1>10. s.mode = "sfu" => sfu'[p].session \/ sfu'[p].opening = "asked"
  BY <1>2, <1>7 DEF SessionFits
<1>11. QED
  BY <1>2, <1>5, <1>6, <1>7, <1>8, <1>9, <1>10, TakenKeeps

LEMMA OnPeerLeftKeeps ==
    ASSUME CInv, NEW p \in Pages, OnPeerLeft(p)
    PROVE  CInv'
<1> DEFINE h == toPage[p][1]
           s == page[p]
           t == [s EXCEPT !.roster = s.roster \ {h.who}, !.conns = s.conns \ {h.who},
                          !.muted = s.muted \ {h.who}]
<1>1. Delivered(p, "left") /\ UNCHANGED <<sfu, toServer>>
  BY DEF OnPeerLeft
<1>2. /\ UNCHANGED <<vars, moves>> /\ s.on
      /\ toPage[p] # <<>> /\ toPage'[p] = Tail(toPage[p])
      /\ \A r \in Pages \ {p} : toPage'[r] = toPage[r]
      /\ toPage' \in Queues
      /\ Head(toPage[p]) = h
      /\ h \in NewsFor(p) /\ h \in News /\ h.is = "left"
      /\ page \in [Pages -> PageStates] /\ s \in PageStates
  BY <1>1, DeliveredFacts
<1>3. h.who \in Pages \ {p}
  BY <1>2 DEF NewsFor, News
<1>4. page' = [page EXCEPT ![p] = t]
  BY <1>2 DEF OnPeerLeft
<1>5. /\ t \in PageStates /\ t.on = s.on /\ t.mode = s.mode
      /\ t.muted = s.muted \ {h.who}
      /\ t.roster = s.roster \ {h.who}
      /\ t.conns = s.conns \ {h.who}
  BY <1>2, <1>3 DEF PageStates
<1> HIDE DEF t
<1>6. page'[p] = t /\ page' \in [Pages -> PageStates] /\ \A r \in Pages \ {p} : page'[r] = page[r]
  BY <1>2, <1>4, <1>5
<1>7. SameSession(p) /\ PageFits(p) /\ SessionFits(p) /\ sfu' = sfu
  BY <1>1, SessionStays DEF CInv, PageInv
<1>8. PageFits(p)'
  BY <1>3, <1>5, <1>6, <1>7 DEF PageFits
<1>9. Takes(p, h)
  <2>1. h \notin ModeNews
    BY <1>2 DEF ModeNews
  <2>2. ASSUME NEW q \in Pages \ {p}
        PROVE  \/ h \in About(q) /\ (q \in page'[p].roster <=> h \in Naming(q))
               \/ h \notin About(q) /\ (q \in page'[p].roster <=> q \in page[p].roster)
    BY <1>2, <1>5, <1>6 DEF About, Naming
  <2>3. QED
    BY <1>2, <1>5, <1>6, <2>1, <2>2 DEF Takes
<1>10. s.mode = "sfu" => sfu'[p].session \/ sfu'[p].opening = "asked"
  BY <1>2, <1>7 DEF SessionFits
<1>11. QED
  BY <1>2, <1>5, <1>6, <1>7, <1>8, <1>9, <1>10, TakenKeeps

\* The switch is announced to a page in mesh.
LEMMA OnModeSfuKeeps ==
    ASSUME CInv, NEW p \in Pages, OnModeSfu(p)
    PROVE  CInv'
<1> DEFINE h == toPage[p][1]
           s == page[p]
           t == [s EXCEPT !.mode = "switching", !.cross = TRUE]
<1>1. Delivered(p, "mode")
  BY DEF OnModeSfu
<1>2. /\ UNCHANGED <<vars, moves>> /\ s.on
      /\ toPage[p] # <<>> /\ toPage'[p] = Tail(toPage[p])
      /\ \A r \in Pages \ {p} : toPage'[r] = toPage[r]
      /\ toPage' \in Queues
      /\ Head(toPage[p]) = h
      /\ h \in NewsFor(p) /\ h \in News /\ h.is = "mode"
      /\ page \in [Pages -> PageStates] /\ s \in PageStates
  BY <1>1, DeliveredFacts
<1>3. PageFits(p) /\ s.mode = "mesh"
  <2>1. PageInv(p) /\ toPage[p] \in Seq(News)
    BY DEF CInv, ClientTypeOK
  <2>2. 1 \in 1 .. Len(toPage[p])
    BY <1>2, <2>1, TailFacts
  <2>3. ModeView(toPage[p], 1 - 1, s.mode, "mesh")
    BY <1>2, <2>1, <2>2 DEF PageInv, ModeIsTold, InTurn
  <2>4. Silent(toPage[p], 1 - 1, ModeNews)
    BY DEF Silent
  <2>5. QED
    BY <2>1, <2>3, <2>4 DEF ModeView, PageInv
<1>4. page' = [page EXCEPT ![p] = t] /\ SfuJoin(p, TRUE)
  BY <1>3 DEF OnModeSfu
<1>5. /\ t \in PageStates /\ t.on = s.on /\ t.mode = "switching"
      /\ t.muted = s.muted /\ t.roster = s.roster /\ t.conns = s.conns
  BY <1>2 DEF PageStates, Modes
<1> HIDE DEF t
<1>6. page'[p] = t /\ page' \in [Pages -> PageStates] /\ \A r \in Pages \ {p} : page'[r] = page[r]
  BY <1>2, <1>4, <1>5
<1>7. SameSession(p)
  BY <1>4, SfuJoinFacts
<1>8. PageFits(p)'
  BY <1>3, <1>5, <1>6 DEF PageFits
<1>9. Takes(p, h)
  <2>1. h \in ModeNews /\ h \in Telling(page'[p].mode)
    BY <1>2, <1>5, <1>6 DEF ModeNews, Telling
  <2>2. \A q \in Pages \ {p} : h \notin About(q)
    BY <1>2 DEF About
  <2>3. QED
    BY <1>2, <1>5, <1>6, <2>1, <2>2 DEF Takes
<1>10. QED
  BY <1>2, <1>5, <1>6, <1>7, <1>8, <1>9, TakenKeeps

\* A commit reaches a page that has its session.
LEMMA OnSfuCommitKeeps ==
    ASSUME CInv, NEW p \in Pages, OnSfuCommit(p)
    PROVE  CInv'
<1> DEFINE h == toPage[p][1]
           s == page[p]
           t == [s EXCEPT !.conns = {}, !.muted = {}, !.mode = "sfu", !.cross = FALSE]
<1>1. Delivered(p, "commit") /\ UNCHANGED <<sfu, toServer>>
  BY DEF OnSfuCommit
<1>2. /\ UNCHANGED <<vars, moves>> /\ s.on
      /\ toPage[p] # <<>> /\ toPage'[p] = Tail(toPage[p])
      /\ \A r \in Pages \ {p} : toPage'[r] = toPage[r]
      /\ toPage' \in Queues
      /\ Head(toPage[p]) = h
      /\ h \in NewsFor(p) /\ h \in News /\ h.is = "commit"
      /\ page \in [Pages -> PageStates] /\ s \in PageStates
  BY <1>1, DeliveredFacts
<1>4. page' = [page EXCEPT ![p] = t]
  BY <1>2 DEF OnSfuCommit, Forget
<1>5. /\ t \in PageStates /\ t.on = s.on /\ t.mode = "sfu"
      /\ t.muted = {} /\ t.roster = s.roster /\ t.conns = {}
  BY <1>2 DEF PageStates, Modes
<1> HIDE DEF t
<1>6. page'[p] = t /\ page' \in [Pages -> PageStates] /\ \A r \in Pages \ {p} : page'[r] = page[r]
  BY <1>2, <1>4, <1>5
<1>7. SameSession(p) /\ PageInv(p)
  BY <1>1, SessionStays DEF CInv
<1>8. PageFits(p)'
  BY <1>5, <1>6, <1>7 DEF PageInv, PageFits
<1>9. Takes(p, h)
  <2>1. h \in ModeNews /\ h \in Telling(page'[p].mode)
    BY <1>2, <1>5, <1>6 DEF ModeNews, Telling
  <2>2. \A q \in Pages \ {p} : h \notin About(q)
    BY <1>2 DEF About
  <2>3. QED
    BY <1>2, <1>5, <1>6, <2>1, <2>2 DEF Takes
<1>10. sfu'[p].session
  <2>1. 1 \in 1 .. Len(toPage[p])
    BY <1>2, TailFacts DEF CInv, ClientTypeOK
  <2>2. Pending(p, "commit")
    BY <1>2, <2>1 DEF Pending, Holds
  <2>3. QED
    BY <1>1, <1>2, <1>7, <2>2 DEF PageInv, ConfirmFits
<1>11. QED
  BY <1>2, <1>5, <1>6, <1>7, <1>8, <1>9, <1>10, TakenKeeps

\* A page that is away takes no notice.
LEMMA IgnoredKeeps ==
    ASSUME CInv, NEW p \in Pages, Ignored(p)
    PROVE  CInv'
<1>1. /\ ~page[p].on /\ toPage[p] # <<>>
      /\ toPage' = [toPage EXCEPT ![p] = Tail(toPage[p])]
      /\ UNCHANGED <<vars, toServer, page, sfu, moves, room, joining>>
  BY DEF Ignored, vars
<1>2. /\ toPage \in Queues /\ toPage[p] \in Seq(NewsFor(p)) /\ toPage[p] \in Seq(News)
      /\ PageInv(p) /\ FlowInv(p)
  BY ClientTypes DEF CInv, PageInv, NewsFits, Queues
<1>3. Tail(toPage[p]) \in Seq(NewsFor(p)) /\ Tail(toPage[p]) \in Seq(News)
  BY <1>1, <1>2, TailFacts
<1>4. /\ toPage' \in Queues /\ toPage'[p] = Tail(toPage[p])
      /\ \A r \in Pages \ {p} : toPage'[r] = toPage[r]
  BY <1>1, <1>2, <1>3 DEF Queues
<1>5. Leaves(p)' = Leaves(p) /\ Joins(p)' = Joins(p)
  BY <1>1 DEF Leaves, Joins
<1>6. Stage(p)' /\ ~Stays(p)' /\ ~Stays(p)
  BY <1>1, <1>2, <1>5 DEF PageInv, Stage, Stays
<1>7. InitFits(p)'
  <2>1. /\ Holds(toPage[p], "init") <=> toPage[p][1].is = "init" \/ Holds(Tail(toPage[p]), "init")
        /\ OneInit(toPage[p]) => OneInit(Tail(toPage[p]))
    BY <1>1, <1>2, HoldsTail
  <2>2. QED
    BY <1>2, <1>4, <1>6, <2>1 DEF PageInv, InitFits, Pending
<1>8. NewsFits(p)'
  BY <1>3, <1>4 DEF NewsFits, NewsFor
<1>9. AwayIsIdle(p)' /\ PageFits(p)'
  BY <1>1, <1>2 DEF PageInv, AwayIsIdle, PageFits
<1>10. PageInv(p)'
  BY <1>1, <1>6, <1>7, <1>8, <1>9
  DEF PageInv, ConfirmFits, ModeIsTold, CommitIsTrue, SessionFits, RosterIsTold
<1>11. FlowInv(p)'
  <2>1. FlowsFit(p)'
    BY <1>1, <1>2 DEF FlowInv, FlowsFit
  <2>2. QED
    BY <1>6, <2>1 DEF FlowInv, MutedFits
<1>12. QED
  BY <1>1, <1>4, <1>5, <1>10, <1>11, ClientTypes, PageMoves

-----------------------------------------------------------------------------
(* What people do.                                                         *)

\* A move is counted.
LEMMA MoveCounted ==
    ASSUME CInv, Move
    PROVE  moves' \in 0 .. MaxMoves
BY ClientTypes, ClientAssumption DEF Move

LEMMA JoinVoiceKeeps ==
    ASSUME SteadyCall, CInv, NEW p \in Pages, JoinVoice(p)
    PROVE  CInv'
<1> DEFINE t == [AwayPage EXCEPT !.on = TRUE]
<1>1. /\ Move /\ ~page[p].on /\ p \notin room \cup joining
      /\ toServer[p] = <<>> /\ toPage[p] = <<>>
      /\ page' = [page EXCEPT ![p] = t]
      /\ Emit(p, <<"join">>)
      /\ UNCHANGED <<vars, toPage, sfu, room, joining, confirmed>>
  BY DEF JoinVoice, SteadyCall, Gone, vars
<1>2. /\ page \in [Pages -> PageStates] /\ PageInv(p) /\ FlowInv(p)
      /\ toServer \in [Pages -> Seq(Events)] /\ confirmed \subseteq room \cup joining
  BY ClientTypes DEF CInv
<1>3. /\ t \in PageStates /\ t.on /\ t.mode = "mesh"
      /\ t.muted = {} /\ t.roster = {} /\ t.conns = {}
  BY DEF PageStates, AwayPage, Modes
<1> HIDE DEF t
<1>4. page'[p] = t /\ page' \in [Pages -> PageStates] /\ \A r \in Pages \ {p} : page'[r] = page[r]
  BY <1>1, <1>2, <1>3
<1>5. /\ toServer' \in [Pages -> Seq(Events)]
      /\ \A r \in Pages \ {p} : toServer'[r] = toServer[r]
      /\ toServer'[p] = Append(<<>>, "join")
  <2>1. "join" \in Events
    BY DEF Events
  <2>2. Emit(p, IF TRUE THEN <<"join">> ELSE <<>>)
    BY <1>1
  <2>3. QED
    BY <1>1, <2>1, <2>2, EmitsOne
<1>6. Leaves(p)' = {} /\ Joins(p)' = {1} /\ Readies(p)' = {} /\ Leaves(p) = {}
  <2> DEFINE e == toServer[p]
  <2>1. /\ e \in Seq(Events) /\ "join" \in Events /\ Len(e) = 0
        /\ toServer'[p] = Append(e, "join")
    BY <1>1, <1>2, <1>5 DEF Events
  <2>2. \A f : At(e, f) = {}
    BY <1>1, AtNone
  <2>3. Leaves(p) = {}
    BY <2>2 DEF Leaves
  <2>4. e \in Seq(Events) /\ "join" \in Events
    BY <2>1
  <2> HIDE DEF e
  <2>5. At(Append(e, "join"), "join") = At(e, "join") \cup {Len(e) + 1}
    BY <2>4, AtAppend
  <2>6. At(Append(e, "join"), "leave") = At(e, "leave") /\ At(Append(e, "join"), "ready") = At(e, "ready")
    BY <2>4, AtAppend
  <2>7. QED
    BY <2>1, <2>2, <2>3, <2>5, <2>6 DEF Leaves, Joins, Readies
<1>7. Stage(p)' /\ ~Stays(p)'
  BY <1>1, <1>3, <1>4, <1>6 DEF Stage, Stays
<1>8. \A kind : ~Holds(<<>>, kind)
  BY DEF Holds
<1>9. OneInit(<<>>) /\ InTurn(<<>>, "mesh")
  BY DEF OneInit, InTurn
<1>10. InitFits(p)' /\ AwayIsIdle(p)' /\ NewsFits(p)' /\ PageFits(p)'
  <2>1. NewsFits(p)'
    BY <1>1, <1>2 DEF PageInv, NewsFits, NewsFor
  <2>2. QED
    BY <1>1, <1>3, <1>4, <1>8, <1>9, <2>1 DEF InitFits, Pending, AwayIsIdle, PageFits
<1>11. ConfirmFits(p)' /\ CommitIsTrue(p)' /\ ModeIsTold(p)' /\ SessionFits(p)'
  BY <1>1, <1>2, <1>3, <1>4, <1>6, <1>7, <1>8, <1>9
  DEF ConfirmFits, Pending, CommitIsTrue, ModeIsTold, SessionFits
<1>12. PageInv(p)'
  BY <1>7, <1>10, <1>11 DEF PageInv, RosterIsTold
<1>13. FlowInv(p)'
  <2>1. FlowsFit(p)'
    BY <1>1, <1>2 DEF FlowInv, FlowsFit
  <2>2. QED
    BY <1>7, <2>1 DEF FlowInv, MutedFits
<1>14. QED
  BY <1>1, <1>4, <1>5, <1>6, <1>12, <1>13, MoveCounted, ClientTypes, PageMoves

\* A page comes back before its departure is taken, with the session it had.
LEMMA RejoinKeeps ==
    ASSUME SteadyCall, CInv, NEW p \in Pages, Rejoin(p)
    PROVE  CInv'
<1> DEFINE s == page[p]
           t == [s EXCEPT !.conns = {}, !.muted = {}, !.roster = {}]
           e == toServer[p]
<1>1. /\ Move /\ s.on /\ ~Awaited(p)
      /\ page' = [page EXCEPT ![p] = t]
      /\ toServer' = [toServer EXCEPT ![p] = e \o <<"leave", "join">>]
      /\ UNCHANGED <<vars, toPage, sfu, room, joining, confirmed, mode>>
  BY DEF Rejoin, Forget, SteadyCall, Connecting, Emit, vars
<1>2. /\ page \in [Pages -> PageStates] /\ s \in PageStates /\ PageInv(p) /\ FlowInv(p)
      /\ toServer \in [Pages -> Seq(Events)] /\ e \in Seq(Events)
  BY ClientTypes DEF CInv
<1>3. /\ t \in PageStates /\ t.on /\ t.mode = s.mode
      /\ t.muted = {} /\ t.roster = {} /\ t.conns = {}
  BY <1>1, <1>2 DEF PageStates
<1> HIDE DEF t, e
<1>4. page'[p] = t /\ page' \in [Pages -> PageStates] /\ \A r \in Pages \ {p} : page'[r] = page[r]
  BY <1>1, <1>2, <1>3
<1>5. /\ "leave" \in Events /\ "join" \in Events
      /\ Append(e, "leave") \in Seq(Events) /\ Len(e) \in Nat
      /\ Len(Append(e, "leave")) = Len(e) + 1
      /\ Append(Append(e, "leave"), "join") \in Seq(Events)
      /\ Len(Append(Append(e, "leave"), "join")) = Len(e) + 2
      /\ e \o <<"leave", "join">> = Append(Append(e, "leave"), "join")
  <2>1. "leave" \in Events /\ "join" \in Events
    BY DEF Events
  <2>2. Append(e, "leave") \in Seq(Events) /\ Len(e) \in Nat /\ Len(Append(e, "leave")) = Len(e) + 1
    BY <1>2, <2>1, AppendFacts
  <2>3. /\ Append(Append(e, "leave"), "join") \in Seq(Events)
        /\ Len(Append(Append(e, "leave"), "join")) = Len(Append(e, "leave")) + 1
    BY <2>1, <2>2, AppendFacts
  <2>4. e \o <<"leave", "join">> = Append(Append(e, "leave"), "join")
    BY <1>2, <2>1, EmitFacts
  <2>5. QED
    BY <2>1, <2>2, <2>3, <2>4
<1>6. /\ toServer' \in [Pages -> Seq(Events)]
      /\ \A r \in Pages \ {p} : toServer'[r] = toServer[r]
      /\ toServer'[p] = Append(Append(e, "leave"), "join")
  BY <1>1, <1>2, <1>5
<1>7. Stays(p) /\ ~Pending(p, "init")
  BY <1>1, AwaitedFacts
<1>8. p \in room \ joining /\ Leaves(p) = {} /\ Joins(p) = {}
  BY <1>1, <1>2, <1>7 DEF PageInv, Stage, Stays
<1>9. /\ Leaves(p)' = {Len(e) + 1} /\ Joins(p)' = {(Len(e) + 1) + 1} /\ Readies(p)' = Readies(p)
      /\ Len(e) + 1 \in 1 .. Len(toServer'[p])
  <2>1. /\ At(Append(e, "leave"), "leave") = At(e, "leave") \cup {Len(e) + 1}
        /\ At(Append(e, "leave"), "join") = At(e, "join")
        /\ At(Append(e, "leave"), "ready") = At(e, "ready")
    BY <1>2, <1>5, AtAppend
  <2> DEFINE f == Append(e, "leave")
  <2>2. f \in Seq(Events) /\ Len(f) = Len(e) + 1 /\ "join" \in Events
    BY <1>5
  <2> HIDE DEF f
  <2>3. /\ At(Append(f, "join"), "leave") = At(f, "leave")
        /\ At(Append(f, "join"), "join") = At(f, "join") \cup {Len(f) + 1}
        /\ At(Append(f, "join"), "ready") = At(f, "ready")
    BY <2>2, AtAppend
  <2>4. At(e, "leave") = {} /\ At(e, "join") = {} /\ Readies(p) = At(e, "ready")
    BY <1>8 DEF Leaves, Joins, Readies, e
  <2>5. toServer'[p] = Append(f, "join")
    BY <1>6 DEF f
  <2>6. Leaves(p)' = {Len(e) + 1} /\ Joins(p)' = {(Len(e) + 1) + 1} /\ Readies(p)' = Readies(p)
    BY <2>1, <2>2, <2>3, <2>4, <2>5 DEF Leaves, Joins, Readies, f
  <2>7. QED
    BY <1>5, <1>6, <2>6
<1>10. Stage(p)' /\ ~Stays(p)'
  <2>1. \E k \in 1 .. Len(toServer'[p]) : Leaves(p)' = {k} /\ Joins(p)' = {k + 1}
    BY <1>9
  <2>2. Joins(p)' # {}
    BY <1>9
  <2>3. QED
    BY <1>1, <1>3, <1>4, <1>8, <2>1, <2>2 DEF Stage, Stays
<1>11. \A kind : Pending(p, kind)' <=> Pending(p, kind)
  BY <1>1 DEF Pending
<1>12. InitFits(p)' /\ AwayIsIdle(p)' /\ NewsFits(p)' /\ PageFits(p)'
  <2>1. NewsFits(p)'
    BY <1>1, <1>2 DEF PageInv, NewsFits, NewsFor
  <2>2. QED
    BY <1>1, <1>2, <1>3, <1>4, <1>7, <1>11, <2>1 DEF PageInv, InitFits, AwayIsIdle, PageFits
<1>13. ConfirmFits(p)' /\ CommitIsTrue(p)' /\ ModeIsTold(p)' /\ SessionFits(p)'
  BY <1>1, <1>2, <1>3, <1>4, <1>9, <1>10, <1>11
  DEF PageInv, ConfirmFits, CommitIsTrue, ModeIsTold, SessionFits
<1>14. PageInv(p)'
  BY <1>10, <1>12, <1>13 DEF PageInv, RosterIsTold
<1>15. FlowInv(p)'
  <2>1. FlowsFit(p)'
    BY <1>1, <1>2 DEF FlowInv, FlowsFit
  <2>2. QED
    BY <1>10, <2>1 DEF FlowInv, MutedFits
<1>16. toPage' \in Queues /\ sfu' \in [Pages -> SfuStates]
  BY <1>1, ClientTypes
<1>17. QED
  BY <1>1, <1>4, <1>6, <1>9, <1>14, <1>15, <1>16, MoveCounted, PageMoves

LEMMA ShareScreenKeeps ==
    ASSUME CInv, NEW p \in Pages, ShareScreen(p)
    PROVE  CInv'
<1>1. /\ Move /\ page[p].on /\ Emit(p, <<"share">>)
      /\ UNCHANGED <<vars, toPage, page, sfu, room, joining>>
  BY DEF ShareScreen, vars
<1>2. FlowInv(p) /\ page[p].muted \subseteq page[p].muted \cup page[p].conns
  BY DEF CInv
<1>3. /\ toServer' \in [Pages -> Seq(Events)]
      /\ \A r \in Pages \ {p} : toServer'[r] = toServer[r]
      /\ toServer'[p] = Append(toServer[p], "share")
  <2>1. "share" \in Events
    BY DEF Events
  <2>2. Emit(p, IF TRUE THEN <<"share">> ELSE <<>>)
    BY <1>1
  <2>3. QED
    BY <2>1, <2>2, EmitsOne
<1>4. Stage(p)' /\ Leaves(p)' = Leaves(p) /\ (Stays(p)' <=> Stays(p))
  BY <1>1, <1>3, StageKept
<1>5. Readies(p)' = Readies(p)
  <2>1. toServer[p] \in Seq(Events) /\ "share" \in Events /\ "share" # "ready"
    BY ClientTypes DEF Events
  <2>2. At(Append(toServer[p], "share"), "ready") = At(toServer[p], "ready")
    BY <2>1, AtAppend
  <2>3. QED
    BY <1>3, <2>2 DEF Readies
<1>6. PageInv(p)'
  BY <1>1, <1>2, <1>4, <1>5, OwnKept
<1>7. FlowInv(p)'
  <2>1. \A r \in Pages : Leaves(r) # {} => Leaves(r)' # {}
    BY <1>3, <1>4 DEF Leaves
  <2>2. Pending(p, "init")' <=> Pending(p, "init")
    BY <1>1 DEF Pending
  <2>3. FlowsFit(p)'
    BY <1>1, <1>2 DEF FlowInv, FlowsFit
  <2>4. QED
    BY <1>1, <1>4, <2>1, <2>2, <2>3, FlowsKept
<1>8. QED
  BY <1>1, <1>3, <1>4, <1>6, <1>7, MoveCounted, ClientTypes, PageMoves

\* The flows of r once p has no session any more.
LEMMA FlowsLose ==
    ASSUME CInv, NEW p \in Pages, NEW r \in Pages \ {p}, page'[r] = page[r],
           sfu'[r].opening = sfu[r].opening,
           sfu'[r].due = sfu[r].due \ {p}, sfu'[r].heard = sfu[r].heard \ {p},
           \A q \in Pages \ {p} : sfu'[q].session = sfu[q].session,
           \A q \in Pages \ {p} : Leaves(q) # {} => Leaves(q)' # {},
           \A q : Parted(toPage[r], q) => Parted(toPage'[r], q),
           Stays(r)' /\ ~Pending(r, "init")' =>
               /\ Stays(r) /\ ~Pending(r, "init")
               /\ p \in page[r].muted => Leaves(p)' # {} \/ Parted(toPage'[r], p)
    PROVE  FlowInv(r)'
<1>1. /\ FlowsFit(r) /\ MutedFits(r)
      /\ page[r].muted \subseteq Pages /\ sfu[r].due \cup sfu[r].heard \subseteq Pages
  BY ClientTypes DEF CInv, FlowInv, PageStates, SfuStates
<1>2. FlowsFit(r)'
  BY <1>1 DEF FlowsFit
<1>3. MutedFits(r)'
  <2>1. SUFFICES ASSUME Stays(r)', ~Pending(r, "init")', NEW q \in page[r].muted
                 PROVE  q \in sfu'[r].heard \/ Leaves(q)' # {} \/ Parted(toPage'[r], q)
    BY DEF MutedFits
  <2>2. CASE q = p
    BY <2>1, <2>2
  <2>3. CASE q # p
    BY <1>1, <2>1, <2>3 DEF MutedFits
  <2>4. QED
    BY <2>2, <2>3
<1>4. QED
  BY <1>2, <1>3 DEF FlowInv

\* What a page leaves behind that hangs up or is closed.
LEMMA AwayFits ==
    ASSUME NEW p \in Pages, page'[p] = AwayPage, Stage(p)',
           sfu'[p].opening = "no", sfu'[p].session = FALSE,
           sfu'[p].due = {}, sfu'[p].heard = {},
           NewsFits(p)', OneInit(toPage'[p]), ~Pending(p, "init")'
    PROVE  PageInv(p)' /\ FlowInv(p)'
<1>1. ~page'[p].on /\ page'[p].conns = {} /\ page'[p].muted = {} /\ page'[p].roster = {}
  BY DEF AwayPage
<1>2. ~Stays(p)'
  BY <1>1 DEF Stays
<1>3. AwayIsIdle(p)' /\ InitFits(p)' /\ PageFits(p)'
  BY <1>1 DEF AwayIsIdle, InitFits, PageFits
<1>4. PageInv(p)'
  BY <1>1, <1>2, <1>3
  DEF PageInv, ConfirmFits, ModeIsTold, CommitIsTrue, SessionFits, RosterIsTold
<1>5. FlowsFit(p)' /\ MutedFits(p)'
  BY <1>2 DEF FlowsFit, MutedFits
<1>6. QED
  BY <1>4, <1>5 DEF FlowInv

LEMMA LeaveVoiceKeeps ==
    ASSUME SteadyCall, CInv, NEW p \in Pages, LeaveVoice(p)
    PROVE  CInv'
<1> DEFINE e == toServer[p]
<1>1. /\ Move /\ page[p].on /\ ~Awaited(p) /\ sfu[p].opening = "no"
      /\ page' = [page EXCEPT ![p] = AwayPage]
      /\ sfu' = SessionEnds(p, sfu[p])
      /\ Emit(p, <<"leave">>)
      /\ UNCHANGED <<vars, toPage, room, joining, confirmed, mode>>
  BY DEF LeaveVoice, HangsUp, SfuLeave, SteadyCall, Connecting, vars
<1>2. /\ page \in [Pages -> PageStates] /\ sfu \in [Pages -> SfuStates] /\ PageInv(p)
      /\ toServer \in [Pages -> Seq(Events)] /\ e \in Seq(Events)
  BY ClientTypes DEF CInv
<1>3. AwayPage \in PageStates
  BY DEF PageStates, AwayPage, Modes
<1>4. /\ page'[p] = AwayPage /\ page' \in [Pages -> PageStates]
      /\ \A r \in Pages \ {p} : page'[r] = page[r]
  BY <1>1, <1>2, <1>3
<1>5. /\ sfu' \in [Pages -> SfuStates]
      /\ sfu'[p].opening = sfu[p].opening /\ sfu'[p].session = FALSE
      /\ sfu'[p].due = {} /\ sfu'[p].heard = {}
      /\ \A r \in Pages \ {p} : /\ sfu'[r].opening = sfu[r].opening
                                /\ sfu'[r].session = sfu[r].session
                                /\ sfu'[r].due = sfu[r].due \ {p}
                                /\ sfu'[r].heard = sfu[r].heard \ {p}
  <2>1. sfu[p] \in SfuStates
    BY <1>2
  <2>2. QED
    BY <1>1, <1>2, <2>1, SessionEndsFacts
<1>6. /\ toServer' \in [Pages -> Seq(Events)]
      /\ \A r \in Pages \ {p} : toServer'[r] = toServer[r]
      /\ toServer'[p] = Append(e, "leave")
  <2>1. "leave" \in Events
    BY DEF Events
  <2>2. Emit(p, IF TRUE THEN <<"leave">> ELSE <<>>)
    BY <1>1
  <2>3. QED
    BY <2>1, <2>2, EmitsOne
<1>7. Stays(p) /\ ~Pending(p, "init")
  BY <1>1, AwaitedFacts
<1>8. p \in room \ joining /\ Leaves(p) = {} /\ Joins(p) = {}
  BY <1>1, <1>2, <1>7 DEF PageInv, Stage, Stays
<1>9. Leaves(p)' = {Len(toServer'[p])} /\ Joins(p)' = {} /\ toServer'[p] # <<>>
  <2>1. "leave" \in Events /\ At(e, "leave") = {} /\ At(e, "join") = {}
    BY <1>8 DEF Leaves, Joins, Events
  <2>2. e \in Seq(Events)
    BY <1>2
  <2> HIDE DEF e
  <2>3. Len(Append(e, "leave")) = Len(e) + 1 /\ Append(e, "leave") # <<>>
    BY <2>1, <2>2, AppendFacts
  <2>4. /\ At(Append(e, "leave"), "leave") = At(e, "leave") \cup {Len(e) + 1}
        /\ At(Append(e, "leave"), "join") = At(e, "join")
    BY <2>1, <2>2, AtAppend
  <2>5. QED
    BY <1>6, <2>1, <2>3, <2>4 DEF Leaves, Joins
<1>10. Stage(p)'
  BY <1>1, <1>4, <1>8, <1>9 DEF Stage, AwayPage
<1>11. /\ NewsFits(p)' /\ OneInit(toPage'[p]) /\ ~Pending(p, "init")'
  BY <1>1, <1>2, <1>7 DEF PageInv, InitFits, NewsFits, NewsFor, Pending
<1>12. PageInv(p)' /\ FlowInv(p)'
  BY <1>1, <1>4, <1>5, <1>10, <1>11, AwayFits
<1>13. ASSUME NEW r \in Pages \ {p} PROVE PageInv(r)' /\ FlowInv(r)'
  <2>1. PageInv(r)'
    BY <1>1, <1>4, <1>5, <1>6, Unmoved
  <2>2. \A q \in Pages \ {p} : Leaves(q) # {} => Leaves(q)' # {}
    BY <1>6 DEF Leaves
  <2>3. (Stays(r)' <=> Stays(r)) /\ (Pending(r, "init")' <=> Pending(r, "init"))
    BY <1>1, <1>4, <1>6 DEF Stays, Pending, Joins
  <2>4. Leaves(p)' # {}
    BY <1>9
  <2>5. FlowInv(r)'
    BY <1>1, <1>4, <1>5, <2>2, <2>3, <2>4, FlowsLose
  <2>6. QED
    BY <2>1, <2>5
<1>14. toPage' \in Queues
  BY <1>1, ClientTypes
<1>15. QED
  BY <1>1, <1>4, <1>5, <1>6, <1>12, <1>13, <1>14, MoveCounted, PageDone

\* What a page that is closed means for the room.
LEMMA PageGone ==
    ASSUME SteadyCall, CInv, NEW p \in Pages, ClosePage(p)
    PROVE  /\ RoomInv' /\ ModeStep
           /\ p \notin room' \cup joining' /\ joining' = joining
           /\ room' = room \ {p} /\ confirmed' \subseteq confirmed
           /\ p \notin room => UNCHANGED <<room, mode>>
<1>1. SInv' /\ Disconnect(p) /\ p \notin joining /\ joining' = joining
  <2>1. Disconnect(p)
    BY DEF ClosePage
  <2>2. SInv'
    BY <2>1, RoomFacts, SteadyStep, ClientAssumption DEF Next
  <2>3. QED
    BY <2>1, <2>2 DEF Disconnect, SteadyCall, Steady
<1>2. CASE p \in room
  <2>1. Depart(p)
    BY <1>1, <1>2 DEF Disconnect
  <2>2. QED
    BY <1>1, <1>2, <2>1, Departed
<1>3. CASE p \notin room
  <2>1. UNCHANGED <<room, confirmed, mode>>
    BY <1>1, <1>3 DEF Disconnect, basculeVars
  <2>2. QED
    BY <1>1, <1>3, <2>1 DEF RoomInv, ModeStep, CInv
<1>4. QED
  BY <1>2, <1>3

LEMMA ClosePageKeeps ==
    ASSUME SteadyCall, CInv, NEW p \in Pages, ClosePage(p)
    PROVE  CInv'
<1>1. /\ Move /\ page[p].on
      /\ page' = [page EXCEPT ![p] = AwayPage]
      /\ sfu' = SessionEnds(p, NoSfu)
      /\ toServer' = [toServer EXCEPT ![p] = <<>>]
      /\ toPage' = IF p \in room THEN [DepartureSent(p) EXCEPT ![p] = <<>>]
                   ELSE [toPage EXCEPT ![p] = <<>>]
  BY DEF ClosePage
<1>2. /\ RoomInv' /\ ModeStep
      /\ p \notin room' \cup joining' /\ joining' = joining
      /\ room' = room \ {p} /\ confirmed' \subseteq confirmed
      /\ p \notin room => UNCHANGED <<room, mode>>
  BY PageGone
<1>3. /\ page \in [Pages -> PageStates] /\ sfu \in [Pages -> SfuStates]
      /\ toServer \in [Pages -> Seq(Events)] /\ toPage \in Queues
      /\ AwayPage \in PageStates /\ NoSfu \in SfuStates
      /\ NoSfu.opening = "no"
  BY ClientTypes DEF PageStates, AwayPage, Modes, SfuStates, NoSfu
<1>4. /\ page'[p] = AwayPage /\ page' \in [Pages -> PageStates]
      /\ \A r \in Pages \ {p} : page'[r] = page[r]
  BY <1>1, <1>3
<1>5. /\ sfu' \in [Pages -> SfuStates]
      /\ sfu'[p].opening = "no" /\ sfu'[p].session = FALSE
      /\ sfu'[p].due = {} /\ sfu'[p].heard = {}
      /\ \A r \in Pages \ {p} : /\ sfu'[r].opening = sfu[r].opening
                                /\ sfu'[r].session = sfu[r].session
                                /\ sfu'[r].due = sfu[r].due \ {p}
                                /\ sfu'[r].heard = sfu[r].heard \ {p}
  BY <1>1, <1>3, SessionEndsFacts
<1>6. /\ toServer' \in [Pages -> Seq(Events)] /\ toServer'[p] = <<>>
      /\ \A r \in Pages \ {p} : toServer'[r] = toServer[r]
  <2>1. <<>> \in Seq(Events)
    OBVIOUS
  <2>2. QED
    BY <1>1, <1>3, <2>1
<1>7. /\ toPage' \in Queues /\ toPage'[p] = <<>>
      /\ p \in room => \A r \in Pages \ {p} : toPage'[r] = DepartureSent(p)[r]
      /\ p \notin room => \A r \in Pages \ {p} : toPage'[r] = toPage[r]
  <2>1. <<>> \in Seq(News)
    OBVIOUS
  <2>2. CASE p \in room
    <3>1. DepartureSent(p) \in Queues
      BY <1>2, <2>2, DepartureTold
    <3>2. toPage' = [DepartureSent(p) EXCEPT ![p] = <<>>]
      BY <1>1, <2>2
    <3>3. QED
      BY <2>1, <2>2, <3>1, <3>2 DEF Queues
  <2>3. CASE p \notin room
    <3>1. toPage' = [toPage EXCEPT ![p] = <<>>]
      BY <1>1, <2>3
    <3>2. QED
      BY <1>3, <2>1, <2>3, <3>1 DEF Queues
  <2>4. QED
    BY <2>2, <2>3
<1>8. PageInv(p)' /\ FlowInv(p)'
  <2>1. Stage(p)'
    BY <1>2, <1>4, <1>6 DEF Stage, AwayPage
  <2>2. NewsFits(p)' /\ OneInit(toPage'[p]) /\ ~Pending(p, "init")'
    <3>1. <<>> \in Seq(NewsFor(p)')
      OBVIOUS
    <3>2. QED
      BY <1>7, <3>1 DEF NewsFits, OneInit, Pending, Holds
  <2>3. QED
    BY <1>4, <1>5, <2>1, <2>2, AwayFits
<1>9. ASSUME NEW r \in Pages \ {p} PROVE PageInv(r)' /\ FlowInv(r)'
  <2>1. PICK Q : First(p, r, Q) /\ After(r, Q)
    <3>1. CASE p \in room
      BY <1>2, <1>7, <3>1, DepartureTold
    <3>2. CASE p \notin room
      <4>1. First(p, r, toPage[r]) /\ After(r, toPage[r])
        BY <1>2, <1>7, <3>2 DEF First, After
      <4>2. QED
        BY <4>1
    <3>3. QED
      BY <3>1, <3>2
  <2>2. Leaves(r)' = Leaves(r) /\ Joins(r)' = Joins(r) /\ Readies(r)' = Readies(r)
    BY <1>6 DEF Leaves, Joins, Readies
  <2>3. (r \in room' <=> r \in room) /\ (r \in joining' <=> r \in joining)
    BY <1>2
  <2>4. Stays(r)' <=> Stays(r)
    BY <1>4, <2>2, <2>3 DEF Stays
  <2>5. ServerStep(p, r)
    BY <1>2, <1>4, <1>5, <2>1, <2>2, <2>3, <2>4 DEF ServerStep
  <2>6. Stage(r)'
    <3>1. Stage(r)
      BY DEF CInv, PageInv
    <3>2. QED
      BY <1>4, <1>6, <2>2, <2>3, <3>1 DEF Stage
  <2>7. PageInv(r)'
    BY <2>5, <2>6, ServerKeeps
  <2>8. /\ \A q : Parted(toPage[r], q) => Parted(Q, q)
        /\ \A q : Parted(Q, q) => Parted(toPage'[r], q)
        /\ Holds(toPage[r], "init") => Holds(Q, "init")
        /\ Holds(Q, "init") => Holds(toPage'[r], "init")
    BY <2>1, ServerGrows
  <2>9. ASSUME Stays(r)', ~Pending(r, "init")'
        PROVE  /\ Stays(r) /\ ~Pending(r, "init")
               /\ p \in page[r].muted => Parted(toPage'[r], p)
    <3>1. Stays(r) /\ ~Pending(r, "init")
      BY <2>4, <2>8, <2>9 DEF Pending
    <3>2. ASSUME p \in room PROVE Parted(toPage'[r], p)
      <4>1. PICK n \in NewsFor(r) : Q = Append(toPage[r], n) /\ n.is = "left" /\ n.who = p
        BY <1>2, <2>1, <2>3, <3>1, <3>2 DEF First, Stays
      <4>2. toPage[r] \in Seq(NewsFor(r))
        BY DEF CInv, PageInv, NewsFits
      <4>3. Parted(Q, p)
        BY <4>1, <4>2, PartedAppend
      <4>4. QED
        BY <2>8, <4>3
    <3>3. ASSUME p \notin room, p \in page[r].muted PROVE Parted(toPage'[r], p)
      <4>1. p \in page[r].roster
        BY <3>3 DEF CInv, PageInv, PageFits
      <4>2. Parted(toPage[r], p)
        BY <3>1, <3>3, <4>1, GoneIsTold
      <4>3. QED
        BY <2>8, <4>2
    <3>4. QED
      BY <3>1, <3>2, <3>3
  <2>10. \A q \in Pages \ {p} : Leaves(q) # {} => Leaves(q)' # {}
    BY <1>6 DEF Leaves
  <2>11. FlowInv(r)'
    BY <1>4, <1>5, <2>8, <2>9, <2>10, FlowsLose
  <2>12. QED
    BY <2>7, <2>11
<1>10. moves' \in 0 .. MaxMoves
  BY <1>1, MoveCounted
<1>11. ClientTypeOK'
  BY <1>4, <1>5, <1>6, <1>7, <1>10 DEF ClientTypeOK, PageStates, SfuStates, Queues
<1>12. QED
  BY <1>2, <1>8, <1>9, <1>11 DEF RoomInv, CInv

-----------------------------------------------------------------------------
(* The invariant of the call.                                              *)

\* Nobody is in the channel at first.
LEMMA CallStart == SteadyCall /\ CallInit => CInv
<1> SUFFICES ASSUME SteadyCall, CallInit PROVE CInv
  OBVIOUS
<1>1. SInv
  BY SteadyStart DEF SteadyCall, CallInit
<1>2. /\ room = {} /\ joining = {} /\ confirmed = {}
      /\ toServer = [p \in Pages |-> <<>>] /\ toPage = [p \in Pages |-> <<>>]
      /\ page = [p \in Pages |-> AwayPage] /\ sfu = [p \in Pages |-> NoSfu]
      /\ moves = 0
  BY DEF CallInit, Init
<1>3. AwayPage \in PageStates /\ NoSfu \in SfuStates
  BY DEF PageStates, AwayPage, Modes, SfuStates, NoSfu
<1>4. ClientTypeOK
  <2>1. page \in [Pages -> PageStates] /\ sfu \in [Pages -> SfuStates]
    BY <1>2, <1>3
  <2>2. toServer \in [Pages -> Seq(Events)] /\ toPage \in [Pages -> Seq(News)]
    BY <1>2
  <2>3. moves \in 0 .. MaxMoves
    BY <1>2, ClientAssumption
  <2>4. QED
    BY <2>1, <2>2, <2>3 DEF ClientTypeOK, PageStates, SfuStates
<1>5. ASSUME NEW p \in Pages PROVE PageInv(p) /\ FlowInv(p)
  <2>1. /\ page[p] = AwayPage /\ sfu[p] = NoSfu /\ toServer[p] = <<>> /\ toPage[p] = <<>>
    BY <1>2
  <2>2. /\ ~page[p].on /\ page[p].conns = {} /\ page[p].muted = {} /\ page[p].roster = {}
        /\ sfu[p].opening = "no" /\ ~sfu[p].session /\ sfu[p].due = {} /\ sfu[p].heard = {}
    BY <2>1 DEF AwayPage, NoSfu
  <2>3. Stage(p) /\ AwayIsIdle(p) /\ ~Stays(p)
    BY <1>2, <2>1, <2>2 DEF Stage, AwayIsIdle, Stays
  <2>4. InitFits(p) /\ NewsFits(p) /\ PageFits(p)
    <3>1. <<>> \in Seq(NewsFor(p)) /\ \A i \in 1 .. Len(<<>>) : FALSE
      OBVIOUS
    <3>2. QED
      BY <2>1, <2>2, <3>1 DEF InitFits, OneInit, Pending, Holds, NewsFits, PageFits
  <2>5. PageInv(p)
    BY <2>2, <2>3, <2>4
    DEF PageInv, ConfirmFits, ModeIsTold, CommitIsTrue, SessionFits, RosterIsTold
  <2>6. FlowsFit(p) /\ MutedFits(p)
    BY <2>2, <2>3 DEF FlowsFit, MutedFits
  <2>7. QED
    BY <2>5, <2>6 DEF FlowInv
<1>6. QED
  BY <1>1, <1>2, <1>4, <1>5 DEF CInv

\* A step that leaves everything as it is.
LEMMA CallIdles ==
    ASSUME CInv, UNCHANGED callVars
    PROVE  CInv'
<1>1. UNCHANGED <<vars, toServer, toPage, page, sfu, moves>>
  BY DEF callVars, clientVars
<1>2. \A q \in Pages : sfu[q].session => sfu'[q].session
  BY <1>1
<1>3. \A q \in Pages : Leaves(q) # {} => Leaves(q)' # {}
  BY <1>1 DEF Leaves
<1>4. ASSUME NEW r \in Pages PROVE PageInv(r)' /\ FlowInv(r)'
  BY <1>1, <1>2, <1>3, Unmoved, FlowsUnmoved
<1>5. QED
  BY <1>1, <1>4, ClientTypes, PageDone

\* Every step of a steady call keeps the invariant.
LEMMA CallStep == SteadyCall /\ CInv /\ [CallNext]_callVars => CInv'
<1> SUFFICES ASSUME SteadyCall, CInv, [CallNext]_callVars PROVE CInv'
  OBVIOUS
<1>1. ASSUME NEW p \in Pages,
             \/ JoinArrives(p) \/ SeatTaken(p) \/ LeaveArrives(p) \/ ReadyArrives(p)
             \/ ShareArrives(p)
      PROVE  CInv'
  BY <1>1, JoinArrivesKeeps, SeatTakenKeeps, LeaveArrivesKeeps, ReadyArrivesKeeps,
     ShareArrivesKeeps
<1>2. ASSUME NEW p \in Pages, SessionOpens(p) \/ SessionReady(p) \/ Ignored(p) PROVE CInv'
  BY <1>2, SessionOpensKeeps, SessionReadyKeeps, IgnoredKeeps
<1>3. ASSUME NEW p \in Pages, NEW q \in Pages \ {p}, FlowPlays(p, q) PROVE CInv'
  BY <1>3, FlowPlaysKeeps
<1>4. ASSUME NEW p \in Pages,
             \/ OnVoiceInit(p) \/ OnPeerJoined(p) \/ OnPeerLeft(p) \/ OnModeSfu(p)
             \/ OnSfuCommit(p)
      PROVE  CInv'
  BY <1>4, OnVoiceInitKeeps, OnPeerJoinedKeeps, OnPeerLeftKeeps, OnModeSfuKeeps, OnSfuCommitKeeps
<1>5. ASSUME NEW p \in Pages,
             \/ JoinVoice(p) \/ LeaveVoice(p) \/ Rejoin(p) \/ ShareScreen(p) \/ ClosePage(p)
      PROVE  CInv'
  BY <1>5, JoinVoiceKeeps, LeaveVoiceKeeps, RejoinKeeps, ShareScreenKeeps, ClosePageKeeps
<1>6. CASE UNCHANGED callVars
  BY <1>6, CallIdles
<1>7. QED
  BY <1>1, <1>2, <1>3, <1>4, <1>5, <1>6, Spared DEF CallNext

\* The invariant of a steady call holds in every state.  It relates, for each
\* page, its stage to the events it has emitted, its queue of news to the
\* channel it will show, and its muted peers to the sessions of the SFU.
THEOREM CallInvariant == SteadyCall => (CallSpec => []CInv)
<1> SUFFICES ASSUME SteadyCall PROVE CallSpec => []CInv
  OBVIOUS
<1>1. CallInit => CInv
  BY CallStart
<1>2. CInv /\ [CallNext]_callVars => CInv'
  BY CallStep
<1>3. QED
  BY <1>1, <1>2, PTL DEF CallSpec

\* Once nothing is under way, the page of each member shows who is there and
\* in which mode, and each hears every other: voice.ts and voiceBascule.ts with
\* the handlers of socket/index.ts, for any number of pages and of moves.
THEOREM CallBecomesWhole == SteadyCall => (CallSpec => []CallIsWhole)
<1> SUFFICES ASSUME SteadyCall PROVE CallSpec => []CallIsWhole
  OBVIOUS
<1>1. CallSpec => []CInv
  BY CallInvariant
<1>2. QED
  BY <1>1, WholeFromInv, PTL

\* No step takes two people in a call with each other apart, neither the commit
\* of a switch nor a departure, a rejoin or a new session of somebody else.
THEOREM CallNeverCuts == SteadyCall => (CallSpec => NobodyIsCut)
<1> SUFFICES ASSUME SteadyCall PROVE CallSpec => NobodyIsCut
  OBVIOUS
<1>1. CallSpec => []CInv
  BY CallInvariant
<1>2. CInv /\ [CallNext]_callVars =>
        [\A p, q \in Pages : Path(p, q) /\ ~Path(p, q)' => ~(InCall(p, q) /\ InCall(p, q)')]_callVars
  BY NotCut
<1>3. QED
  BY <1>1, <1>2, PTL DEF CallSpec, NobodyIsCut

-----------------------------------------------------------------------------
(* The specification of the run: the channel in one part, its pages in the *)
(* other.                                                                  *)

PartInv ==
    \/ part = "room" /\ SInv /\ \A p \in Pages : page[p] = AwayPage
    \/ part = "pages" /\ CInv

LEMMA PartStart == SteadyCall /\ SteadyInit => PartInv
<1> SUFFICES ASSUME SteadyCall, SteadyInit PROVE PartInv
  OBVIOUS
<1>1. CInv /\ SInv
  BY CallStart DEF SteadyInit, CInv
<1>2. \A p \in Pages : page[p] = AwayPage
  BY DEF SteadyInit, CallInit
<1>3. QED
  BY <1>1, <1>2 DEF SteadyInit, PartInv

LEMMA PartStep ==
    ASSUME SteadyCall, PartInv, [SteadyNext]_<<part, callVars>>
    PROVE  /\ PartInv'
           /\ \/ part = "pages" /\ CInv /\ [CallNext]_callVars
              \/ part = "room" /\ page' = page /\ \A p \in Pages : page[p] = AwayPage
<1>1. CASE part = "room"
  <2>1. [Next]_vars /\ UNCHANGED <<part, page>>
    BY <1>1 DEF SteadyNext, callVars, clientVars
  <2>2. SInv /\ \A p \in Pages : page[p] = AwayPage
    BY <1>1 DEF PartInv
  <2>3. SInv'
    BY <2>1, <2>2, SteadyStep DEF SteadyCall
  <2>4. QED
    BY <1>1, <2>1, <2>2, <2>3 DEF PartInv
<1>2. CASE part = "pages"
  <2>1. CInv /\ [CallNext]_callVars /\ part' = part
    BY <1>2 DEF PartInv, SteadyNext
  <2>2. CInv'
    BY <2>1, CallStep
  <2>3. QED
    BY <1>2, <2>1, <2>2 DEF PartInv
<1>3. QED
  BY <1>1, <1>2 DEF PartInv

\* The same of the model that TLC runs: once nothing is under way the members
\* of the channel are in one call.
THEOREM SteadyCallsAreWhole == SteadyCall => (SteadySpec => []CallsAreWhole)
<1> SUFFICES ASSUME SteadyCall PROVE SteadySpec => []CallsAreWhole
  OBVIOUS
<1>1. SteadyInit => PartInv
  BY PartStart
<1>2. PartInv /\ [SteadyNext]_<<part, callVars>> => PartInv'
  BY PartStep
<1>3. PartInv => CallsAreWhole
  BY WholeFromInv DEF PartInv, CallsAreWhole
<1>4. QED
  BY <1>1, <1>2, <1>3, PTL DEF SteadySpec

\* And no step of it takes two people in a call apart.
THEOREM SteadyCallsAreNotCut == SteadyCall => (SteadySpec => NobodyIsCut)
<1> SUFFICES ASSUME SteadyCall PROVE SteadySpec => NobodyIsCut
  OBVIOUS
<1>1. SteadyInit => PartInv
  BY PartStart
<1>2. PartInv /\ [SteadyNext]_<<part, callVars>> => PartInv'
  BY PartStep
<1>3. PartInv /\ [SteadyNext]_<<part, callVars>> =>
        [\A p, q \in Pages : Path(p, q) /\ ~Path(p, q)' => ~(InCall(p, q) /\ InCall(p, q)')]_callVars
  <2> SUFFICES ASSUME PartInv, [SteadyNext]_<<part, callVars>>, NEW p \in Pages, NEW q \in Pages,
                      InCall(p, q), InCall(p, q)', Path(p, q)
               PROVE  Path(p, q)'
    OBVIOUS
  <2>1. CASE part = "pages" /\ CInv /\ [CallNext]_callVars
    BY <2>1, NotCut
  <2>2. CASE \A r \in Pages : page[r] = AwayPage
    BY <2>2 DEF InCall, AwayPage
  <2>3. QED
    BY <2>1, <2>2, PartStep
<1>4. QED
  BY <1>1, <1>2, <1>3, PTL DEF SteadySpec, NobodyIsCut

=============================================================================
