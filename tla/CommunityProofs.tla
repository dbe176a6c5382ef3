---------------------------- MODULE CommunityProofs ----------------------------
(***************************************************************************)
(* Five services of a community: the list of messages of a text channel    *)
(* (TextChat), the list of who is online (Presence), the shared canvas     *)
(* (Canvas), the sign-in with a device (Signet) and the TURN server        *)
(* (Turn).  The parts prove PagesFollowChat, PagesAgree, EditsAreKept,     *)
(* SignInsAreCounted, WhatIsWrittenStands and AllocationsServed, each for  *)
(* any number of actors; and their types, of the specification of          *)
(* MCCommunity that TLC runs.                                              *)
(***************************************************************************)
EXTENDS MCCommunity, FiniteSetTheorems, TLAPS

-----------------------------------------------------------------------------
(* TextChat.  A page that no join is under way for is in the room of its   *)
(* channel, and its list of a message is empty while that is not announced *)
(* and one text afterwards, the last one unless its announcement is to     *)
(* come; or the history says that it met a race.                           *)

Settled(p) == p \in linked /\ selected[p] # NoRoom /\ ~Joining(p)

\* The text a page has of a message.
Current(m, t) ==
    /\ t = Deleted => version[m] = Deleted
    /\ t = version[m] \/ <<m, version[m]>> \in telling

Lists(p, m) ==
    IF version[m] = Unwritten \/ m \in untold THEN shown[p][m] = <<>>
    ELSE \E t \in Texts : shown[p][m] = <<t>> /\ Current(m, t)

Follows == \A p \in Pages, m \in Posts : Settled(p) /\ m \notin astray[p] =>
    /\ selected[p] \in inRooms[p]
    /\ RoomOf[m] = selected[p] => Lists(p, m)

OffTheList == \A p \in Pages, m \in Posts :
    RoomOf[m] # selected[p] => shown[p][m] = <<>>

JoinsOne == \A n \in Slots :
    handler[n].op = "join" => \E r \in Rooms : handler[n].rooms = {r}

ReadFits == \A n \in Slots, m \in Posts :
    handler[n] # Idle /\ handler[n].read[m] # Unwritten =>
        /\ RoomOf[m] \in handler[n].rooms
        /\ version[m] # Unwritten
        /\ handler[n].read[m] = Deleted => version[m] = Deleted

TellingFits ==
    /\ \A m \in untold : version[m] # Unwritten
    /\ \A m \in Posts, v \in Texts : <<m, v>> \in telling =>
         /\ v # Original /\ version[m] \notin {Unwritten, Original}
         /\ v = Deleted => version[m] = Deleted

ChatInv ==
    /\ TextChatTypeOK /\ AttentionFits
    /\ Follows /\ OffTheList /\ JoinsOne /\ ReadFits /\ TellingFits

LEMMA VersionsAreNumbers ==
    /\ Texts \subseteq Nat /\ Unwritten \in Nat /\ Unwritten \notin Texts
    /\ Original \in Texts /\ Deleted \in Texts /\ Deleted # Original
    /\ LastText \in Texts
    /\ \A v \in Original..LastText : v \in Texts /\ v # Deleted /\ v + 1 \in Texts /\ v + 1 # Original
    /\ \A t \in Texts : t # Deleted => t \in Original..LastText
<1>1. MaxEdits \in Nat
  BY TextChatAssumption
<1>2. /\ Texts = 1..(MaxEdits + 2) /\ LastText = MaxEdits + 1 /\ Deleted = MaxEdits + 2
      /\ Original = 1 /\ Unwritten = 0
  BY <1>1 DEF Texts, Unwritten, Original, LastText, Deleted
<1>3. \A v \in 1..(MaxEdits + 1) : v \in 1..(MaxEdits + 2) /\ v # MaxEdits + 2
         /\ v + 1 \in 1..(MaxEdits + 2) /\ v + 1 # 1
  BY <1>1
<1>4. \A t \in 1..(MaxEdits + 2) : t # MaxEdits + 2 => t \in 1..(MaxEdits + 1)
  BY <1>1
<1> QED
  BY <1>1, <1>2, <1>3, <1>4

LEMMA ChatStarts == TextChatInit => ChatInv
<1> SUFFICES ASSUME TextChatInit PROVE ChatInv
  OBVIOUS
<1>1. TextChatTypeOK
  <2>1. NoRows \in Rows
    BY DEF NoRows, Rows
  <2>2. EmptyList \in [Posts -> Seq(Texts)]
    BY DEF EmptyList
  <2> QED
    BY <2>1, <2>2 DEF TextChatInit, TextChatTypeOK
<1>2. AttentionFits /\ Follows
  BY DEF TextChatInit, AttentionFits, Follows, Settled
<1>3. OffTheList
  BY DEF TextChatInit, OffTheList, EmptyList
<1>4. JoinsOne /\ ReadFits
  BY DEF TextChatInit, JoinsOne, ReadFits, Idle
<1>5. TellingFits
  BY DEF TextChatInit, TellingFits
<1> QED
  BY <1>1, <1>2, <1>3, <1>4, <1>5 DEF ChatInv

-----------------------------------------------------------------------------

\* What taking up requests does to the handlers: it adds a join of r, and a
\* watch perhaps.
LEMMA TakenUp ==
    ASSUME TextChatTypeOK, NEW p \in Pages, NEW r \in Rooms, NEW rs \in SUBSET Rooms,
           \/ TakeUp(Request(p, "join", {r}))
           \/ TakeUpBoth(Request(p, "join", {r}), Request(p, "watch", rs))
           \/ TakeUpBoth(Request(p, "watch", rs), Request(p, "join", {r}))
    PROVE  /\ handler' \in [Slots -> ChatRequests \cup {Idle}]
           /\ \E n \in Slots : handler'[n] = Request(p, "join", {r})
           /\ \A n \in Slots :
                /\ handler[n] # Idle => handler'[n] = handler[n]
                /\ handler'[n] \in {handler[n], Request(p, "join", {r}), Request(p, "watch", rs)}
<1> DEFINE j == Request(p, "join", {r})
           w == Request(p, "watch", rs)
<1>1. NoRows \in Rows
  BY DEF NoRows, Rows
<1>2. j \in ChatRequests /\ w \in ChatRequests
  BY <1>1 DEF Request, ChatRequests
<1>3. handler \in [Slots -> ChatRequests \cup {Idle}]
  BY DEF TextChatTypeOK
<1>4. CASE TakeUp(j)
  BY <1>2, <1>3, <1>4 DEF TakeUp, Free
<1>5. CASE TakeUpBoth(j, w)
  BY <1>2, <1>3, <1>5 DEF TakeUpBoth, Free
<1>6. CASE TakeUpBoth(w, j)
  BY <1>2, <1>3, <1>6 DEF TakeUpBoth, Free
<1> QED
  BY <1>4, <1>5, <1>6

\* A page that is neither linked, nor told, nor moved stays as it was.
LEMMA UntouchedFollow ==
    ASSUME Follows, UNCHANGED rowVars, NEW q \in Pages,
           q \in linked' => q \in linked, selected'[q] = selected[q],
           inRooms[q] \subseteq inRooms'[q], shown'[q] = shown[q],
           astray[q] \subseteq astray'[q],
           Joining(q) => Joining(q)',
           NEW m \in Posts, Settled(q)', m \notin astray'[q]
    PROVE  selected'[q] \in inRooms'[q] /\ (RoomOf[m] = selected'[q] => Lists(q, m)')
<1>1. Settled(q) /\ m \notin astray[q]
  BY DEF Settled
<1>2. selected[q] \in inRooms[q] /\ (RoomOf[m] = selected[q] => Lists(q, m))
  BY <1>1 DEF Follows
<1>3. Lists(q, m) => Lists(q, m)'
  BY DEF Lists, Current, rowVars
<1> QED
  BY <1>2, <1>3

LEMMA TakenUpKeeps ==
    ASSUME TextChatTypeOK, JoinsOne, ReadFits, UNCHANGED rowVars,
           NEW p \in Pages, NEW r \in Rooms, NEW rs \in SUBSET Rooms,
           \/ TakeUp(Request(p, "join", {r}))
           \/ TakeUpBoth(Request(p, "join", {r}), Request(p, "watch", rs))
           \/ TakeUpBoth(Request(p, "watch", rs), Request(p, "join", {r}))
    PROVE  /\ JoinsOne' /\ ReadFits'
           /\ \A q \in Pages : selected'[q] = selected[q] /\ Joining(q) => Joining(q)'
           /\ selected'[p] = r => Joining(p)'
<1> DEFINE j == Request(p, "join", {r})
           w == Request(p, "watch", rs)
<1>1. /\ handler' \in [Slots -> ChatRequests \cup {Idle}]
      /\ \E n \in Slots : handler'[n] = j
      /\ \A n \in Slots :
           /\ handler[n] # Idle => handler'[n] = handler[n]
           /\ handler'[n] \in {handler[n], j, w}
  BY TakenUp
<1>2. /\ j.op = "join" /\ j.rooms = {r} /\ j.page = p /\ j.read = NoRows /\ j # Idle
      /\ w.op = "watch" /\ w.read = NoRows /\ w # Idle
  BY DEF Request, Idle
<1> HIDE DEF j, w
<1>3. JoinsOne'
  BY <1>1, <1>2 DEF JoinsOne
<1>4. ReadFits'
  BY <1>1, <1>2 DEF ReadFits, NoRows, rowVars
<1>5. ASSUME NEW q \in Pages, selected'[q] = selected[q], Joining(q) PROVE Joining(q)'
  BY <1>1, <1>5 DEF Joining
<1>6. selected'[p] = r => Joining(p)'
  BY <1>1, <1>2 DEF Joining
<1> QED
  BY <1>3, <1>4, <1>5, <1>6

\* What a page leaves is no longer what it looks at.
LEMMA LeaveFits ==
    ASSUME TextChatTypeOK, NEW p \in Pages, NEW r \in Rooms, chatLeave(p, r)
    PROVE  /\ inRooms' \in [Pages -> SUBSET Rooms]
           /\ active' \in [Pages -> Rooms \cup {NoRoom}]
           /\ late' \subseteq Pages
           /\ \A q \in Pages : q # p =>
                inRooms'[q] = inRooms[q] /\ active'[q] = active[q] /\ (q \in late' <=> q \in late)
           /\ active'[p] # r
           /\ active[p] # r => active'[p] = active[p] /\ late' = late
           /\ active[p] = r => active'[p] = NoRoom
BY TextChatAssumption DEF chatLeave, TextChatTypeOK, NoRoom

\* A page that has a new channel waits for it; the others go on.
LEMMA ListCleared ==
    ASSUME TextChatTypeOK, NEW p \in Pages, ClearList(p)
    PROVE  /\ shown' \in [Pages -> [Posts -> Seq(Texts)]]
           /\ astray' \in [Pages -> SUBSET Posts]
           /\ \A m \in Posts : shown'[p][m] = <<>>
           /\ \A q \in Pages : q # p => shown'[q] = shown[q] /\ astray'[q] = astray[q]
<1>1. EmptyList \in [Posts -> Seq(Texts)] /\ \A m \in Posts : EmptyList[m] = <<>>
  BY DEF EmptyList
<1> QED
  BY <1>1 DEF ClearList, TextChatTypeOK

LEMMA RowsStay ==
    ASSUME TellingFits, UNCHANGED rowVars
    PROVE  TellingFits'
BY DEF TellingFits, rowVars

LEMMA MountKeeps ==
    ASSUME ChatInv, NEW p \in Pages, NEW r \in Rooms, Mount(p, r)
    PROVE  ChatInv'
<1> USE DEF ChatInv
<1>1. UNCHANGED <<linked, inRooms, active, late, rowVars>> /\ p \in linked /\ selected[p] = NoRoom
  BY DEF Mount
<1>2. selected' = [selected EXCEPT ![p] = r]
  BY DEF Mount
<1>3. TakeUpBoth(Request(p, "join", {r}), Request(p, "watch", Rooms \ {r}))
  BY DEF Mount
<1>4. selected'[p] = r
  BY <1>2 DEF TextChatTypeOK
<1>5. /\ JoinsOne' /\ ReadFits'
      /\ \A q \in Pages : selected'[q] = selected[q] /\ Joining(q) => Joining(q)'
      /\ Joining(p)'
  <2>1. UNCHANGED rowVars /\ Rooms \ {r} \in SUBSET Rooms
    BY <1>1
  <2> QED
    BY <1>3, <1>4, <2>1, TakenUpKeeps
<1>6. /\ shown' \in [Pages -> [Posts -> Seq(Texts)]]
      /\ astray' \in [Pages -> SUBSET Posts]
      /\ \A m \in Posts : shown'[p][m] = <<>>
      /\ \A q \in Pages : q # p => shown'[q] = shown[q] /\ astray'[q] = astray[q]
  BY ListCleared DEF Mount
<1>7. handler' \in [Slots -> ChatRequests \cup {Idle}]
  BY <1>3, TakenUp
<1>8. TextChatTypeOK'
  BY <1>1, <1>2, <1>6, <1>7 DEF TextChatTypeOK, rowVars
<1>9. AttentionFits'
  BY <1>1, <1>2 DEF AttentionFits, TextChatTypeOK
<1>10. OffTheList'
  BY <1>2, <1>6 DEF OffTheList, TextChatTypeOK
<1>11. ASSUME NEW q \in Pages, NEW m \in Posts, Settled(q)', m \notin astray'[q]
       PROVE  selected'[q] \in inRooms'[q] /\ (RoomOf[m] = selected'[q] => Lists(q, m)')
  <2>1. q # p
    BY <1>5, <1>11 DEF Settled
  <2>2. selected'[q] = selected[q]
    BY <1>2, <2>1 DEF TextChatTypeOK
  <2> QED
    BY <1>1, <1>5, <1>6, <1>11, <2>1, <2>2, UntouchedFollow
<1>12. Follows'
  BY <1>11 DEF Follows
<1> QED
  BY <1>1, <1>5, <1>8, <1>9, <1>10, <1>12, RowsStay

LEMMA UnmountKeeps ==
    ASSUME ChatInv, NEW p \in Pages, Unmount(p)
    PROVE  ChatInv'
<1> USE DEF ChatInv
<1> DEFINE old == selected[p]
<1>1. UNCHANGED <<linked, handler, rowVars>> /\ old \in Rooms
  BY DEF Unmount, TextChatTypeOK
<1>2. selected' = [selected EXCEPT ![p] = NoRoom]
  BY DEF Unmount
<1>3. chatLeave(p, old)
  BY DEF Unmount
<1>4. /\ inRooms' \in [Pages -> SUBSET Rooms]
      /\ active' \in [Pages -> Rooms \cup {NoRoom}]
      /\ late' \subseteq Pages
      /\ \A q \in Pages : q # p =>
           inRooms'[q] = inRooms[q] /\ active'[q] = active[q] /\ (q \in late' <=> q \in late)
      /\ active[p] # old => active'[p] = active[p] /\ late' = late
      /\ active[p] = old => active'[p] = NoRoom
  BY <1>1, <1>3, LeaveFits
<1>5. /\ shown' \in [Pages -> [Posts -> Seq(Texts)]]
      /\ astray' \in [Pages -> SUBSET Posts]
      /\ \A m \in Posts : shown'[p][m] = <<>>
      /\ \A q \in Pages : q # p => shown'[q] = shown[q] /\ astray'[q] = astray[q]
  BY ListCleared DEF Unmount
<1>6. selected'[p] = NoRoom /\ \A q \in Pages : q # p => selected'[q] = selected[q]
  BY <1>2 DEF TextChatTypeOK
<1>7. TextChatTypeOK'
  BY <1>1, <1>2, <1>4, <1>5 DEF TextChatTypeOK, rowVars
<1>8. AttentionFits'
  BY <1>4, <1>6 DEF AttentionFits
<1>9. OffTheList'
  BY <1>5, <1>6 DEF OffTheList
<1>10. JoinsOne' /\ ReadFits'
  BY <1>1 DEF JoinsOne, ReadFits, rowVars
<1>11. ASSUME NEW q \in Pages, NEW m \in Posts, Settled(q)', m \notin astray'[q]
       PROVE  selected'[q] \in inRooms'[q] /\ (RoomOf[m] = selected'[q] => Lists(q, m)')
  <2>1. q # p
    BY <1>6, <1>11 DEF Settled
  <2>2. Joining(q) => Joining(q)'
    BY <1>1, <1>6, <2>1 DEF Joining
  <2> QED
    BY <1>1, <1>4, <1>5, <1>6, <1>11, <2>1, <2>2, UntouchedFollow
<1>12. Follows'
  BY <1>11 DEF Follows
<1> QED
  BY <1>1, <1>7, <1>8, <1>9, <1>10, <1>12, RowsStay

LEMMA joinChannelKeeps ==
    ASSUME ChatInv, NEW p \in Pages, NEW r \in Rooms, joinChannel(p, r)
    PROVE  ChatInv'
<1> USE DEF ChatInv
<1> DEFINE old == selected[p]
<1>1. UNCHANGED <<linked, rowVars>> /\ old \in Rooms /\ old # r
  BY DEF joinChannel, TextChatTypeOK
<1>2. /\ selected' \in [Pages -> Rooms \cup {NoRoom}]
      /\ selected'[p] = r /\ \A q \in Pages : q # p => selected'[q] = selected[q]
  BY DEF joinChannel, TextChatTypeOK
<1>3. chatLeave(p, old) /\ TakeUpBoth(Request(p, "watch", {old}), Request(p, "join", {r}))
  BY DEF joinChannel
<1>4. /\ inRooms' \in [Pages -> SUBSET Rooms]
      /\ active' \in [Pages -> Rooms \cup {NoRoom}]
      /\ late' \subseteq Pages
      /\ \A q \in Pages : q # p =>
           inRooms'[q] = inRooms[q] /\ active'[q] = active[q] /\ (q \in late' <=> q \in late)
      /\ active[p] # old => active'[p] = active[p] /\ late' = late
      /\ active[p] = old => active'[p] = NoRoom
  BY <1>1, <1>3, LeaveFits
<1>5. /\ JoinsOne' /\ ReadFits'
      /\ \A q \in Pages : selected'[q] = selected[q] /\ Joining(q) => Joining(q)'
      /\ Joining(p)'
  <2>1. UNCHANGED rowVars /\ {old} \in SUBSET Rooms
    BY <1>1
  <2> QED
    BY <1>2, <1>3, <2>1, TakenUpKeeps
<1>6. handler' \in [Slots -> ChatRequests \cup {Idle}]
  <2>1. {old} \in SUBSET Rooms
    BY <1>1
  <2> QED
    BY <1>3, <2>1, TakenUp
<1>7. /\ shown' \in [Pages -> [Posts -> Seq(Texts)]]
      /\ astray' \in [Pages -> SUBSET Posts]
      /\ \A m \in Posts : shown'[p][m] = <<>>
      /\ \A q \in Pages : q # p => shown'[q] = shown[q] /\ astray'[q] = astray[q]
  BY ListCleared DEF joinChannel
<1>8. TextChatTypeOK'
  BY <1>1, <1>2, <1>4, <1>6, <1>7 DEF TextChatTypeOK, rowVars
<1>9. AttentionFits'
  BY <1>2, <1>4 DEF AttentionFits
<1>10. OffTheList'
  BY <1>2, <1>7 DEF OffTheList
<1>11. ASSUME NEW q \in Pages, NEW m \in Posts, Settled(q)', m \notin astray'[q]
       PROVE  selected'[q] \in inRooms'[q] /\ (RoomOf[m] = selected'[q] => Lists(q, m)')
  <2>1. q # p
    BY <1>5, <1>11 DEF Settled
  <2> QED
    BY <1>1, <1>2, <1>4, <1>5, <1>7, <1>11, <2>1, UntouchedFollow
<1>12. Follows'
  BY <1>11 DEF Follows
<1> QED
  BY <1>1, <1>5, <1>8, <1>9, <1>10, <1>12, RowsStay

LEMMA joinAgainKeeps ==
    ASSUME ChatInv, NEW p \in Pages, joinAgain(p)
    PROVE  ChatInv'
<1> USE DEF ChatInv
<1> DEFINE r == selected[p]
<1>1. UNCHANGED <<linked, selected, inRooms, active, late, rowVars>> /\ r \in Rooms
  BY DEF joinAgain, TextChatTypeOK
<1>2. TakeUp(Request(p, "join", {r}))
  BY DEF joinAgain
<1>3. /\ JoinsOne' /\ ReadFits'
      /\ \A q \in Pages : Joining(q) => Joining(q)'
      /\ Joining(p)'
  <2>1. UNCHANGED rowVars /\ {} \in SUBSET Rooms /\ selected'[p] = r
    BY <1>1
  <2> QED
    BY <1>1, <1>2, <2>1, TakenUpKeeps
<1>4. handler' \in [Slots -> ChatRequests \cup {Idle}]
  <2>1. {} \in SUBSET Rooms
    OBVIOUS
  <2> QED
    BY <1>1, <1>2, <2>1, TakenUp
<1>5. /\ shown' \in [Pages -> [Posts -> Seq(Texts)]]
      /\ astray' \in [Pages -> SUBSET Posts]
      /\ \A m \in Posts : shown'[p][m] = <<>>
      /\ \A q \in Pages : q # p => shown'[q] = shown[q] /\ astray'[q] = astray[q]
  BY ListCleared DEF joinAgain
<1>6. TextChatTypeOK'
  BY <1>1, <1>4, <1>5 DEF TextChatTypeOK, rowVars
<1>7. AttentionFits'
  BY <1>1 DEF AttentionFits
<1>8. OffTheList'
  BY <1>1, <1>5 DEF OffTheList
<1>9. ASSUME NEW q \in Pages, NEW m \in Posts, Settled(q)', m \notin astray'[q]
      PROVE  selected'[q] \in inRooms'[q] /\ (RoomOf[m] = selected'[q] => Lists(q, m)')
  <2>1. q # p
    BY <1>3, <1>9 DEF Settled
  <2> QED
    BY <1>1, <1>3, <1>5, <1>9, <2>1, UntouchedFollow
<1>10. Follows'
  BY <1>9 DEF Follows
<1> QED
  BY <1>1, <1>3, <1>6, <1>7, <1>8, <1>10, RowsStay

LEMMA DropKeeps ==
    ASSUME ChatInv, NEW p \in Pages, Drop(p)
    PROVE  ChatInv'
<1> USE DEF ChatInv
<1>1. /\ UNCHANGED <<selected, shown, astray, rowVars>> /\ linked' = linked \ {p}
      /\ inRooms' \in [Pages -> SUBSET Rooms] /\ active' \in [Pages -> Rooms \cup {NoRoom}]
      /\ late' = late \ {p} /\ active'[p] = NoRoom
      /\ \A q \in Pages : q # p => inRooms'[q] = inRooms[q] /\ active'[q] = active[q]
  BY DEF Drop, TextChatTypeOK
<1>2. /\ handler' \in [Slots -> ChatRequests \cup {Idle}]
      /\ \A n \in Slots : handler'[n] \in {handler[n], Idle}
      /\ \A n \in Slots : handler[n] # Idle /\ handler[n].page # p => handler'[n] = handler[n]
  BY DEF Drop, TextChatTypeOK
<1>3. TextChatTypeOK'
  BY <1>1, <1>2 DEF TextChatTypeOK, rowVars
<1>4. AttentionFits'
  BY <1>1 DEF AttentionFits
<1>5. OffTheList'
  BY <1>1 DEF OffTheList
<1>6. JoinsOne'
  <2>1. ASSUME NEW n \in Slots, handler'[n].op = "join"
        PROVE  \E r \in Rooms : handler'[n].rooms = {r}
    BY <1>2, <2>1 DEF JoinsOne, Idle
  <2> QED
    BY <2>1 DEF JoinsOne
<1>7. ReadFits'
  BY <1>1, <1>2 DEF ReadFits, rowVars
<1>8. ASSUME NEW q \in Pages, NEW m \in Posts, Settled(q)', m \notin astray'[q]
      PROVE  selected'[q] \in inRooms'[q] /\ (RoomOf[m] = selected'[q] => Lists(q, m)')
  <2>1. q # p
    BY <1>1, <1>8 DEF Settled
  <2>2. Joining(q) => Joining(q)'
    BY <1>1, <1>2, <2>1 DEF Joining
  <2> QED
    BY <1>1, <1>8, <2>1, <2>2, UntouchedFollow
<1>9. Follows'
  BY <1>8 DEF Follows
<1> QED
  BY <1>1, <1>3, <1>4, <1>5, <1>6, <1>7, <1>9, RowsStay

LEMMA onConnectKeeps ==
    ASSUME ChatInv, NEW p \in Pages, onConnect(p)
    PROVE  ChatInv'
<1> USE DEF ChatInv
<1>1. /\ UNCHANGED <<selected, inRooms, active, late, shown, astray, rowVars>>
      /\ p \notin linked /\ linked' = linked \cup {p}
  BY DEF onConnect
<1>2. AttentionFits' /\ OffTheList'
  BY <1>1 DEF AttentionFits, OffTheList
<1>3. /\ JoinsOne' /\ ReadFits' /\ handler' \in [Slots -> ChatRequests \cup {Idle}]
      /\ \A q \in Pages : Joining(q) => Joining(q)'
      /\ selected[p] # NoRoom => Joining(p)'
  <2>1. CASE selected[p] = NoRoom
    <3>1. UNCHANGED handler
      BY <2>1 DEF onConnect
    <3> QED
      BY <1>1, <2>1, <3>1 DEF JoinsOne, ReadFits, Joining, rowVars, TextChatTypeOK
  <2>2. CASE selected[p] # NoRoom
    <3>1. TakeUp(Request(p, "join", {selected[p]}))
      BY <2>2 DEF onConnect
    <3>2. selected[p] \in Rooms /\ {} \in SUBSET Rooms
      BY <2>2 DEF TextChatTypeOK
    <3>3. UNCHANGED rowVars /\ selected'[p] = selected[p]
      BY <1>1
    <3>4. handler' \in [Slots -> ChatRequests \cup {Idle}]
      BY <3>1, <3>2, TakenUp
    <3> QED
      BY <1>1, <3>1, <3>2, <3>3, <3>4, TakenUpKeeps
  <2> QED
    BY <2>1, <2>2
<1>4. TextChatTypeOK'
  BY <1>1, <1>3 DEF TextChatTypeOK, rowVars
<1>5. ASSUME NEW q \in Pages, NEW m \in Posts, Settled(q)', m \notin astray'[q]
      PROVE  selected'[q] \in inRooms'[q] /\ (RoomOf[m] = selected'[q] => Lists(q, m)')
  <2>1. q # p
    BY <1>1, <1>3, <1>5 DEF Settled
  <2> QED
    BY <1>1, <1>3, <1>5, <2>1, UntouchedFollow
<1>6. Follows'
  BY <1>5 DEF Follows
<1> QED
  BY <1>1, <1>2, <1>3, <1>4, <1>6, RowsStay

-----------------------------------------------------------------------------

\* What a handler that is under way asks for.
LEMMA AtWork ==
    ASSUME TextChatTypeOK, NEW n \in Slots, NEW op, NEW step, UnderWay(n, op, step)
    PROVE  /\ handler[n] \in ChatRequests /\ handler[n] # Idle
           /\ handler[n].op = op /\ handler[n].step = step
           /\ handler[n].page \in Pages /\ handler[n].rooms \in SUBSET Rooms
           /\ handler[n].read \in Rows
BY DEF UnderWay, TextChatTypeOK, ChatRequests

LEMMA EndsKeeps ==
    ASSUME TextChatTypeOK, JoinsOne, ReadFits, NEW n \in Slots, Ends(n), UNCHANGED rowVars
    PROVE  /\ handler' \in [Slots -> ChatRequests \cup {Idle}]
           /\ JoinsOne' /\ ReadFits'
           /\ \A k \in Slots \ {n} : handler'[k] = handler[k]
<1>1. /\ handler' \in [Slots -> ChatRequests \cup {Idle}] /\ handler'[n] = Idle
      /\ \A k \in Slots \ {n} : handler'[k] = handler[k]
  BY DEF Ends, TextChatTypeOK
<1>2. JoinsOne'
  BY <1>1 DEF JoinsOne, Idle
<1>3. ReadFits'
  BY <1>1 DEF ReadFits, rowVars
<1> QED
  BY <1>1, <1>2, <1>3

\* The end of a handler that is not a join of the channel changes nothing
\* about who waits.
LEMMA StillJoining ==
    ASSUME NEW n \in Slots, NEW q \in Pages, Joining(q), UNCHANGED selected,
           \A k \in Slots \ {n} : handler'[k] = handler[k],
           \/ handler[n].page # q
           \/ handler[n].op # "join"
           \/ selected[q] \notin handler[n].rooms
    PROVE  Joining(q)'
BY DEF Joining

LEMMA EnterKeeps ==
    ASSUME ChatInv, NEW n \in Slots, Enter(n)
    PROVE  ChatInv'
<1> USE DEF ChatInv
<1> DEFINE p == handler[n].page
<1>1. /\ handler[n] \in ChatRequests /\ handler[n] # Idle /\ handler[n].op = "join"
      /\ p \in Pages /\ handler[n].rooms \in SUBSET Rooms
  BY AtWork DEF Enter
<1>2. UNCHANGED <<linked, selected, shown, astray, rowVars>>
  BY DEF Enter
<1>3. PICK r \in handler[n].rooms :
        /\ active' = [active EXCEPT ![p] = r]
        /\ late' = IF selected[p] = r THEN late \ {p} ELSE late \cup {p}
  BY DEF Enter
<1>4. /\ inRooms' \in [Pages -> SUBSET Rooms]
      /\ \A q \in Pages : inRooms[q] \subseteq inRooms'[q]
  BY <1>1 DEF Enter, TextChatTypeOK
<1>5. /\ active' \in [Pages -> Rooms \cup {NoRoom}] /\ late' \subseteq Pages
      /\ active'[p] = r /\ \A q \in Pages : q # p => active'[q] = active[q]
  BY <1>1, <1>3 DEF TextChatTypeOK
<1>6. /\ handler' \in [Slots -> ChatRequests \cup {Idle}]
      /\ \A k \in Slots : k # n => handler'[k] = handler[k]
      /\ handler'[n] # Idle /\ handler'[n].page = p /\ handler'[n].op = "join"
      /\ handler'[n].rooms = handler[n].rooms /\ handler'[n].read = handler[n].read
  <2>1. handler' = [handler EXCEPT ![n] = [handler[n] EXCEPT !.step = "read"]]
    BY DEF Enter
  <2>2. /\ [handler[n] EXCEPT !.step = "read"] \in ChatRequests
        /\ [handler[n] EXCEPT !.step = "read"].op = "join"
        /\ [handler[n] EXCEPT !.step = "read"].page = handler[n].page
        /\ [handler[n] EXCEPT !.step = "read"].rooms = handler[n].rooms
        /\ [handler[n] EXCEPT !.step = "read"].read = handler[n].read
    BY <1>1 DEF ChatRequests
  <2> QED
    BY <2>1, <2>2 DEF TextChatTypeOK, Idle
<1>7. TextChatTypeOK'
  BY <1>2, <1>4, <1>5, <1>6 DEF TextChatTypeOK, rowVars
<1>8. AttentionFits'
  BY <1>2, <1>3, <1>5 DEF AttentionFits
<1>9. OffTheList'
  BY <1>2 DEF OffTheList
<1>10. JoinsOne'
  BY <1>1, <1>6 DEF JoinsOne
<1>11. ReadFits'
  BY <1>1, <1>2, <1>6 DEF ReadFits, rowVars
<1>12. ASSUME NEW q \in Pages, NEW m \in Posts, Settled(q)', m \notin astray'[q]
       PROVE  selected'[q] \in inRooms'[q] /\ (RoomOf[m] = selected'[q] => Lists(q, m)')
  <2>1. Joining(q) => Joining(q)'
    BY <1>1, <1>2, <1>6 DEF Joining
  <2> QED
    BY <1>2, <1>4, <1>12, <2>1, UntouchedFollow
<1>13. Follows'
  BY <1>12 DEF Follows
<1> QED
  BY <1>2, <1>7, <1>8, <1>9, <1>10, <1>11, <1>13, RowsStay

LEMMA JoinFailsKeeps ==
    ASSUME ChatInv, NEW n \in Slots, JoinFails(n)
    PROVE  ChatInv'
<1> USE DEF ChatInv
<1> DEFINE p == handler[n].page
<1>1. /\ handler[n] # Idle /\ handler[n].op = "join"
      /\ p \in Pages /\ handler[n].rooms \in SUBSET Rooms
  BY AtWork DEF JoinFails
<1>2. UNCHANGED <<linked, selected, inRooms, active, late, shown, rowVars>>
  BY DEF JoinFails
<1>3. /\ handler' \in [Slots -> ChatRequests \cup {Idle}] /\ JoinsOne' /\ ReadFits'
      /\ \A k \in Slots \ {n} : handler'[k] = handler[k]
  <2>1. UNCHANGED rowVars /\ Ends(n)
    BY DEF JoinFails
  <2> QED
    BY <2>1, EndsKeeps
<1>4. /\ astray' \in [Pages -> SUBSET Posts]
      /\ \A q \in Pages : astray[q] \subseteq astray'[q]
      /\ selected[p] \in handler[n].rooms => astray'[p] = Posts
  BY <1>1 DEF JoinFails, TextChatTypeOK
<1>5. TextChatTypeOK'
  BY <1>2, <1>3, <1>4 DEF TextChatTypeOK, rowVars
<1>6. AttentionFits' /\ OffTheList'
  BY <1>2 DEF AttentionFits, OffTheList
<1>7. ASSUME NEW q \in Pages, NEW m \in Posts, Settled(q)', m \notin astray'[q]
      PROVE  selected'[q] \in inRooms'[q] /\ (RoomOf[m] = selected'[q] => Lists(q, m)')
  <2>1. p # q \/ selected[q] \notin handler[n].rooms
    BY <1>4, <1>7
  <2>2. Joining(q) => Joining(q)'
    BY <1>2, <1>3, <2>1, StillJoining
  <2> QED
    BY <1>2, <1>4, <1>7, <2>2, UntouchedFollow
<1>8. Follows'
  BY <1>7 DEF Follows
<1> QED
  BY <1>2, <1>3, <1>5, <1>6, <1>8, RowsStay

LEMMA WatchKeeps ==
    ASSUME ChatInv, NEW n \in Slots, Watch(n) \/ WatchFails(n)
    PROVE  ChatInv'
<1> USE DEF ChatInv
<1>1. /\ handler[n] # Idle /\ handler[n].op = "watch"
      /\ handler[n].page \in Pages /\ handler[n].rooms \in SUBSET Rooms
  BY AtWork DEF Watch, WatchFails
<1>2. UNCHANGED <<linked, selected, active, late, shown, astray, rowVars>> /\ Ends(n)
  BY DEF Watch, WatchFails
<1>3. /\ handler' \in [Slots -> ChatRequests \cup {Idle}] /\ JoinsOne' /\ ReadFits'
      /\ \A k \in Slots \ {n} : handler'[k] = handler[k]
  <2>1. UNCHANGED rowVars
    BY <1>2
  <2> QED
    BY <1>2, <2>1, EndsKeeps
<1>4. /\ inRooms' \in [Pages -> SUBSET Rooms]
      /\ \A q \in Pages : inRooms[q] \subseteq inRooms'[q]
  BY <1>1 DEF Watch, WatchFails, TextChatTypeOK
<1>5. TextChatTypeOK'
  BY <1>2, <1>3, <1>4 DEF TextChatTypeOK, rowVars
<1>6. AttentionFits' /\ OffTheList'
  BY <1>2 DEF AttentionFits, OffTheList
<1>7. ASSUME NEW q \in Pages, NEW m \in Posts, Settled(q)', m \notin astray'[q]
      PROVE  selected'[q] \in inRooms'[q] /\ (RoomOf[m] = selected'[q] => Lists(q, m)')
  <2>1. Joining(q) => Joining(q)'
    BY <1>1, <1>2, <1>3, StillJoining
  <2> QED
    BY <1>2, <1>4, <1>7, <2>1, UntouchedFollow
<1>8. Follows'
  BY <1>7 DEF Follows
<1> QED
  BY <1>2, <1>3, <1>5, <1>6, <1>8, RowsStay

LEMMA ReadsHistoryKeeps ==
    ASSUME ChatInv, NEW n \in Slots, ReadsHistory(n)
    PROVE  ChatInv'
<1> USE DEF ChatInv
<1>1. /\ handler[n] \in ChatRequests /\ handler[n] # Idle /\ handler[n].op = "join"
      /\ handler[n].page \in Pages /\ handler[n].rooms \in SUBSET Rooms
  BY AtWork DEF ReadsHistory
<1>2. UNCHANGED <<linked, selected, inRooms, active, late, shown, astray, rowVars>>
  BY DEF ReadsHistory
<1>3. PICK rows \in {version, NoRows} :
        handler' = [handler EXCEPT ![n].step = "answer",
          ![n].read = [m \in Posts |->
            IF RoomOf[m] \in handler[n].rooms THEN rows[m] ELSE Unwritten]]
  BY DEF ReadsHistory
<1> DEFINE found == [m \in Posts |->
             IF RoomOf[m] \in handler[n].rooms THEN rows[m] ELSE Unwritten]
           h == [[handler[n] EXCEPT !.step = "answer"] EXCEPT !.read = found]
<1>4. found \in Rows
  BY <1>3 DEF Rows, NoRows, TextChatTypeOK
<1>5. \A m \in Posts : found[m] # Unwritten =>
        RoomOf[m] \in handler[n].rooms /\ found[m] = version[m]
  BY <1>3 DEF NoRows
<1> HIDE DEF found
<1>6. /\ h \in ChatRequests /\ h # Idle /\ h.op = "join" /\ h.page = handler[n].page
      /\ h.rooms = handler[n].rooms /\ h.read = found
  BY <1>1, <1>4 DEF ChatRequests, Idle
<1>7. handler' = [handler EXCEPT ![n] = h]
  BY <1>1, <1>3 DEF TextChatTypeOK, found
<1> HIDE DEF h
<1>8. /\ handler' \in [Slots -> ChatRequests \cup {Idle}] /\ handler'[n] = h
      /\ \A k \in Slots : k # n => handler'[k] = handler[k]
  BY <1>6, <1>7 DEF TextChatTypeOK
<1>9. TextChatTypeOK'
  BY <1>2, <1>8 DEF TextChatTypeOK, rowVars
<1>10. AttentionFits' /\ OffTheList'
  BY <1>2 DEF AttentionFits, OffTheList
<1>11. JoinsOne'
  BY <1>1, <1>6, <1>8 DEF JoinsOne
<1>12. ReadFits'
  BY <1>2, <1>5, <1>6, <1>8 DEF ReadFits, rowVars
<1>13. ASSUME NEW q \in Pages, NEW m \in Posts, Settled(q)', m \notin astray'[q]
       PROVE  selected'[q] \in inRooms'[q] /\ (RoomOf[m] = selected'[q] => Lists(q, m)')
  <2>1. Joining(q) => Joining(q)'
    BY <1>1, <1>2, <1>6, <1>8 DEF Joining
  <2> QED
    BY <1>2, <1>13, <2>1, UntouchedFollow
<1>14. Follows'
  BY <1>13 DEF Follows
<1> QED
  BY <1>2, <1>9, <1>10, <1>11, <1>12, <1>14, RowsStay

\* What a history that was awaited brings, when it met no race.
LEMMA HistoryFits ==
    ASSUME ChatInv, NEW n \in Slots, Answer(n),
           NEW p \in Pages, p = handler[n].page, selected[p] \in handler[n].rooms,
           NEW m \in Posts
    PROVE  /\ RoomOf[m] # selected[p] => shown'[p][m] = <<>>
           /\ m \notin astray'[p] => selected[p] \in inRooms[p] /\ Lists(p, m)'
<1> USE DEF ChatInv
<1> DEFINE read == handler[n].read
<1>1. /\ handler[n] # Idle /\ handler[n].op = "join" /\ read \in Rows
      /\ handler[n].rooms \in SUBSET Rooms
  BY AtWork DEF Answer
<1>2. handler[n].rooms = {selected[p]}
  BY <1>1 DEF JoinsOne
<1>3. read[m] # Unwritten =>
        /\ RoomOf[m] = selected[p] /\ version[m] # Unwritten
        /\ read[m] = Deleted => version[m] = Deleted
  BY <1>1, <1>2 DEF ReadFits
<1>4. shown'[p][m] = IF read[m] = Unwritten THEN <<>> ELSE <<read[m]>>
  BY DEF Answer, TextChatTypeOK
<1>5. m \notin astray'[p] =>
        /\ selected[p] \in inRooms[p]
        /\ ~(read[m] # Unwritten /\ m \in untold)
        /\ ~(read[m] # version[m] /\ IsTold(m, version[m]))
        /\ ~(read[m] = Unwritten /\ version[m] # Unwritten /\ m \notin untold)
  BY DEF Answer, TextChatTypeOK
<1>6. version' = version /\ untold' = untold /\ telling' = telling
  BY DEF Answer, rowVars
<1>7. read[m] \in Texts \cup {Unwritten}
  BY <1>1 DEF Rows
<1>8. ASSUME m \notin astray'[p] PROVE Lists(p, m)'
  <2>1. CASE version[m] = Unwritten \/ m \in untold
    BY <1>3, <1>4, <1>5, <1>6, <1>8, <2>1 DEF Lists
  <2>2. CASE version[m] # Unwritten /\ m \notin untold
    <3>1. PICK t \in Texts : t = read[m] /\ shown'[p][m] = <<t>>
      BY <1>4, <1>5, <1>7, <1>8, <2>2
    <3>2. t = version[m] \/ <<m, version[m]>> \in telling
      BY <1>5, <1>8, <2>2, <3>1 DEF IsTold
    <3>3. Current(m, t)'
      BY <1>3, <1>6, <3>1, <3>2, VersionsAreNumbers DEF Current
    <3> QED
      BY <1>6, <2>2, <3>1, <3>3 DEF Lists
  <2> QED
    BY <2>1, <2>2
<1> QED
  BY <1>3, <1>4, <1>5, <1>8

LEMMA AnswerKeeps ==
    ASSUME ChatInv, NEW n \in Slots, Answer(n)
    PROVE  ChatInv'
<1> USE DEF ChatInv
<1> DEFINE p == handler[n].page
           read == handler[n].read
<1>1. /\ handler[n] # Idle /\ handler[n].op = "join"
      /\ p \in Pages /\ handler[n].rooms \in SUBSET Rooms /\ read \in Rows
  BY AtWork DEF Answer
<1>2. UNCHANGED <<linked, selected, inRooms, active, late, rowVars>>
  BY DEF Answer
<1>3. /\ handler' \in [Slots -> ChatRequests \cup {Idle}] /\ JoinsOne' /\ ReadFits'
      /\ \A k \in Slots \ {n} : handler'[k] = handler[k]
  <2>1. UNCHANGED rowVars /\ Ends(n)
    BY DEF Answer
  <2> QED
    BY <2>1, EndsKeeps
<1>4. /\ shown' \in [Pages -> [Posts -> Seq(Texts)]]
      /\ astray' \in [Pages -> SUBSET Posts]
      /\ \A q \in Pages : q # p \/ selected[q] \notin handler[n].rooms =>
           shown'[q] = shown[q] /\ astray'[q] = astray[q]
  <2>1. CASE selected[p] \in handler[n].rooms
    <3> DEFINE page == [m \in Posts |-> IF read[m] = Unwritten THEN <<>> ELSE <<read[m]>>]
               met == {m \in Posts :
                     \/ selected[p] \notin inRooms[p]
                     \/ read[m] # Unwritten /\ m \in untold
                     \/ read[m] # version[m] /\ IsTold(m, version[m])
                     \/ read[m] = Unwritten /\ version[m] # Unwritten /\ m \notin untold}
    <3>1. shown' = [shown EXCEPT ![p] = page] /\ astray' = [astray EXCEPT ![p] = met]
      BY <2>1 DEF Answer
    <3>2. page \in [Posts -> Seq(Texts)]
      BY <1>1 DEF Rows
    <3>3. met \in SUBSET Posts
      OBVIOUS
    <3> HIDE DEF page, met
    <3> QED
      BY <1>1, <2>1, <3>1, <3>2, <3>3 DEF TextChatTypeOK
  <2>2. CASE selected[p] \notin handler[n].rooms
    BY <2>2 DEF Answer, TextChatTypeOK
  <2> QED
    BY <2>1, <2>2
<1>5. TextChatTypeOK'
  BY <1>2, <1>3, <1>4 DEF TextChatTypeOK, rowVars
<1>6. AttentionFits'
  BY <1>2 DEF AttentionFits
<1>7. OffTheList'
  <2>1. ASSUME NEW q \in Pages, NEW m \in Posts, RoomOf[m] # selected[q]
        PROVE  shown'[q][m] = <<>>
    <3>1. CASE q = p /\ selected[q] \in handler[n].rooms
      BY <2>1, <3>1, HistoryFits
    <3>2. CASE q # p \/ selected[q] \notin handler[n].rooms
      BY <1>4, <2>1, <3>2 DEF OffTheList
    <3> QED
      BY <3>1, <3>2
  <2> QED
    BY <1>2, <2>1 DEF OffTheList
<1>8. ASSUME NEW q \in Pages, NEW m \in Posts, Settled(q)', m \notin astray'[q]
      PROVE  selected'[q] \in inRooms'[q] /\ (RoomOf[m] = selected'[q] => Lists(q, m)')
  <2>1. CASE q = p /\ selected[q] \in handler[n].rooms
    BY <1>2, <1>8, <2>1, HistoryFits
  <2>2. CASE q # p \/ selected[q] \notin handler[n].rooms
    <3>1. Joining(q) => Joining(q)'
      BY <1>2, <1>3, <2>2, StillJoining
    <3> QED
      BY <1>2, <1>4, <1>8, <2>2, <3>1, UntouchedFollow
  <2> QED
    BY <2>1, <2>2
<1>9. Follows'
  BY <1>8 DEF Follows
<1> QED
  BY <1>2, <1>3, <1>5, <1>6, <1>7, <1>9, RowsStay

-----------------------------------------------------------------------------

\* What is written or announced of one message is no matter of the others.
LEMMA OneMessage ==
    ASSUME ChatInv, UNCHANGED pageVars, NEW m \in Posts,
           version' \in Rows, untold' \subseteq Posts, telling' \subseteq Posts \X Texts,
           shown' \in [Pages -> [Posts -> Seq(Texts)]],
           astray' \in [Pages -> SUBSET Posts],
           ReadFits', TellingFits',
           \A k \in Posts \ {m} :
             /\ version'[k] = version[k] /\ (k \in untold' <=> k \in untold)
             /\ \A v \in Texts : <<k, v>> \in telling' <=> <<k, v>> \in telling
             /\ \A p \in Pages : shown'[p][k] = shown[p][k],
           \A p \in Pages : astray[p] \subseteq astray'[p],
           \A p \in Pages : RoomOf[m] # selected[p] => shown'[p][m] = shown[p][m],
           \A p \in Pages :
             /\ p \in linked /\ selected[p] \in inRooms[p] /\ RoomOf[m] = selected[p]
             /\ m \notin astray'[p] /\ Lists(p, m)
             => Lists(p, m)'
    PROVE  ChatInv'
<1> USE DEF ChatInv
<1>1. UNCHANGED <<linked, selected, inRooms, active, handler, late>>
  BY DEF pageVars
<1>2. TextChatTypeOK'
  BY <1>1 DEF TextChatTypeOK
<1>3. AttentionFits' /\ JoinsOne'
  BY <1>1 DEF AttentionFits, JoinsOne
<1>4. OffTheList'
  <2>1. ASSUME NEW q \in Pages, NEW k \in Posts, RoomOf[k] # selected[q]
        PROVE  shown'[q][k] = <<>>
    <3>1. shown'[q][k] = shown[q][k]
      BY <2>1
    <3> QED
      BY <2>1, <3>1 DEF OffTheList
  <2> QED
    BY <1>1, <2>1 DEF OffTheList
<1>5. Follows'
  <2>1. ASSUME NEW q \in Pages, NEW k \in Posts, Settled(q)', k \notin astray'[q]
        PROVE  selected'[q] \in inRooms'[q] /\ (RoomOf[k] = selected'[q] => Lists(q, k)')
    <3>1. Settled(q) /\ k \notin astray[q]
      BY <1>1, <2>1 DEF Settled, Joining
    <3>2. selected[q] \in inRooms[q] /\ (RoomOf[k] = selected[q] => Lists(q, k))
      BY <3>1 DEF Follows
    <3>3. CASE k = m
      BY <1>1, <2>1, <3>1, <3>2, <3>3 DEF Settled
    <3>4. CASE k # m
      <4>1. /\ version'[k] = version[k] /\ (k \in untold' <=> k \in untold)
            /\ \A v \in Texts : <<k, v>> \in telling' <=> <<k, v>> \in telling
            /\ shown'[q][k] = shown[q][k]
        BY <3>4
      <4>2. version[k] # Unwritten => version[k] \in Texts
        BY DEF TextChatTypeOK, Rows
      <4>3. Lists(q, k) => Lists(q, k)'
        BY <4>1, <4>2 DEF Lists, Current
      <4> QED
        BY <1>1, <3>2, <4>3
    <3> QED
      BY <3>3, <3>4
  <2> QED
    BY <2>1 DEF Follows
<1> QED
  BY <1>2, <1>3, <1>4, <1>5

LEMMA addMessageKeeps ==
    ASSUME ChatInv, NEW m \in Posts, addMessage(m)
    PROVE  ChatInv'
<1> USE DEF ChatInv
<1>1. /\ UNCHANGED pageVars /\ UNCHANGED <<telling, shown, astray>>
      /\ version[m] = Unwritten /\ untold' = untold \cup {m}
      /\ version' \in Rows /\ version'[m] = Original
      /\ \A k \in Posts \ {m} : version'[k] = version[k]
  BY VersionsAreNumbers DEF addMessage, TextChatTypeOK, Rows
<1>2. m \notin untold /\ \A v \in Texts : <<m, v>> \notin telling
  BY <1>1 DEF TellingFits
<1>3. TellingFits'
  <2>1. Original # Unwritten
    BY VersionsAreNumbers
  <2>2. \A k \in untold' : version'[k] # Unwritten
    BY <1>1, <2>1 DEF TellingFits, TextChatTypeOK
  <2>3. ASSUME NEW k \in Posts, NEW v \in Texts, <<k, v>> \in telling'
        PROVE  /\ v # Original /\ version'[k] \notin {Unwritten, Original}
               /\ v = Deleted => version'[k] = Deleted
    BY <1>1, <1>2, <2>3 DEF TellingFits
  <2> QED
    BY <2>2, <2>3 DEF TellingFits
<1>4. ReadFits'
  BY <1>1 DEF ReadFits, pageVars
<1>5. ASSUME NEW p \in Pages, Lists(p, m) PROVE Lists(p, m)'
  BY <1>1, <1>5 DEF Lists
<1>6. /\ untold' \subseteq Posts /\ telling' \subseteq Posts \X Texts
      /\ shown' \in [Pages -> [Posts -> Seq(Texts)]] /\ astray' \in [Pages -> SUBSET Posts]
  BY <1>1 DEF TextChatTypeOK
<1> QED
  BY <1>1, <1>3, <1>4, <1>5, <1>6, OneMessage

LEMMA ChangeKeeps ==
    ASSUME ChatInv, NEW m \in Posts, NEW v \in Texts, Change(m, v)
    PROVE  ChatInv'
<1> USE DEF ChatInv
<1>1. /\ UNCHANGED pageVars /\ UNCHANGED <<untold, shown, astray>>
      /\ telling' = telling \cup {<<m, v>>}
      /\ version' \in Rows /\ version'[m] = v
      /\ \A k \in Posts \ {m} : version'[k] = version[k]
  BY DEF Change, TextChatTypeOK, Rows
<1>2. /\ version[m] \in Texts /\ version[m] # Deleted /\ version[m] # Unwritten
      /\ v # Original /\ v # Unwritten
  BY VersionsAreNumbers DEF Change
<1>3. TellingFits'
  <2>1. ASSUME NEW k \in Posts, NEW w \in Texts, <<k, w>> \in telling'
        PROVE  /\ w # Original /\ version'[k] \notin {Unwritten, Original}
               /\ w = Deleted => version'[k] = Deleted
    <3>1. CASE <<k, w>> \in telling
      BY <1>1, <1>2, <3>1 DEF TellingFits
    <3>2. CASE <<k, w>> = <<m, v>>
      BY <1>1, <1>2, <3>2
    <3> QED
      BY <1>1, <2>1, <3>1, <3>2
  <2>2. \A k \in untold' : version'[k] # Unwritten
    BY <1>1, <1>2 DEF TellingFits, TextChatTypeOK
  <2> QED
    BY <2>1, <2>2 DEF TellingFits
<1>4. ReadFits'
  BY <1>1, <1>2 DEF ReadFits, pageVars
<1>5. ASSUME NEW p \in Pages, Lists(p, m) PROVE Lists(p, m)'
  BY <1>1, <1>2, <1>5 DEF Lists, Current
<1>6. /\ untold' \subseteq Posts /\ telling' \subseteq Posts \X Texts
      /\ shown' \in [Pages -> [Posts -> Seq(Texts)]] /\ astray' \in [Pages -> SUBSET Posts]
  BY <1>1 DEF TextChatTypeOK
<1> QED
  BY <1>1, <1>3, <1>4, <1>5, <1>6, OneMessage

LEMMA TellKeeps ==
    ASSUME ChatInv, NEW m \in Posts, Tell(m)
    PROVE  ChatInv'
<1> USE DEF ChatInv
<1>1. /\ UNCHANGED pageVars /\ UNCHANGED <<version, telling>>
      /\ m \in untold /\ untold' = untold \ {m}
  BY DEF Tell
<1>2. ASSUME NEW p \in Pages
      PROVE  /\ shown'[p] \in [Posts -> Seq(Texts)]
             /\ p \in Readers(m) => shown'[p][m] = Append(shown[p][m], Original)
             /\ p \notin Readers(m) => shown'[p] = shown[p]
             /\ \A k \in Posts \ {m} : shown'[p][k] = shown[p][k]
  <2>1. shown[p] \in [Posts -> Seq(Texts)]
    BY DEF TextChatTypeOK
  <2>2. shown'[p] = IF p \in Readers(m)
          THEN [shown[p] EXCEPT ![m] = Append(shown[p][m], Original)] ELSE shown[p]
    BY <2>1 DEF Tell
  <2>3. Append(shown[p][m], Original) \in Seq(Texts)
    BY <2>1, VersionsAreNumbers
  <2> QED
    BY <2>1, <2>2, <2>3
<1>3. shown' \in [Pages -> [Posts -> Seq(Texts)]]
  <2>1. DOMAIN shown' = Pages /\ shown' = [p \in Pages |-> shown'[p]]
    BY DEF Tell
  <2> QED
    BY <1>2, <2>1
<1>4. /\ astray' \in [Pages -> SUBSET Posts]
      /\ \A p \in Pages : astray[p] \subseteq astray'[p]
      /\ \A p \in Readers(m) : m \notin astray'[p] =>
           version[m] = Original \/ <<m, version[m]>> \in telling
  BY DEF Tell, TextChatTypeOK, Readers
<1>5. ASSUME NEW p \in Pages, p \in linked, selected[p] \in inRooms[p],
             RoomOf[m] = selected[p], m \notin astray'[p], Lists(p, m)
      PROVE  Lists(p, m)'
  <2>1. p \in Readers(m)
    BY <1>5 DEF Readers
  <2>2. shown[p][m] = <<>> /\ version[m] # Unwritten
    BY <1>1, <1>5 DEF Lists, TellingFits
  <2>3. shown'[p][m] = <<Original>>
    BY <1>2, <2>1, <2>2
  <2>4. version[m] = Original \/ <<m, version[m]>> \in telling
    BY <1>4, <1>5, <2>1
  <2> QED
    BY <1>1, <2>2, <2>3, <2>4, VersionsAreNumbers DEF Lists, Current
<1>6. TellingFits' /\ ReadFits'
  BY <1>1 DEF TellingFits, ReadFits, pageVars
<1>7. /\ untold' \subseteq Posts /\ telling' \subseteq Posts \X Texts /\ version' \in Rows
  BY <1>1 DEF TextChatTypeOK
<1>8. \A p \in Pages : RoomOf[m] # selected[p] => shown'[p][m] = shown[p][m]
  BY <1>2 DEF Readers
<1> QED
  BY <1>1, <1>2, <1>3, <1>4, <1>5, <1>6, <1>7, <1>8, OneMessage

LEMMA ChangedTexts ==
    ASSUME NEW v \in Texts
    PROVE  /\ \A s \in Seq(Texts) : Changed(v, s) \in Seq(Texts)
           /\ Changed(v, <<>>) = <<>>
           /\ \A t \in Texts : Changed(v, <<t>>) = <<IF t = Deleted THEN Deleted ELSE v>>
<1>1. ASSUME NEW s \in Seq(Texts) PROVE Changed(v, s) \in Seq(Texts)
  <2>1. Deleted \in Texts
    BY VersionsAreNumbers
  <2>2. PICK n \in Nat : s \in [1..n -> Texts]
    OBVIOUS
  <2> QED
    BY <2>1, <2>2 DEF Changed
<1>2. Changed(v, <<>>) = <<>>
  BY DEF Changed
<1>3. ASSUME NEW t \in Texts
      PROVE  Changed(v, <<t>>) = <<IF t = Deleted THEN Deleted ELSE v>>
  BY DEF Changed
<1> QED
  BY <1>1, <1>2, <1>3

LEMMA AnnounceKeeps ==
    ASSUME ChatInv, NEW m \in Posts, NEW v \in Texts, Announce(m, v)
    PROVE  ChatInv'
<1> USE DEF ChatInv
<1>1. /\ UNCHANGED pageVars /\ UNCHANGED <<version, untold>>
      /\ <<m, v>> \in telling /\ telling' = telling \ {<<m, v>>}
  BY DEF Announce
<1>2. ASSUME NEW p \in Pages
      PROVE  /\ shown'[p] \in [Posts -> Seq(Texts)]
             /\ p \in Readers(m) => shown'[p][m] = Changed(v, shown[p][m])
             /\ p \notin Readers(m) => shown'[p] = shown[p]
             /\ \A k \in Posts \ {m} : shown'[p][k] = shown[p][k]
  <2>1. shown[p] \in [Posts -> Seq(Texts)]
    BY DEF TextChatTypeOK
  <2>2. shown'[p] = IF p \in Readers(m)
          THEN [shown[p] EXCEPT ![m] = Changed(v, shown[p][m])] ELSE shown[p]
    BY <2>1 DEF Announce
  <2>3. Changed(v, shown[p][m]) \in Seq(Texts)
    BY <2>1, ChangedTexts
  <2> QED
    BY <2>1, <2>2, <2>3
<1>3. shown' \in [Pages -> [Posts -> Seq(Texts)]]
  <2>1. DOMAIN shown' = Pages /\ shown' = [p \in Pages |-> shown'[p]]
    BY DEF Announce
  <2> QED
    BY <1>2, <2>1
<1>4. /\ astray' \in [Pages -> SUBSET Posts]
      /\ \A p \in Pages : astray[p] \subseteq astray'[p]
      /\ \A p \in Readers(m) : m \notin astray'[p] =>
           version[m] \in {v, Deleted} \/ <<m, version[m]>> \in telling
  BY DEF Announce, TextChatTypeOK, Readers
<1>5. ASSUME NEW p \in Pages, p \in linked, selected[p] \in inRooms[p],
             RoomOf[m] = selected[p], m \notin astray'[p], Lists(p, m)
      PROVE  Lists(p, m)'
  <2>1. p \in Readers(m)
    BY <1>5 DEF Readers
  <2>2. shown'[p][m] = Changed(v, shown[p][m])
    BY <1>2, <2>1
  <2>3. CASE m \in untold \/ version[m] = Unwritten
    <3>1. shown[p][m] = <<>>
      BY <1>5, <2>3 DEF Lists
    <3>2. shown'[p][m] = <<>>
      BY <2>2, <3>1, ChangedTexts
    <3> QED
      BY <1>1, <2>3, <3>2 DEF Lists
  <2>4. CASE m \notin untold /\ version[m] # Unwritten
    <3>1. PICK t \in Texts : shown[p][m] = <<t>> /\ Current(m, t)
      BY <1>5, <2>4 DEF Lists
    <3>2. PICK u \in Texts : u = IF t = Deleted THEN Deleted ELSE v
      BY VersionsAreNumbers
    <3>3. shown'[p][m] = <<u>>
      BY <2>2, <3>1, <3>2, ChangedTexts
    <3>4. /\ t = Deleted => version[m] = Deleted
          /\ t = version[m] \/ <<m, version[m]>> \in telling
          /\ v = Deleted => version[m] = Deleted
      BY <1>1, <3>1 DEF Current, TellingFits
    <3>5. version[m] \in {v, Deleted} \/ <<m, version[m]>> \in telling
      BY <1>4, <1>5, <2>1
    <3>6. u = Deleted => version[m] = Deleted
      BY <3>2, <3>4
    <3>7. u = version[m] \/ (<<m, version[m]>> \in telling /\ version[m] # v)
      BY <3>2, <3>4, <3>5
    <3>8. Current(m, u)'
      BY <1>1, <3>6, <3>7 DEF Current
    <3> QED
      BY <1>1, <2>4, <3>3, <3>8 DEF Lists
  <2> QED
    BY <2>3, <2>4
<1>6. TellingFits' /\ ReadFits'
  BY <1>1 DEF TellingFits, ReadFits, pageVars
<1>7. /\ untold' \subseteq Posts /\ telling' \subseteq Posts \X Texts /\ version' \in Rows
  BY <1>1 DEF TextChatTypeOK
<1>8. \A p \in Pages : RoomOf[m] # selected[p] => shown'[p][m] = shown[p][m]
  BY <1>2 DEF Readers
<1> QED
  BY <1>1, <1>2, <1>3, <1>4, <1>5, <1>6, <1>7, <1>8, OneMessage

-----------------------------------------------------------------------------

LEMMA ChatSteps == ChatInv /\ [TextChatNext]_chatVars => ChatInv'
<1> SUFFICES ASSUME ChatInv, [TextChatNext]_chatVars PROVE ChatInv'
  OBVIOUS
<1>1. ASSUME NEW p \in Pages,
             \/ Unmount(p) \/ joinAgain(p) \/ Drop(p) \/ onConnect(p)
             \/ \E r \in Rooms : Mount(p, r) \/ joinChannel(p, r)
      PROVE  ChatInv'
  BY <1>1, MountKeeps, UnmountKeeps, joinChannelKeeps, joinAgainKeeps, DropKeeps,
     onConnectKeeps
<1>2. ASSUME NEW n \in Slots,
             \/ Enter(n) \/ JoinFails(n) \/ ReadsHistory(n) \/ Answer(n)
             \/ Watch(n) \/ WatchFails(n)
      PROVE  ChatInv'
  BY <1>2, EnterKeeps, JoinFailsKeeps, ReadsHistoryKeeps, AnswerKeeps, WatchKeeps
<1>3. ASSUME NEW m \in Posts,
             \/ addMessage(m) \/ Tell(m)
             \/ \E v \in Texts : Change(m, v) \/ Announce(m, v)
      PROVE  ChatInv'
  BY <1>3, addMessageKeeps, TellKeeps, ChangeKeeps, AnnounceKeeps
<1>4. CASE UNCHANGED chatVars
  BY <1>4 DEF chatVars, ChatInv, TextChatTypeOK, AttentionFits, Follows, Settled, Joining,
              Lists, Current, OffTheList, JoinsOne, ReadFits, TellingFits
<1> QED
  BY <1>1, <1>2, <1>3, <1>4 DEF TextChatNext

LEMMA ChatFollows == ChatInv => PagesFollowChat
<1> SUFFICES ASSUME ChatInv PROVE ListFollows
  BY DEF ChatInv, PagesFollowChat
<1> USE DEF ChatInv
<1>1. SUFFICES ASSUME NEW p \in linked, selected[p] \in inRooms[p], ~Joining(p),
                      NEW m \in Posts \ (astray[p] \cup untold),
                      \A v \in Texts : <<m, v>> \notin telling
               PROVE  shown[p][m] = IF RoomOf[m] # selected[p] \/ version[m] = Unwritten
                                    THEN <<>> ELSE <<version[m]>>
  BY DEF ListFollows
<1>2. p \in Pages /\ Settled(p)
  BY <1>1, TextChatAssumption DEF Settled, TextChatTypeOK, NoRoom
<1>3. CASE RoomOf[m] # selected[p]
  BY <1>2, <1>3 DEF OffTheList
<1>4. CASE RoomOf[m] = selected[p]
  <2>1. Lists(p, m)
    BY <1>2, <1>4 DEF Follows
  <2>2. version[m] # Unwritten => version[m] \in Texts
    BY DEF TextChatTypeOK, Rows
  <2> QED
    BY <1>1, <1>4, <2>1, <2>2 DEF Lists, Current
<1> QED
  BY <1>3, <1>4

\* A page that is connected, joined to its channel and not waiting for it
\* shows each message of the channel once and as it is in the table as soon as
\* all was announced, unless the history recorded a race over that message;
\* and the core takes a page to look at no channel but the one it shows
\* (chat:join, chat:send; joinChannel and the chat: handlers of the page).
THEOREM ChatIsFollowed == TextChatSpec => []PagesFollowChat
<1>1. TextChatSpec => []ChatInv
  BY ChatStarts, ChatSteps, PTL DEF TextChatSpec
<1> QED
  BY <1>1, ChatFollows, PTL


-----------------------------------------------------------------------------
(* Presence.  What a page shows of an account depends on its tabs that are *)
(* listed; while the first one is about to be, both answers are possible.  *)

\* Redis answers a connection once, and one that waits is not in the room.
WireFits ==
    /\ \A i \in 1..Len(wire) : wire[i].op = "get" => setup[wire[i].tab] = "redis"
    /\ \A i, j \in 1..Len(wire) :
         wire[i].op = "get" /\ wire[j].op = "get" /\ wire[i].tab = wire[j].tab => i = j

SetupFits == \A t \in Tabs :
    /\ setup[t] \in {"database", "redis"} => t \notin present
    /\ Listing(t) /\ AccountOf[t] \notin mixed =>
         /\ t \in present
         /\ \A s \in TabsOf(AccountOf[t]) : Listing(s) => s = t

StatusFits == \A t \in present : AccountOf[t] \notin mixed => status[t] = saved[AccountOf[t]]

ListFits == \A t \in present, u \in People \ mixed : ~Listing(t) =>
    /\ ~Online(u) => list[t][u] = Offline
    /\ Online(u) => list[t][u] \in {Offline, saved[u]}
    /\ (\E s \in present \cap TabsOf(u) : ~Listing(s)) => list[t][u] = saved[u]

PresenceInv == PresenceTypeOK /\ WireFits /\ SetupFits /\ StatusFits /\ ListFits

LEMMA PresenceStarts == PresenceInit => PresenceInv
<1> SUFFICES ASSUME PresenceInit PROVE PresenceInv
  OBVIOUS
<1>1. PresenceTypeOK
  BY DEF PresenceInit, PresenceTypeOK, Values, Nobody
<1>2. WireFits
  BY DEF PresenceInit, WireFits
<1>3. SetupFits /\ StatusFits /\ ListFits
  BY DEF PresenceInit, SetupFits, StatusFits, ListFits, Listing
<1> QED
  BY <1>1, <1>2, <1>3 DEF PresenceInv

LEMMA StatusesDiffer ==
    /\ Offline \notin Values
    /\ \A t \in Tabs : AccountOf[t] \in People
BY PresenceAssumption DEF Offline, Values, NoStatus

\* What is left on the wire.
LEMMA Answered1 ==
    ASSUME PresenceTypeOK, WireFits, wire # <<>>, wire' = Tail(wire), NEW t \in Tabs,
           Head(wire).op = "get" => Head(wire).tab = t,
           \A s \in Tabs : setup[s] = "redis" /\ ~(s = t /\ Head(wire).op = "get")
             => setup'[s] = "redis"
    PROVE  wire' \in Seq(Commands) /\ WireFits'
<1>1. wire \in Seq(Commands)
  BY DEF PresenceTypeOK
<1>2. /\ Len(wire) \in Nat /\ Len(wire) # 0
      /\ wire' \in Seq(Commands) /\ Len(wire') = Len(wire) - 1
      /\ \A i \in 1..Len(wire') : wire'[i] = wire[i + 1]
      /\ Head(wire) = wire[1]
  BY <1>1
<1>3. \A i \in 1..Len(wire) : wire[i] \in Commands
  BY <1>1
<1>4. \A i \in 1..Len(wire') : i + 1 \in 1..Len(wire) /\ i + 1 # 1 /\ 1 \in 1..Len(wire)
  BY <1>2
<1>5. ASSUME NEW i \in 1..Len(wire'), wire'[i].op = "get"
      PROVE  setup'[wire'[i].tab] = "redis"
  <2>1. wire'[i] = wire[i + 1] /\ i + 1 \in 1..Len(wire) /\ i + 1 # 1 /\ 1 \in 1..Len(wire)
    BY <1>2, <1>4
  <2>2. wire'[i].tab \in Tabs
    BY <1>3, <1>5, <2>1 DEF Commands
  <2>3. setup[wire'[i].tab] = "redis"
    BY <1>5, <2>1 DEF WireFits
  <2>4. ~(wire'[i].tab = t /\ Head(wire).op = "get")
    BY <1>2, <1>5, <2>1 DEF WireFits
  <2> QED
    BY <2>2, <2>3, <2>4
<1>6. ASSUME NEW i \in 1..Len(wire'), NEW j \in 1..Len(wire'),
             wire'[i].op = "get", wire'[j].op = "get", wire'[i].tab = wire'[j].tab
      PROVE  i = j
  <2>1. i + 1 = j + 1
    BY <1>2, <1>4, <1>6 DEF WireFits
  <2> QED
    BY <2>1
<1> QED
  BY <1>2, <1>5, <1>6 DEF WireFits

LEMMA Asked1 ==
    ASSUME PresenceTypeOK, WireFits, NEW c \in Commands, wire' = Append(wire, c),
           \A s \in Tabs : setup[s] = "redis" => setup'[s] = "redis",
           c.op = "get" => setup'[c.tab] = "redis" /\ setup[c.tab] # "redis"
    PROVE  wire' \in Seq(Commands) /\ WireFits'
<1>1. wire \in Seq(Commands)
  BY DEF PresenceTypeOK
<1>2. /\ Len(wire) \in Nat /\ wire' \in Seq(Commands) /\ Len(wire') = Len(wire) + 1
      /\ wire'[Len(wire) + 1] = c
      /\ \A i \in 1..Len(wire) : wire'[i] = wire[i] /\ wire[i] \in Commands
  BY <1>1
<1>3. \A i \in 1..Len(wire') : i \in 1..Len(wire) \/ i = Len(wire) + 1
  BY <1>2
<1>4. ASSUME NEW i \in 1..Len(wire), wire[i].op = "get"
      PROVE  /\ wire[i].tab \in Tabs /\ setup[wire[i].tab] = "redis"
             /\ setup'[wire[i].tab] = "redis"
  <2>1. wire[i].tab \in Tabs
    BY <1>2, <1>4 DEF Commands
  <2> QED
    BY <1>4, <2>1 DEF WireFits
<1>5. \A i \in 1..Len(wire') : wire'[i].op = "get" => setup'[wire'[i].tab] = "redis"
  BY <1>2, <1>3, <1>4
<1>6. \A i, j \in 1..Len(wire') :
        wire'[i].op = "get" /\ wire'[j].op = "get" /\ wire'[i].tab = wire'[j].tab => i = j
  <2> TAKE i, j \in 1..Len(wire')
  <2> HAVE wire'[i].op = "get" /\ wire'[j].op = "get" /\ wire'[i].tab = wire'[j].tab
  <2>1. CASE i \in 1..Len(wire) /\ j \in 1..Len(wire)
    BY <1>2, <2>1 DEF WireFits
  <2>2. CASE i \in 1..Len(wire) /\ j = Len(wire) + 1
    BY <1>2, <1>4, <2>2
  <2>3. CASE i = Len(wire) + 1 /\ j \in 1..Len(wire)
    BY <1>2, <1>4, <2>3
  <2> QED
    BY <1>3, <2>1, <2>2, <2>3
<1> QED
  BY <1>2, <1>5, <1>6 DEF WireFits

\* Who is listed as before, of whom the same is known, is shown as before.
LEMMA ListStays ==
    ASSUME PresenceInv, UNCHANGED <<present, saved, list, status>>, mixed \subseteq mixed',
           \A t \in Tabs : Listing(t)' <=> Listing(t)
    PROVE  StatusFits' /\ ListFits'
BY DEF PresenceInv, StatusFits, ListFits, Online, TabsOf, PresenceTypeOK

LEMMA ConnectKeeps ==
    ASSUME PresenceInv, NEW t \in Tabs, Connect(t) \/ ProfileRead(t)
    PROVE  PresenceInv'
<1> USE DEF PresenceInv
<1>1. UNCHANGED <<present, saved, status, list, mixed>> /\ t \notin present
  BY DEF Connect, ProfileRead, PresenceTypeOK, SetupFits
<1>2. /\ setup' \in [Tabs -> {"none", "database", "redis", "listing"}]
      /\ setup'[t] \in {"database", "redis"} /\ setup[t] \in {"none", "database"}
      /\ \A s \in Tabs : s # t => setup'[s] = setup[s]
      /\ open' \subseteq Tabs /\ open \subseteq open'
  BY DEF Connect, ProfileRead, PresenceTypeOK
<1>3. wire' \in Seq(Commands) /\ WireFits'
  <2>1. CASE Connect(t)
    <3>1. wire' = wire
      BY <2>1 DEF Connect
    <3>2. \A i \in 1..Len(wire) : wire[i].op = "get" => setup'[wire[i].tab] = "redis"
      <4> SUFFICES ASSUME NEW i \in 1..Len(wire), wire[i].op = "get"
                   PROVE  setup'[wire[i].tab] = "redis"
        OBVIOUS
      <4>1. wire[i] \in Commands
        BY DEF PresenceTypeOK
      <4>2. wire[i].tab \in Tabs
        BY <4>1 DEF Commands
      <4> QED
        BY <1>2, <4>2 DEF WireFits
    <3> QED
      BY <3>1, <3>2 DEF WireFits, PresenceTypeOK
  <2>2. CASE ProfileRead(t)
    <3> DEFINE c == [op |-> "get", tab |-> t]
    <3>1. wire' = Append(wire, c) /\ setup'[t] = "redis" /\ setup[t] = "database"
      BY <2>2 DEF ProfileRead, PresenceTypeOK
    <3>2. c \in Commands /\ c.op = "get" /\ c.tab = t
      BY DEF Commands
    <3>3. \A s \in Tabs : setup[s] = "redis" => setup'[s] = "redis"
      BY <1>2, <3>1
    <3> HIDE DEF c
    <3> QED
      BY <3>1, <3>2, <3>3, Asked1
  <2> QED
    BY <2>1, <2>2
<1>4. PresenceTypeOK'
  BY <1>1, <1>2, <1>3 DEF PresenceTypeOK
<1>5. SetupFits'
  BY <1>1, <1>2 DEF SetupFits, Listing, TabsOf
<1>6. StatusFits' /\ ListFits'
  BY <1>1, <1>2, ListStays DEF Listing
<1> QED
  BY <1>3, <1>4, <1>5, <1>6

LEMMA JoinedKeeps ==
    ASSUME PresenceInv, NEW t \in Tabs, Joined(t) \/ JoinedBlank(t)
    PROVE  PresenceInv'
<1> USE DEF PresenceInv
<1> DEFINE u == AccountOf[t]
<1>1. PICK st \in Values :
        /\ StatusRead(t, st)
        /\ st = saved[u] \/ u \in mixed'
        /\ mixed \subseteq mixed' /\ mixed' \subseteq mixed \cup {u}
        /\ u \in mixed' \/ (t \in open /\ \A s \in TabsOf(u) : ~Listing(s))
  <2>1. u \in People /\ saved[u] \in Values /\ NoStatus \in Values
    BY StatusesDiffer DEF PresenceTypeOK, Values
  <2> QED
    BY <2>1 DEF Joined, JoinedBlank
<1>2. UNCHANGED <<open, saved, list>> /\ u \in People
  BY <1>1, StatusesDiffer DEF StatusRead
<1>3. wire # <<>> /\ Head(wire) = [op |-> "get", tab |-> t] /\ wire' = Tail(wire)
  BY <1>1 DEF StatusRead
<1>4. setup[t] = "redis" /\ t \notin present
  <2>1. 1 \in 1..Len(wire) /\ Head(wire) = wire[1]
    BY <1>3 DEF PresenceTypeOK
  <2> QED
    BY <1>3, <2>1 DEF WireFits, SetupFits
<1>5. /\ setup' \in [Tabs -> {"none", "database", "redis", "listing"}]
      /\ setup'[t] = "listing" /\ \A s \in Tabs : s # t => setup'[s] = setup[s]
  BY <1>1 DEF StatusRead, PresenceTypeOK
<1>6. /\ status' \in [Tabs -> Values]
      /\ status'[t] = st /\ \A s \in Tabs : s # t => status'[s] = status[s]
      /\ present' = present \cup ({t} \cap open)
  BY <1>1 DEF StatusRead, PresenceTypeOK
<1>7. wire' \in Seq(Commands) /\ WireFits'
  <2>1. Head(wire).op = "get" /\ Head(wire).tab = t
    BY <1>3
  <2>2. \A s \in Tabs : setup[s] = "redis" /\ ~(s = t /\ Head(wire).op = "get")
          => setup'[s] = "redis"
    BY <1>5, <2>1
  <2> QED
    BY <1>3, <2>1, <2>2, Answered1
<1>8. PresenceTypeOK'
  BY <1>1, <1>2, <1>5, <1>6, <1>7 DEF PresenceTypeOK
<1>9. SetupFits'
  <2>1. ASSUME NEW s \in Tabs, setup'[s] \in {"database", "redis"} PROVE s \notin present'
    BY <1>5, <1>6, <2>1 DEF SetupFits
  <2>2. ASSUME NEW s \in Tabs, Listing(s)', AccountOf[s] \notin mixed'
        PROVE  /\ s \in present'
               /\ \A q \in TabsOf(AccountOf[s]) : Listing(q)' => q = s
    BY <1>1, <1>5, <1>6, <2>2 DEF SetupFits, Listing, TabsOf
  <2> QED
    BY <2>1, <2>2 DEF SetupFits, TabsOf
<1>10. StatusFits'
  BY <1>1, <1>2, <1>6 DEF StatusFits, PresenceTypeOK
<1>11. ListFits'
  <2>1. ASSUME NEW q \in present', NEW v \in People \ mixed', ~Listing(q)'
        PROVE  /\ ~Online(v)' => list'[q][v] = Offline
               /\ Online(v)' => list'[q][v] \in {Offline, saved'[v]}
               /\ (\E s \in present' \cap TabsOf(v) : ~Listing(s)') => list'[q][v] = saved'[v]
    <3>1. q # t /\ q \in present /\ ~Listing(q) /\ v \in People \ mixed
      BY <1>1, <1>5, <1>6, <2>1 DEF Listing, PresenceTypeOK
    <3>2. Online(v) => Online(v)'
      BY <1>6 DEF Online
    <3>3. (\E s \in present' \cap TabsOf(v) : ~Listing(s)')
            => \E s \in present \cap TabsOf(v) : ~Listing(s)
      BY <1>5, <1>6 DEF Listing, TabsOf
    <3> QED
      BY <1>2, <3>1, <3>2, <3>3 DEF ListFits
  <2> QED
    BY <2>1 DEF ListFits, TabsOf
<1> QED
  BY <1>7, <1>8, <1>9, <1>10, <1>11

LEMMA ListedKeeps ==
    ASSUME PresenceInv, NEW t \in Tabs, Listed(t)
    PROVE  PresenceInv'
<1> USE DEF PresenceInv
<1> DEFINE u == AccountOf[t]
           others == present \ {t}
           first == others \cap TabsOf(u) = {}
           told == IF first THEN TellOnline(others, u, status[t]) ELSE list
<1>1. Listing(t) /\ UNCHANGED <<open, present, wire, saved, mixed>> /\ u \in People
  BY StatusesDiffer DEF Listed
<1>2. PICK all \in [People -> Values \cup {Offline}] :
        /\ \A v \in People :
             IF Online(v) THEN \E s \in present \cap TabsOf(v) : all[v] = status[s]
                          ELSE all[v] = Offline
        /\ list' = IF t \in open THEN [told EXCEPT ![t] = all] ELSE told
  BY DEF Listed
<1>3. /\ setup' \in [Tabs -> {"none", "database", "redis", "listing"}]
      /\ setup'[t] = "none" /\ \A s \in Tabs : s # t => setup'[s] = setup[s]
      /\ status' \in [Tabs -> Values]
      /\ \A s \in open : status'[s] = status[s]
  BY StatusesDiffer DEF Listed, PresenceTypeOK, Values
<1>4. /\ told \in [Tabs -> [People -> Values \cup {Offline}]]
      /\ \A q \in Tabs, v \in People : v # u => told[q][v] = list[q][v]
      /\ \A q \in Tabs : told[q][u] =
           IF first /\ q \in others /\ list[q][u] = Offline THEN status[t] ELSE list[q][u]
  BY <1>1 DEF TellOnline, PresenceTypeOK
<1> HIDE DEF told
<1>5. /\ list' \in [Tabs -> [People -> Values \cup {Offline}]]
      /\ \A q \in Tabs : q # t => list'[q] = told[q]
      /\ t \in open => list'[t] = all
  BY <1>2, <1>4
<1>6. WireFits'
  <2>1. ASSUME NEW i \in 1..Len(wire), wire[i].op = "get"
        PROVE  setup'[wire[i].tab] = "redis"
    <3>1. wire[i] \in Commands
      BY DEF PresenceTypeOK
    <3>2. wire[i].tab \in Tabs /\ setup[wire[i].tab] = "redis"
      BY <2>1, <3>1 DEF Commands, WireFits
    <3> QED
      BY <1>1, <1>3, <3>2 DEF Listing
  <2> QED
    BY <1>1, <2>1 DEF WireFits
<1>7. PresenceTypeOK'
  BY <1>1, <1>3, <1>5 DEF PresenceTypeOK
<1>8. SetupFits'
  BY <1>1, <1>3 DEF SetupFits, Listing, TabsOf
<1>9. StatusFits'
  BY <1>1, <1>3 DEF StatusFits, PresenceTypeOK
<1>10. ListFits'
  <2>1. ASSUME NEW q \in present, NEW v \in People \ mixed, ~Listing(q)'
        PROVE  /\ ~Online(v) => list'[q][v] = Offline
               /\ Online(v) => list'[q][v] = saved[v] \/ list'[q][v] = Offline
               /\ (\E s \in present \cap TabsOf(v) : ~Listing(s)') => list'[q][v] = saved[v]
    <3>1. CASE q = t
      <4>1. list'[q] = all
        BY <1>5, <3>1 DEF PresenceTypeOK
      <4>2. Online(v) => all[v] = saved[v]
        BY <1>2 DEF StatusFits, TabsOf
      <4>3. ~Online(v) => all[v] = Offline
        BY <1>2
      <4>4. (\E s \in present \cap TabsOf(v) : ~Listing(s)') => Online(v)
        BY DEF Online
      <4> QED
        BY <4>1, <4>2, <4>3, <4>4
    <3>2. CASE q # t /\ v # u
      <4>1. ~Listing(q) /\ q \in Tabs
        BY <1>3, <2>1, <3>2 DEF Listing, PresenceTypeOK
      <4>2. list'[q][v] = list[q][v]
        BY <1>4, <1>5, <3>2, <4>1
      <4>3. (\E s \in present \cap TabsOf(v) : ~Listing(s)')
              => \E s \in present \cap TabsOf(v) : ~Listing(s)
        BY <1>3, <3>2 DEF Listing, TabsOf
      <4> QED
        BY <4>1, <4>2, <4>3 DEF ListFits
    <3>3. CASE q # t /\ v = u
      <4>1. ~Listing(q) /\ q \in Tabs /\ q \in others
        BY <1>3, <2>1, <3>3 DEF Listing, PresenceTypeOK
      <4>2. t \in present /\ \A s \in TabsOf(u) : Listing(s) => s = t
        BY <1>1, <3>3 DEF SetupFits
      <4>3. Online(u) /\ status[t] = saved[u]
        BY <3>3, <4>2 DEF Online, TabsOf, StatusFits
      <4>4. CASE first
        BY <1>4, <1>5, <3>3, <4>1, <4>3, <4>4 DEF ListFits
      <4>5. CASE ~first
        <5>1. \E s \in present \cap TabsOf(u) : ~Listing(s)
          BY <4>2, <4>5
        <5>2. list[q][u] = saved[u]
          BY <3>3, <4>1, <5>1 DEF ListFits
        <5> QED
          BY <1>4, <1>5, <3>3, <4>1, <4>3, <4>5, <5>2
      <4> QED
        BY <4>4, <4>5
    <3> QED
      BY <3>1, <3>2, <3>3
  <2> QED
    BY <1>1, <2>1 DEF ListFits, Online
<1> QED
  BY <1>6, <1>7, <1>8, <1>9, <1>10

LEMMA GoneKeeps ==
    ASSUME PresenceInv, NEW t \in Tabs, t \in open => Gone(t), EventLoopFree,
           t \notin open => UNCHANGED <<open, present, status, list>>,
           \A s \in Tabs : setup'[s] = setup[s] \/ (s = t /\ setup[t] = "database" /\ setup'[t] = "none"),
           setup' \in [Tabs -> {"none", "database", "redis", "listing"}],
           UNCHANGED <<wire, saved, mixed>>
    PROVE  PresenceInv'
<1> USE DEF PresenceInv
<1> DEFINE u == AccountOf[t]
           left == present \ {t}
           empty == left \cap TabsOf(u) = {}
           told == IF empty THEN TellOffline(left, u) ELSE list
<1>1. u \in People /\ \A s \in Tabs : ~Listing(s) /\ ~Listing(s)'
  BY StatusesDiffer DEF EventLoopFree, Listing
<1>2. open' \subseteq Tabs /\ present' \subseteq open' /\ present' = left
  BY DEF Gone, PresenceTypeOK
<1>3. status' \in [Tabs -> Values] /\ \A s \in left : status'[s] = status[s]
  BY StatusesDiffer DEF Gone, PresenceTypeOK, Values
<1>4. /\ told \in [Tabs -> [People -> Values \cup {Offline}]]
      /\ \A q \in Tabs, v \in People : v # u => told[q][v] = list[q][v]
      /\ \A q \in Tabs : told[q][u] =
           IF empty /\ q \in left THEN Offline ELSE list[q][u]
  BY <1>1 DEF TellOffline, PresenceTypeOK
<1> HIDE DEF told
<1>5. /\ list' \in [Tabs -> [People -> Values \cup {Offline}]]
      /\ t \in open => \A q \in left : list'[q] = told[q]
      /\ t \notin open => list' = list
  <2>1. CASE t \in open
    <3>1. list' = [told EXCEPT ![t] = Nobody]
      BY <2>1 DEF Gone, told
    <3>2. Nobody \in [People -> Values \cup {Offline}]
      BY DEF Nobody
    <3> QED
      BY <1>4, <2>1, <3>1, <3>2 DEF PresenceTypeOK
  <2>2. CASE t \notin open
    BY <2>2 DEF PresenceTypeOK
  <2> QED
    BY <2>1, <2>2
<1>6. WireFits'
  <2>1. ASSUME NEW i \in 1..Len(wire), wire[i].op = "get"
        PROVE  setup'[wire[i].tab] = "redis"
    <3>1. wire[i] \in Commands
      BY DEF PresenceTypeOK
    <3>2. wire[i].tab \in Tabs /\ setup[wire[i].tab] = "redis"
      BY <2>1, <3>1 DEF Commands, WireFits
    <3> QED
      BY <3>2
  <2> QED
    BY <2>1 DEF WireFits
<1>7. PresenceTypeOK'
  BY <1>2, <1>3, <1>5 DEF PresenceTypeOK
<1>8. SetupFits'
  BY <1>1, <1>2 DEF SetupFits, TabsOf
<1>9. StatusFits'
  BY <1>2, <1>3 DEF StatusFits, PresenceTypeOK
<1>10. ListFits'
  <2>1. ASSUME NEW q \in left, NEW v \in People \ mixed
        PROVE  list'[q][v] = IF left \cap TabsOf(v) = {} THEN Offline ELSE saved[v]
    <3>1. q \in Tabs /\ q \in present /\ q # t
      BY DEF PresenceTypeOK
    <3>2. list[q][v] = IF Online(v) THEN saved[v] ELSE Offline
      BY <1>1, <3>1 DEF ListFits, Online, TabsOf
    <3>3. CASE t \notin open
      <4>1. left = present
        BY <3>3 DEF PresenceTypeOK
      <4> QED
        BY <1>5, <3>2, <3>3, <4>1 DEF Online
    <3>4. CASE t \in open /\ v # u
      <4>1. left \cap TabsOf(v) = present \cap TabsOf(v)
        BY <3>4 DEF TabsOf
      <4> QED
        BY <1>4, <1>5, <3>1, <3>2, <3>4, <4>1 DEF Online
    <3>5. CASE t \in open /\ v = u
      BY <1>4, <1>5, <3>1, <3>2, <3>5 DEF Online
    <3> QED
      BY <3>3, <3>4, <3>5
  <2> QED
    BY <1>2, <2>1 DEF ListFits, Online, TabsOf
<1> QED
  BY <1>6, <1>7, <1>8, <1>9, <1>10

LEMMA SetStatusKeeps ==
    ASSUME PresenceInv, NEW t \in Tabs, NEW st \in Values, SetStatus(t, st)
    PROVE  PresenceInv'
<1> USE DEF PresenceInv
<1> DEFINE c == [op |-> "set", tab |-> t, value |-> st]
<1>1. UNCHANGED <<open, setup, present, saved, status, list, mixed>> /\ wire' = Append(wire, c)
  BY DEF SetStatus
<1>2. c \in Commands /\ c.op # "get"
  BY DEF Commands
<1> HIDE DEF c
<1>3. wire' \in Seq(Commands) /\ WireFits'
  BY <1>1, <1>2, Asked1
<1>4. PresenceTypeOK' /\ SetupFits'
  BY <1>1, <1>3 DEF PresenceTypeOK, SetupFits, Listing
<1>5. StatusFits' /\ ListFits'
  BY <1>1, ListStays DEF Listing
<1> QED
  BY <1>3, <1>4, <1>5

LEMMA PublishKeeps ==
    ASSUME PresenceInv, NEW t \in Tabs, NEW st \in Values,
           StatusSaved(t, st) \/ StatusNotSaved(t, st)
    PROVE  PresenceInv'
<1> USE DEF PresenceInv
<1> DEFINE u == AccountOf[t]
<1>1. /\ Publish(t, st) /\ u \in People
      /\ saved' \in [People -> Values]
      /\ \A v \in People : v # u => saved'[v] = saved[v]
      /\ mixed \subseteq mixed' /\ mixed' \subseteq mixed \cup {u}
      /\ u \in mixed' \/ saved'[u] = st
  BY StatusesDiffer DEF StatusSaved, StatusNotSaved, PresenceTypeOK
<1>2. /\ UNCHANGED <<open, setup, present>> /\ wire' = Tail(wire) /\ wire # <<>>
      /\ Head(wire) = [op |-> "set", tab |-> t, value |-> st]
  BY <1>1 DEF Publish
<1>3. /\ status' \in [Tabs -> Values]
      /\ \A s \in present : status'[s] = IF s \in TabsOf(u) THEN st ELSE status[s]
  BY <1>1 DEF Publish, PresenceTypeOK
<1>4. /\ list' \in [Tabs -> [People -> Values \cup {Offline}]]
      /\ \A q \in Tabs, v \in People : v # u => list'[q][v] = list[q][v]
      /\ \A q \in present : list'[q][u] = IF list[q][u] # Offline THEN st ELSE list[q][u]
  BY <1>1 DEF Publish, TellStatus, PresenceTypeOK
<1>5. wire' \in Seq(Commands) /\ WireFits'
  <2>1. Head(wire).op # "get"
    BY <1>2
  <2> QED
    BY <1>2, <2>1, Answered1
<1>6. PresenceTypeOK'
  BY <1>1, <1>2, <1>3, <1>4, <1>5 DEF PresenceTypeOK
<1>7. SetupFits'
  BY <1>1, <1>2 DEF SetupFits, Listing
<1>8. StatusFits'
  <2>1. ASSUME NEW s \in present, AccountOf[s] \notin mixed'
        PROVE  status'[s] = saved'[AccountOf[s]]
    <3>1. s \in Tabs /\ AccountOf[s] \in People /\ AccountOf[s] \notin mixed
      BY <1>1, <2>1, StatusesDiffer DEF PresenceTypeOK
    <3> QED
      BY <1>1, <1>3, <2>1, <3>1 DEF StatusFits, TabsOf
  <2> QED
    BY <1>2, <2>1 DEF StatusFits
<1>9. ListFits'
  <2>1. ASSUME NEW q \in present, NEW v \in People \ mixed', ~Listing(q)
        PROVE  /\ ~Online(v) => list'[q][v] = Offline
               /\ Online(v) => list'[q][v] = saved'[v] \/ list'[q][v] = Offline
               /\ (\E s \in present \cap TabsOf(v) : ~Listing(s)) => list'[q][v] = saved'[v]
    <3>1. /\ ~Online(v) => list[q][v] = Offline
          /\ Online(v) => list[q][v] \in {Offline, saved[v]}
          /\ (\E s \in present \cap TabsOf(v) : ~Listing(s)) => list[q][v] = saved[v]
      BY <1>1, <2>1 DEF ListFits
    <3>2. saved[v] # Offline /\ q \in Tabs
      BY StatusesDiffer DEF PresenceTypeOK
    <3> QED
      BY <1>1, <1>4, <3>1, <3>2
  <2> QED
    BY <1>2, <2>1 DEF ListFits, Listing, Online
<1> QED
  BY <1>5, <1>6, <1>7, <1>8, <1>9

LEMMA ExpiresKeeps ==
    ASSUME PresenceInv, NEW u \in People, StatusExpires(u)
    PROVE  PresenceInv'
<1> USE DEF PresenceInv
<1>1. /\ UNCHANGED <<open, setup, present, wire, status, list>> /\ mixed' = mixed \cup {u}
      /\ saved' \in [People -> Values] /\ \A v \in People : v # u => saved'[v] = saved[v]
  BY DEF StatusExpires, PresenceTypeOK, Values
<1>2. PresenceTypeOK'
  BY <1>1 DEF PresenceTypeOK
<1>3. WireFits' /\ SetupFits'
  BY <1>1 DEF WireFits, SetupFits, Listing
<1>4. StatusFits' /\ ListFits'
  BY <1>1, StatusesDiffer DEF StatusFits, ListFits, Listing, Online, PresenceTypeOK
<1> QED
  BY <1>2, <1>3, <1>4

LEMMA PresenceSteps == PresenceInv /\ [PresenceNext]_presenceVars => PresenceInv'
<1> SUFFICES ASSUME PresenceInv, [PresenceNext]_presenceVars PROVE PresenceInv'
  OBVIOUS
<1>1. ASSUME NEW t \in Tabs, Disconnect(t) \/ Banned(t) PROVE PresenceInv'
  <2>1. /\ EventLoopFree /\ UNCHANGED <<wire, saved, mixed>>
        /\ setup' \in [Tabs -> {"none", "database", "redis", "listing"}]
        /\ \A s \in Tabs : \/ setup'[s] = setup[s]
                           \/ s = t /\ setup[t] = "database" /\ setup'[t] = "none"
        /\ t \in open => Gone(t)
        /\ t \notin open => UNCHANGED <<open, present, status, list>>
    BY <1>1 DEF Disconnect, Banned, PresenceInv, PresenceTypeOK
  <2> QED
    BY <2>1, GoneKeeps
<1>2. ASSUME NEW t \in Tabs,
             \/ Connect(t) \/ ProfileRead(t) \/ Joined(t) \/ JoinedBlank(t) \/ Listed(t)
             \/ \E st \in Values : SetStatus(t, st) \/ StatusSaved(t, st) \/ StatusNotSaved(t, st)
      PROVE  PresenceInv'
  BY <1>2, ConnectKeeps, JoinedKeeps, ListedKeeps, SetStatusKeeps, PublishKeeps
<1>3. ASSUME NEW u \in People, StatusExpires(u) PROVE PresenceInv'
  BY <1>3, ExpiresKeeps
<1>4. CASE UNCHANGED presenceVars
  BY <1>4 DEF presenceVars, PresenceInv, PresenceTypeOK, WireFits, SetupFits, StatusFits,
              ListFits, Listing, Online
<1> QED
  BY <1>1, <1>2, <1>3, <1>4 DEF PresenceNext

LEMMA PresenceAgrees == PresenceInv => PagesAgree
<1> SUFFICES ASSUME PresenceInv,
                    NEW t \in present, ~Listing(t), NEW u \in People \ mixed,
                    \A s \in TabsOf(u) : ~Listing(s)
             PROVE  list[t][u] = IF Online(u) THEN saved[u] ELSE Offline
  BY DEF PagesAgree
<1>1. Online(u) => \E s \in present \cap TabsOf(u) : ~Listing(s)
  BY DEF Online
<1> QED
  BY <1>1 DEF PresenceInv, ListFits

\* A page that only adds up the messages it is sent shows who is online, each
\* with the account's status, whatever opens, closes and changes in whichever
\* order, but for the accounts whose tabs met one of the races that `mixed`
\* records (connection, disconnect and presence:set_status; socket.ts).
THEOREM PagesShowWhoIsOnline == PresenceSpec => []PagesAgree
<1>1. PresenceSpec => []PresenceInv
  BY PresenceStarts, PresenceSteps, PTL DEF PresenceSpec
<1> QED
  BY <1>1, PresenceAgrees, PTL

-----------------------------------------------------------------------------
(* Canvas.  What is saved of a board is told by what is saved or being     *)
(* saved, unless the timer is armed.  While the API's write has not        *)
(* dropped the copy in memory yet, only the table counts.                  *)

Writes(a) == task[a].pc = "write"
Same(b, c) == Compact(b) = Compact(c)

\* What is written to the table holds no deleted element.
TableCompact ==
    /\ Compact(stored) = stored
    /\ \A a \in Actors : Writes(a) => task[a].board \in Boards /\ Compact(task[a].board) = task[a].board
    /\ \A a \in Actors : task[a].pc = "read" => task[a].board \in Boards

ApiWaits ==
    /\ task["api"].pc \in {"idle", "wrote"}
    /\ ~raced /\ Waiting("api") => ~Saving /\ stored = task["api"].board

OneWrites == ~raced => \A a, b \in Actors : Writes(a) /\ Writes(b) => a = b

BoardFollows == ~raced /\ ~Waiting("api") =>
    /\ Cached => Same(cache, accepted)
    /\ ~Cached => ~timer
    /\ ~timer /\ ~Saving => stored = Compact(accepted)
    /\ ~timer => \A a \in Actors : Writes(a) => task[a].board = Compact(accepted)

CanvasInv == CanvasTypeOK /\ TableCompact /\ ApiWaits /\ OneWrites /\ BoardFollows

TaskStates == [pc : {"idle", "asked", "read", "write", "wrote"},
               job : {"none", "join", "op", "clear", "save", "last", "patch"},
               board : Boards \cup {NoBoard}]

LEMMA CanvasStarts == CanvasInit => CanvasInv
<1> SUFFICES ASSUME CanvasInit PROVE CanvasInv
  OBVIOUS
<1>1. Blank \in Boards /\ Compact(Blank) = Blank
  <2>1. Absent \in Versions
    BY CanvasAssumption DEF Absent, Versions
  <2> QED
    BY <2>1 DEF Blank, Boards, Compact, Absent
<1>2. CanvasTypeOK
  BY <1>1 DEF CanvasInit, CanvasTypeOK, NoTask
<1>3. TableCompact /\ ApiWaits /\ OneWrites /\ BoardFollows
  BY <1>1 DEF CanvasInit, TableCompact, ApiWaits, OneWrites, BoardFollows, Writes, Waiting,
              Saving, Cached, NoTask, Actors
<1> QED
  BY <1>2, <1>3 DEF CanvasInv

-----------------------------------------------------------------------------
(* Boards that differ in deleted elements only stay so.                    *)

LEMMA Compacts ==
    ASSUME NEW b \in Boards
    PROVE  /\ Compact(b) \in Boards /\ Compact(Compact(b)) = Compact(b)
<1>1. Absent \in Versions /\ ~Absent.dead
  BY CanvasAssumption DEF Absent, Versions
<1> QED
  BY <1>1 DEF Compact, Boards

LEMMA Puts ==
    ASSUME NEW b \in Boards, NEW c \in Boards, NEW op \in Ops, Same(b, c)
    PROVE  /\ Put(b, op) \in Boards /\ Put(c, op) \in Boards /\ Put(b, op) # NoBoard
           /\ Same(Put(b, op), Put(c, op))
<1>1. op.el \in Elements /\ [ts |-> op.ts, dead |-> op.dead] \in Versions
  BY CanvasAssumption DEF Ops, Stamps, Versions
<1>2. Put(b, op) \in Boards /\ Put(c, op) \in Boards
  BY <1>1 DEF Put, Boards
<1>3. Put(b, op) # NoBoard
  BY <1>1 DEF Put, Boards, NoBoard
<1>4. ASSUME NEW e \in Elements PROVE Compact(Put(b, op))[e] = Compact(Put(c, op))[e]
  <2>1. Compact(b)[e] = Compact(c)[e]
    BY DEF Same
  <2> QED
    BY <1>1, <2>1 DEF Put, Boards, Compact
<1>5. Same(Put(b, op), Put(c, op))
  BY <1>4 DEF Same, Compact
<1> QED
  BY <1>2, <1>3, <1>5

LEMMA Clears ==
    ASSUME NEW b \in Boards, NEW c \in Boards, NEW ts \in Stamps, Same(b, c)
    PROVE  /\ Cleared(b, ts) \in Boards /\ Cleared(c, ts) \in Boards
           /\ Same(Cleared(b, ts), Cleared(c, ts))
<1>1. [ts |-> ts, dead |-> TRUE] \in Versions /\ 0 \notin 1 .. ts
  BY CanvasAssumption DEF Stamps, Versions
<1>2. Cleared(b, ts) \in Boards /\ Cleared(c, ts) \in Boards
  BY <1>1 DEF Cleared, Boards
<1>3. ASSUME NEW e \in Elements PROVE Compact(Cleared(b, ts))[e] = Compact(Cleared(c, ts))[e]
  <2>1. Compact(b)[e] = Compact(c)[e]
    BY DEF Same
  <2>2. b[e] \in Versions /\ c[e] \in Versions
    BY DEF Boards
  <2>3. /\ Compact(b)[e] = IF b[e].dead THEN Absent ELSE b[e]
        /\ Compact(c)[e] = IF c[e].dead THEN Absent ELSE c[e]
    BY DEF Compact
  <2>4. /\ Cleared(b, ts)[e] = IF b[e].ts \in 1 .. ts THEN [ts |-> ts, dead |-> TRUE] ELSE b[e]
        /\ Cleared(c, ts)[e] = IF c[e].ts \in 1 .. ts THEN [ts |-> ts, dead |-> TRUE] ELSE c[e]
    BY DEF Cleared
  <2>5. /\ Compact(Cleared(b, ts))[e] =
             IF Cleared(b, ts)[e].dead THEN Absent ELSE Cleared(b, ts)[e]
        /\ Compact(Cleared(c, ts))[e] =
             IF Cleared(c, ts)[e].dead THEN Absent ELSE Cleared(c, ts)[e]
    BY DEF Compact
  <2>6. Absent.ts = 0 /\ Absent.dead = FALSE
    BY DEF Absent
  <2>7. CASE b[e].dead /\ c[e].dead
    BY <2>4, <2>5, <2>7
  <2>8. CASE b[e].dead /\ ~c[e].dead
    <3>1. c[e] = Absent
      BY <2>1, <2>3, <2>8
    <3>2. Cleared(c, ts)[e] = Absent
      BY <1>1, <2>4, <2>6, <3>1
    <3> QED
      BY <2>4, <2>5, <2>6, <2>8, <3>2
  <2>9. CASE ~b[e].dead /\ c[e].dead
    <3>1. b[e] = Absent
      BY <2>1, <2>3, <2>9
    <3>2. Cleared(b, ts)[e] = Absent
      BY <1>1, <2>4, <2>6, <3>1
    <3> QED
      BY <2>4, <2>5, <2>6, <2>9, <3>2
  <2>10. CASE ~b[e].dead /\ ~c[e].dead
    <3>1. b[e] = c[e]
      BY <2>1, <2>3, <2>10
    <3> QED
      BY <2>4, <2>5, <3>1
  <2> QED
    BY <2>7, <2>8, <2>9, <2>10
<1>4. Same(Cleared(b, ts), Cleared(c, ts))
  BY <1>3 DEF Same, Compact
<1> QED
  BY <1>2, <1>4

-----------------------------------------------------------------------------
(* The steps.                                                              *)

LEMMA BoardTypes ==
    ASSUME CanvasTypeOK
    PROVE  /\ stored \in Boards /\ accepted \in Boards
           /\ Cached => cache \in Boards
           /\ timer \in BOOLEAN /\ raced \in BOOLEAN
           /\ task \in [Actors -> TaskStates]
           /\ "api" \in Actors /\ "timer" \in Actors /\ "api" # "timer"
           /\ \A s \in Sockets : s \in Actors /\ s # "api" /\ s # "timer"
BY CanvasAssumption DEF CanvasTypeOK, Cached, TaskStates, Actors

LEMMA TaskMoves ==
    ASSUME CanvasTypeOK, NEW a \in Actors, NEW t \in TaskStates,
           task' = [task EXCEPT ![a] = t]
    PROVE  /\ task' \in [Actors -> TaskStates] /\ task'[a] = t
           /\ \A b \in Actors : b # a => task'[b] = task[b]
<1>1. task \in [Actors -> TaskStates]
  BY BoardTypes
<1> QED
  BY <1>1

\* A save begins, with what is shown at that moment.
LEMMA WriteBegins ==
    ASSUME CanvasInv, NEW a \in Actors, a # "api", NEW map \in Boards,
           NEW job \in {"save", "last"},
           task' = [task EXCEPT ![a] = [pc |-> "write", job |-> job, board |-> Compact(map)]],
           raced' \in BOOLEAN, ~raced' => ~raced /\ ~Saving /\ ~Waiting("api"),
           UNCHANGED stored, accepted' \in Boards, cache' \in Boards,
           ~raced' => Same(cache', accepted') /\ Same(map, accepted'),
           timer' = FALSE, room' \subseteq Sockets
    PROVE  CanvasInv'
<1> USE DEF CanvasInv
<1> DEFINE t == [pc |-> "write", job |-> job, board |-> Compact(map)]
<1>1. /\ Compact(map) \in Boards /\ Compact(Compact(map)) = Compact(map)
      /\ t \in TaskStates /\ t.pc = "write" /\ t.board = Compact(map)
      /\ task' = [task EXCEPT ![a] = t]
  BY Compacts DEF TaskStates
<1> HIDE DEF t
<1>2. /\ task' \in [Actors -> TaskStates] /\ task'[a] = t
      /\ \A b \in Actors : b # a => task'[b] = task[b]
  BY <1>1, TaskMoves
<1>3. stored \in Boards /\ "api" \in Actors
  BY BoardTypes
<1>4. CanvasTypeOK'
  BY <1>2, <1>3 DEF CanvasTypeOK, TaskStates
<1>5. TableCompact'
  BY <1>1, <1>2 DEF TableCompact, Writes
<1>6. ApiWaits'
  BY <1>2, <1>3 DEF ApiWaits, Waiting
<1>7. OneWrites'
  BY <1>2 DEF OneWrites, Writes, Saving
<1>8. BoardFollows'
  BY <1>1, <1>2 DEF BoardFollows, Writes, Saving, Same
<1> QED
  BY <1>4, <1>5, <1>6, <1>7, <1>8

\* A handler that neither saves nor saved moves on; the board stays.
LEMMA OthersWait ==
    ASSUME CanvasInv, NEW a \in Actors, a # "api", NEW t \in TaskStates,
           ~Writes(a), t.pc # "write", t.pc = "read" => t.board \in Boards,
           task' = [task EXCEPT ![a] = t],
           raced' \in BOOLEAN, ~raced' => ~raced,
           UNCHANGED <<stored, cache, timer, accepted>>, room' \subseteq Sockets
    PROVE  CanvasInv'
<1> USE DEF CanvasInv
<1>1. /\ task' \in [Actors -> TaskStates] /\ task'[a] = t
      /\ \A b \in Actors : b # a => task'[b] = task[b]
  BY TaskMoves
<1>2. "api" \in Actors
  BY BoardTypes
<1>3. \A b \in Actors : Writes(b)' <=> Writes(b)
  BY <1>1 DEF Writes
<1>4. CanvasTypeOK'
  BY <1>1 DEF CanvasTypeOK, TaskStates
<1>5. TableCompact'
  BY <1>1, <1>3 DEF TableCompact, Writes
<1>6. Saving' <=> Saving
  BY <1>3 DEF Saving, Writes
<1>7. ApiWaits'
  BY <1>1, <1>2, <1>6 DEF ApiWaits, Waiting
<1>8. OneWrites'
  BY <1>3 DEF OneWrites
<1>9. BoardFollows'
  BY <1>1, <1>2, <1>3, <1>6 DEF BoardFollows, Writes, Waiting, Cached, Same
<1> QED
  BY <1>4, <1>5, <1>7, <1>8, <1>9

\* The board changes in memory, and nothing else does but the task of the
\* handler that had to wait for it.
LEMMA MemoryMoves ==
    ASSUME CanvasInv, NEW a \in Actors, a # "api", ~Writes(a),
           task' = task \/ task' = [task EXCEPT ![a] = NoTask],
           raced' \in BOOLEAN, ~raced' => ~raced,
           UNCHANGED stored, accepted' \in Boards, cache' \in Boards \cup {NoBoard},
           timer' \in BOOLEAN, room' \subseteq Sockets,
           ~raced' /\ ~Waiting("api") =>
             /\ Cached' => Same(cache', accepted')
             /\ timer' => Cached'
             /\ ~timer' => ~timer /\ accepted' = accepted
    PROVE  CanvasInv'
<1> USE DEF CanvasInv
<1>1. NoTask \in TaskStates /\ NoTask.pc = "idle"
  BY DEF NoTask, TaskStates
<1>2. /\ task' \in [Actors -> TaskStates]
      /\ \A b \in Actors : b # a => task'[b] = task[b]
      /\ task'[a] = task[a] \/ task'[a] = NoTask
  <2>1. CASE task' = task
    BY <2>1, BoardTypes
  <2>2. CASE task' = [task EXCEPT ![a] = NoTask]
    BY <1>1, <2>2, TaskMoves
  <2> QED
    BY <2>1, <2>2
<1>3. "api" \in Actors /\ stored \in Boards
  BY BoardTypes
<1>4. \A b \in Actors : /\ Writes(b)' <=> Writes(b)
                        /\ Writes(b) => task'[b] = task[b]
                        /\ task'[b].pc = "read" => task'[b] = task[b]
  BY <1>1, <1>2 DEF Writes
<1>5. CanvasTypeOK'
  BY <1>2, <1>3 DEF CanvasTypeOK, TaskStates
<1>6. TableCompact'
  BY <1>4 DEF TableCompact
<1>7. Saving' <=> Saving
  BY <1>4 DEF Saving, Writes
<1>8. ApiWaits'
  BY <1>2, <1>3, <1>7 DEF ApiWaits, Waiting
<1>9. OneWrites'
  BY <1>4 DEF OneWrites
<1>10. BoardFollows'
  <2> SUFFICES ASSUME ~raced', ~Waiting("api")'
               PROVE  /\ Cached' => Same(cache, accepted)'
                      /\ ~Cached' => ~timer'
                      /\ ~timer' /\ ~Saving' => stored' = Compact(accepted')
                      /\ ~timer' => \A b \in Actors : Writes(b)' => task'[b].board = Compact(accepted')
    BY DEF BoardFollows
  <2>1. ~raced /\ ~Waiting("api")
    BY <1>2, <1>3 DEF Waiting
  <2>2. Cached' => Same(cache, accepted)'
    BY <2>1 DEF Same
  <2>3. ~Cached' => ~timer'
    BY <2>1
  <2>4. ~timer' /\ ~Saving' => stored' = Compact(accepted')
    BY <1>7, <2>1 DEF BoardFollows
  <2>5. ~timer' => \A b \in Actors : Writes(b)' => task'[b].board = Compact(accepted')
    BY <1>4, <2>1 DEF BoardFollows
  <2> QED
    BY <2>2, <2>3, <2>4, <2>5
<1> QED
  BY <1>5, <1>6, <1>8, <1>9, <1>10

LEMMA RoomKeeps ==
    ASSUME CanvasInv, NEW s \in Sockets,
           \/ Join(s) \/ AskToJoin(s) \/ AskToDraw(s) \/ AskToClear(s)
    PROVE  CanvasInv'
<1> USE DEF CanvasInv
<1>1. s \in Actors /\ s # "api" /\ task \in [Actors -> TaskStates] /\ raced \in BOOLEAN
  BY BoardTypes
<1>2. CASE Join(s)
  <2>1. task' = [task EXCEPT ![s] = task[s]] /\ ~Writes(s)
    BY <1>1, <1>2 DEF Join, Waiting, Writes
  <2>2. /\ UNCHANGED <<stored, cache, timer, accepted, raced>> /\ room' \subseteq Sockets
        /\ task[s] \in TaskStates /\ task[s].pc = "idle"
    BY <1>1, <1>2 DEF Join, Waiting, CanvasTypeOK
  <2> QED
    BY <1>1, <2>1, <2>2, OthersWait
<1>3. CASE \E job \in {"join", "op", "clear"} : Ask(s, job)
  <2>1. PICK job \in {"join", "op", "clear"} : Ask(s, job)
    BY <1>3
  <2> DEFINE t == [pc |-> "asked", job |-> job, board |-> NoBoard]
  <2>2. /\ t \in TaskStates /\ t.pc = "asked" /\ ~Writes(s)
        /\ task' = [task EXCEPT ![s] = t]
        /\ UNCHANGED <<stored, cache, timer, accepted, raced>> /\ room' \subseteq Sockets
    BY <2>1 DEF Ask, TaskStates, Waiting, Writes, CanvasTypeOK
  <2> HIDE DEF t
  <2> QED
    BY <1>1, <2>2, OthersWait
<1> QED
  BY <1>2, <1>3 DEF AskToJoin, AskToDraw, AskToClear

LEMMA DrawKeeps ==
    ASSUME CanvasInv, NEW s \in Sockets, NEW op \in Ops, Draw(s, op)
    PROVE  CanvasInv'
<1> USE DEF CanvasInv
<1>1. /\ Cached /\ cache' = Put(cache, op) /\ accepted' = Put(accepted, op) /\ timer' = TRUE
      /\ UNCHANGED <<stored, room, task, raced>>
  BY DEF Draw
<1>2. /\ cache \in Boards /\ accepted \in Boards /\ raced \in BOOLEAN
      /\ "timer" \in Actors /\ "api" \in Actors /\ "timer" # "api"
      /\ \A b \in Actors : task[b] \in TaskStates
  BY <1>1, BoardTypes
<1>3. /\ cache' \in Boards /\ accepted' \in Boards /\ cache' # NoBoard
      /\ Same(cache, accepted) => Same(cache', accepted')
  <2>1. Same(cache, cache) /\ Same(accepted, accepted)
    BY DEF Same
  <2>2. Put(cache, op) \in Boards /\ Put(cache, op) # NoBoard
    BY <1>2, <2>1, Puts
  <2>3. Put(accepted, op) \in Boards
    BY <1>2, <2>1, Puts
  <2>4. Same(cache, accepted) => Same(Put(cache, op), Put(accepted, op))
    BY <1>2, Puts
  <2> QED
    BY <1>1, <2>2, <2>3, <2>4
<1>4. CanvasTypeOK'
  BY <1>1, <1>3 DEF CanvasTypeOK
<1>5. TableCompact' /\ ApiWaits' /\ OneWrites'
  BY <1>1 DEF TableCompact, ApiWaits, OneWrites, Writes, Waiting, Saving
<1>6. BoardFollows'
  BY <1>1, <1>3 DEF BoardFollows, Waiting, Cached, Same
<1> QED
  BY <1>4, <1>5, <1>6

LEMMA SavesKeep ==
    ASSUME CanvasInv, NEW a \in Actors, a # "api", ~Waiting(a),
           NEW job \in {"save", "last"},
           timer' = FALSE, room' \subseteq Sockets,
           UNCHANGED <<stored, cache, accepted>>,
           IF Cached THEN Write(a, job, cache) ELSE UNCHANGED <<task, raced>>
    PROVE  CanvasInv'
<1> USE DEF CanvasInv
<1>1. accepted \in Boards /\ raced \in BOOLEAN /\ (Cached => cache \in Boards)
  BY BoardTypes
<1>2. CASE Cached
  <2>1. /\ task' = [task EXCEPT ![a] = [pc |-> "write", job |-> job, board |-> Compact(cache)]]
        /\ raced' = (raced \/ Saving \/ Waiting("api"))
    BY <1>2 DEF Write
  <2>2. raced' \in BOOLEAN /\ (~raced' => ~raced /\ ~Saving /\ ~Waiting("api"))
    BY <1>1, <2>1 DEF Saving, Waiting
  <2>3. ~raced' => Same(cache', accepted') /\ Same(cache, accepted')
    BY <1>2, <2>2 DEF BoardFollows
  <2>4. cache \in Boards /\ cache' \in Boards /\ accepted' \in Boards /\ UNCHANGED stored
    BY <1>1, <1>2
  <2> QED
    BY <2>1, <2>2, <2>3, <2>4, WriteBegins
<1>3. CASE ~Cached
  <2>1. UNCHANGED <<task, raced>>
    BY <1>3
  <2>2. ~Writes(a) /\ ~Cached'
    BY <1>3 DEF Writes, Waiting, Cached
  <2>3. ~raced' /\ ~Waiting("api") =>
             /\ Cached' => Same(cache', accepted')
             /\ timer' => Cached'
             /\ ~timer' => ~timer /\ accepted' = accepted
    BY <1>3, <2>1, <2>2 DEF BoardFollows
  <2>4. cache' \in Boards \cup {NoBoard} /\ accepted' \in Boards /\ timer' \in BOOLEAN
        /\ UNCHANGED stored
    BY <1>1, <1>3 DEF Cached
  <2> QED
    BY <1>1, <2>1, <2>2, <2>3, <2>4, MemoryMoves
<1> QED
  BY <1>2, <1>3

LEMMA SaveKeeps ==
    ASSUME CanvasInv,
           (\E s \in Sockets : Save(s) \/ Leave(s)) \/ TimerFires
    PROVE  CanvasInv'
<1> USE DEF CanvasInv
<1>1. ASSUME NEW s \in Sockets, Save(s) PROVE CanvasInv'
  <2>1. s \in Actors /\ s # "api" /\ room' \subseteq Sockets
    BY <1>1, BoardTypes DEF Save, CanvasTypeOK
  <2>2. /\ ~Waiting(s) /\ timer' = FALSE /\ UNCHANGED <<stored, cache, accepted>>
        /\ IF Cached THEN Write(s, "save", cache) ELSE UNCHANGED <<task, raced>>
    BY <1>1 DEF Save
  <2> QED
    BY <2>1, <2>2, SavesKeep
<1>2. CASE TimerFires
  <2>1. "timer" \in Actors /\ "timer" # "api" /\ room' \subseteq Sockets
    BY <1>2, BoardTypes DEF TimerFires, CanvasTypeOK
  <2>2. /\ ~Waiting("timer") /\ timer' = FALSE /\ UNCHANGED <<stored, cache, accepted>>
        /\ IF Cached THEN Write("timer", "save", cache) ELSE UNCHANGED <<task, raced>>
    BY <1>2 DEF TimerFires
  <2> QED
    BY <2>1, <2>2, SavesKeep
<1>3. ASSUME NEW s \in Sockets, Leave(s) PROVE CanvasInv'
  <2>1. /\ s \in Actors /\ s # "api" /\ room' \subseteq Sockets
        /\ task \in [Actors -> TaskStates] /\ raced \in BOOLEAN
    BY <1>3, BoardTypes DEF Leave, CanvasTypeOK
  <2>2. ~Waiting(s) /\ UNCHANGED <<stored, cache, accepted>>
    BY <1>3 DEF Leave
  <2>3. CASE room = {s}
    <3>1. timer' = FALSE /\ IF Cached THEN Write(s, "last", cache) ELSE UNCHANGED <<task, raced>>
      BY <1>3, <2>3 DEF Leave
    <3> QED
      BY <2>1, <2>2, <3>1, SavesKeep
  <2>4. CASE room # {s}
    <3>1. UNCHANGED <<timer, task, raced>>
      BY <1>3, <2>4 DEF Leave
    <3>2. /\ task' = [task EXCEPT ![s] = task[s]] /\ task[s] \in TaskStates
          /\ task[s].pc = "idle" /\ ~Writes(s)
      BY <2>1, <2>2, <3>1 DEF Waiting, Writes
    <3> QED
      BY <2>1, <2>2, <3>1, <3>2, OthersWait
  <2> QED
    BY <2>3, <2>4
<1> QED
  BY <1>1, <1>2, <1>3

LEMMA ClearKeeps ==
    ASSUME CanvasInv, NEW s \in Sockets, NEW ts \in Stamps, Clear(s, ts)
    PROVE  CanvasInv'
<1> USE DEF CanvasInv
<1>1. /\ Cached /\ cache' = Cleared(cache, ts) /\ accepted' = Cleared(accepted, ts)
      /\ timer' = FALSE /\ UNCHANGED <<stored, room>>
      /\ task' = [task EXCEPT ![s] =
           [pc |-> "write", job |-> "save", board |-> Compact(Cleared(cache, ts))]]
      /\ raced' = (raced \/ Saving \/ Waiting("api"))
  BY DEF Clear, Write
<1>2. cache \in Boards /\ accepted \in Boards /\ raced \in BOOLEAN /\ s \in Actors /\ s # "api"
  BY <1>1, BoardTypes
<1>3. /\ cache' \in Boards /\ accepted' \in Boards
      /\ Same(cache, accepted) => Same(cache', accepted')
  <2>1. Same(cache, cache) /\ Same(accepted, accepted)
    BY DEF Same
  <2>2. Cleared(cache, ts) \in Boards
    BY <1>2, <2>1, Clears
  <2>3. Cleared(accepted, ts) \in Boards
    BY <1>2, <2>1, Clears
  <2>4. Same(cache, accepted) => Same(Cleared(cache, ts), Cleared(accepted, ts))
    BY <1>2, Clears
  <2> QED
    BY <1>1, <2>2, <2>3, <2>4
<1>4. raced' \in BOOLEAN /\ (~raced' => ~raced /\ ~Saving /\ ~Waiting("api"))
  BY <1>1, <1>2 DEF Saving, Waiting
<1>5. ~raced' => Same(cache', accepted')
  BY <1>1, <1>3, <1>4 DEF BoardFollows
<1>6. room' \subseteq Sockets /\ Cleared(cache, ts) \in Boards /\ UNCHANGED stored
  BY <1>1, <1>3 DEF CanvasTypeOK
<1>7. ~raced' => Same(Cleared(cache, ts), accepted')
  BY <1>1, <1>5
<1> QED
  BY <1>1, <1>2, <1>3, <1>4, <1>5, <1>6, <1>7, WriteBegins

LEMMA SelectedKeeps ==
    ASSUME CanvasInv, NEW a \in Actors, Selected(a)
    PROVE  CanvasInv'
<1> USE DEF CanvasInv
<1> DEFINE t == [[task[a] EXCEPT !.pc = "read"] EXCEPT !.board = stored]
<1>1. task[a].pc = "asked" /\ UNCHANGED <<stored, cache, timer, room, accepted, raced>>
  BY DEF Selected
<1>2. task \in [Actors -> TaskStates] /\ stored \in Boards /\ raced \in BOOLEAN
  BY BoardTypes
<1>3. /\ t \in TaskStates /\ t.pc = "read" /\ t.board = stored
      /\ task' = [task EXCEPT ![a] = t]
  BY <1>2 DEF Selected, TaskStates
<1> HIDE DEF t
<1>4. a # "api" /\ ~Writes(a) /\ room' \subseteq Sockets
  BY <1>1 DEF ApiWaits, Writes, CanvasTypeOK
<1> QED
  BY <1>1, <1>2, <1>3, <1>4, OthersWait

\* What was read is what is shown, when nothing raced with the reading.
LEMMA ReadFitsBoard ==
    ASSUME CanvasInv, NEW s \in Sockets, NEW job, Loaded(s, job)
    PROVE  /\ s \in Actors /\ s # "api" /\ task[s].board \in Boards /\ ~Writes(s)
           /\ raced' \in BOOLEAN /\ accepted \in Boards
           /\ ~raced' => /\ ~raced /\ ~Saving /\ ~Waiting("api") /\ ~Cached /\ ~timer
                         /\ Same(task[s].board, accepted)
<1> USE DEF CanvasInv
<1>1. s \in Actors /\ s # "api" /\ raced \in BOOLEAN /\ stored \in Boards /\ accepted \in Boards
  BY BoardTypes
<1>2. /\ task[s].pc = "read"
      /\ raced' = (raced \/ Cached \/ Saving \/ Waiting("api") \/ stored # task[s].board)
  BY DEF Loaded
<1>3. raced' \in BOOLEAN
  BY <1>1, <1>2 DEF Cached, Saving, Waiting
<1>4. task[s].board \in Boards /\ ~Writes(s)
  BY <1>1, <1>2 DEF TableCompact, Writes
<1>5. ASSUME ~raced'
      PROVE  /\ ~raced /\ ~Saving /\ ~Waiting("api") /\ ~Cached /\ ~timer
             /\ Same(task[s].board, accepted)
  <2>1. ~raced /\ ~Saving /\ ~Waiting("api") /\ ~Cached /\ stored = task[s].board
    BY <1>2, <1>5
  <2>2. ~timer /\ stored = Compact(accepted)
    BY <2>1 DEF BoardFollows
  <2> QED
    BY <2>1, <2>2 DEF TableCompact, Same
<1> QED
  BY <1>1, <1>3, <1>4, <1>5

LEMMA LoadedKeeps ==
    ASSUME CanvasInv, NEW s \in Sockets,
           \/ LoadedToJoin(s)
           \/ \E op \in Ops : LoadedToDraw(s, op)
           \/ \E ts \in Stamps : LoadedToClear(s, ts)
    PROVE  CanvasInv'
<1> USE DEF CanvasInv
<1> DEFINE read == task[s].board
<1>1. CASE LoadedToJoin(s)
  <2>1. Loaded(s, "join")
    BY <1>1 DEF LoadedToJoin
  <2>2. /\ s \in Actors /\ s # "api" /\ read \in Boards /\ ~Writes(s)
        /\ raced' \in BOOLEAN /\ accepted \in Boards
        /\ ~raced' => ~raced /\ ~Waiting("api") /\ ~timer /\ Same(read, accepted)
    BY <2>1, ReadFitsBoard
  <2>3. /\ cache' = read /\ task' = [task EXCEPT ![s] = NoTask]
        /\ UNCHANGED <<stored, timer, accepted>> /\ room' \subseteq Sockets
    BY <1>1 DEF LoadedToJoin, CanvasTypeOK
  <2>4. timer' \in BOOLEAN
    BY <2>3, BoardTypes
  <2> QED
    BY <2>2, <2>3, <2>4, MemoryMoves
<1>2. ASSUME NEW op \in Ops, LoadedToDraw(s, op) PROVE CanvasInv'
  <2>1. Loaded(s, "op")
    BY <1>2 DEF LoadedToDraw
  <2>2. /\ s \in Actors /\ s # "api" /\ read \in Boards /\ ~Writes(s)
        /\ raced' \in BOOLEAN /\ accepted \in Boards
        /\ ~raced' => ~raced /\ ~Waiting("api") /\ ~timer /\ Same(read, accepted)
    BY <2>1, ReadFitsBoard
  <2>3. /\ task' = [task EXCEPT ![s] = NoTask] /\ UNCHANGED stored /\ room' \subseteq Sockets
    BY <1>2 DEF LoadedToDraw, CanvasTypeOK
  <2>4. CASE Wins(read, op)
    <3>1. cache' = Put(read, op) /\ accepted' = Put(accepted, op) /\ timer' = TRUE
      BY <1>2, <2>4 DEF LoadedToDraw
    <3>2. Same(read, read) /\ Same(accepted, accepted)
      BY DEF Same
    <3>3. Put(read, op) \in Boards /\ Put(read, op) # NoBoard
      BY <2>2, <3>2, Puts
    <3>4. Put(accepted, op) \in Boards
      BY <2>2, <3>2, Puts
    <3>5. Same(read, accepted) => Same(Put(read, op), Put(accepted, op))
      BY <2>2, Puts
    <3>6. ~raced' /\ ~Waiting("api") =>
             /\ Cached' => Same(cache', accepted')
             /\ timer' => Cached'
             /\ ~timer' => ~timer /\ accepted' = accepted
      BY <2>2, <3>1, <3>3, <3>5 DEF Cached
    <3>7. /\ accepted' \in Boards /\ cache' \in Boards \cup {NoBoard} /\ timer' \in BOOLEAN
          /\ ~raced' => ~raced
      BY <2>2, <3>1, <3>3, <3>4
    <3> QED
      BY <2>2, <2>3, <3>6, <3>7, MemoryMoves
  <2>5. CASE ~Wins(read, op)
    <3>1. cache' = read /\ UNCHANGED <<accepted, timer>>
      BY <1>2, <2>5 DEF LoadedToDraw
    <3>2. timer' \in BOOLEAN
      BY <3>1, BoardTypes
    <3> QED
      BY <2>2, <2>3, <3>1, <3>2, MemoryMoves
  <2> QED
    BY <2>4, <2>5
<1>3. ASSUME NEW ts \in Stamps, LoadedToClear(s, ts) PROVE CanvasInv'
  <2>1. Loaded(s, "clear")
    BY <1>3 DEF LoadedToClear
  <2>2. /\ s \in Actors /\ s # "api" /\ read \in Boards
        /\ raced' \in BOOLEAN /\ accepted \in Boards
        /\ ~raced' => ~raced /\ ~Saving /\ ~Waiting("api") /\ Same(read, accepted)
    BY <2>1, ReadFitsBoard
  <2>3. /\ cache' = Cleared(read, ts) /\ accepted' = Cleared(accepted, ts)
        /\ timer' = FALSE /\ UNCHANGED stored /\ room' \subseteq Sockets
        /\ task' = [task EXCEPT ![s] =
             [pc |-> "write", job |-> "save", board |-> Compact(Cleared(read, ts))]]
    BY <1>3 DEF LoadedToClear, CanvasTypeOK
  <2>4. Same(read, read) /\ Same(accepted, accepted)
    BY DEF Same
  <2>5. Cleared(read, ts) \in Boards
    BY <2>2, <2>4, Clears
  <2>6. Cleared(accepted, ts) \in Boards
    BY <2>2, <2>4, Clears
  <2>7. Same(read, accepted) => Same(Cleared(read, ts), Cleared(accepted, ts))
    BY <2>2, Clears
  <2>8. ~raced' => Same(cache', accepted') /\ Same(Cleared(read, ts), accepted')
    BY <2>2, <2>3, <2>7
  <2> QED
    BY <2>2, <2>3, <2>5, <2>6, <2>8, WriteBegins
<1> QED
  BY <1>1, <1>2, <1>3

LEMMA WrittenKeeps ==
    ASSUME CanvasInv, NEW a \in Actors, Written(a) \/ WriteFails(a)
    PROVE  CanvasInv'
<1> USE DEF CanvasInv
<1> DEFINE t == IF task[a].job = "last" THEN [task[a] EXCEPT !.pc = "wrote"] ELSE NoTask
<1>1. task[a].pc = "write" /\ UNCHANGED <<cache, timer, room, accepted>>
  BY DEF Written, WriteFails
<1>2. /\ task \in [Actors -> TaskStates] /\ stored \in Boards /\ raced \in BOOLEAN
      /\ "api" \in Actors /\ task[a].board \in Boards /\ Compact(task[a].board) = task[a].board
  BY <1>1, BoardTypes DEF TableCompact, Writes
<1>3. /\ t \in TaskStates /\ t.pc \in {"wrote", "idle"} /\ task' = [task EXCEPT ![a] = t]
  <2>1. CASE task[a].job = "last"
    BY <1>2, <2>1 DEF Written, WriteFails, SaveAnswered, TaskStates
  <2>2. CASE task[a].job # "last"
    BY <1>2, <2>2 DEF Written, WriteFails, SaveAnswered, TaskStates, NoTask
  <2> QED
    BY <2>1, <2>2
<1> HIDE DEF t
<1>4. /\ task' \in [Actors -> TaskStates] /\ task'[a] = t
      /\ \A b \in Actors : b # a => task'[b] = task[b]
  BY <1>3, TaskMoves
<1>5. a # "api" /\ Writes(a) /\ Saving
  BY <1>1 DEF ApiWaits, Writes, Saving
<1>6. /\ stored' \in {stored, task[a].board} /\ raced' \in BOOLEAN
      /\ ~raced' => ~raced /\ stored' = task[a].board
  BY <1>2 DEF Written, WriteFails
<1>7. CanvasTypeOK'
  BY <1>1, <1>2, <1>4, <1>6 DEF CanvasTypeOK, TaskStates
<1>8. \A b \in Actors : Writes(b)' => Writes(b) /\ b # a /\ task'[b] = task[b]
  BY <1>3, <1>4 DEF Writes
<1>9. TableCompact'
  BY <1>2, <1>3, <1>4, <1>6, <1>8 DEF TableCompact
<1>10. ApiWaits'
  BY <1>2, <1>4, <1>5, <1>6 DEF ApiWaits, Waiting
<1>11. OneWrites'
  BY <1>6, <1>8 DEF OneWrites
<1>12. BoardFollows'
  <2> SUFFICES ASSUME ~raced'
               PROVE  /\ Cached' => Same(cache, accepted)'
                      /\ ~Cached' => ~timer'
                      /\ ~timer' /\ ~Saving' => stored' = Compact(accepted')
                      /\ ~timer' => \A b \in Actors : Writes(b)' => task'[b].board = Compact(accepted')
    BY DEF BoardFollows
  <2>1. ~raced /\ stored' = task[a].board
    BY <1>6
  <2>2. ~Waiting("api")
    BY <1>5, <2>1 DEF ApiWaits
  <2>3. Cached' => Same(cache, accepted)'
    BY <1>1, <2>1, <2>2 DEF BoardFollows, Same, Cached
  <2>4. ~Cached' => ~timer'
    BY <1>1, <2>1, <2>2 DEF BoardFollows, Cached
  <2>5. ~timer' => stored' = Compact(accepted')
    BY <1>1, <1>5, <2>1, <2>2 DEF BoardFollows
  <2>6. ~timer' => \A b \in Actors : Writes(b)' => task'[b].board = Compact(accepted')
    BY <1>1, <1>8, <2>1, <2>2 DEF BoardFollows
  <2> QED
    BY <2>3, <2>4, <2>5, <2>6
<1> QED
  BY <1>7, <1>9, <1>10, <1>11, <1>12

LEMMA SaveEndsKeeps ==
    ASSUME CanvasInv, NEW a \in Actors, SaveEnds(a)
    PROVE  CanvasInv'
<1> USE DEF CanvasInv
<1>1. /\ task[a].pc = "wrote" /\ a # "api" /\ UNCHANGED <<stored, timer, room, accepted>>
      /\ task' = [task EXCEPT ![a] = NoTask]
  BY DEF SaveEnds
<1>2. /\ raced \in BOOLEAN /\ timer \in BOOLEAN /\ accepted \in Boards /\ ~Writes(a)
      /\ (Cached => cache \in Boards)
  BY <1>1, BoardTypes DEF Writes
<1>3. /\ cache' = NoBoard /\ raced' = (raced \/ (Cached /\ timer))
      /\ raced' \in BOOLEAN /\ (~raced' => ~raced) /\ room' \subseteq Sockets
      /\ cache' \in Boards \cup {NoBoard} /\ accepted' \in Boards /\ timer' \in BOOLEAN
  BY <1>1, <1>2 DEF SaveEnds, CanvasTypeOK, Cached
<1>4. ~raced' /\ ~Waiting("api") =>
        /\ Cached' => Same(cache', accepted')
        /\ timer' => Cached'
        /\ ~timer' => ~timer /\ accepted' = accepted
  <2> SUFFICES ASSUME ~raced', ~Waiting("api")
               PROVE  (Cached' => Same(cache', accepted')) /\ (timer' => Cached')
    BY <1>1
  <2>1. /\ Cached => Same(cache, accepted)
        /\ ~Cached => ~timer
    BY <1>3 DEF BoardFollows
  <2> QED
    BY <1>1, <1>3, <2>1 DEF Cached
<1> QED
  BY <1>1, <1>2, <1>3, <1>4, MemoryMoves

LEMMA PatchKeeps ==
    ASSUME CanvasInv, NEW e \in Elements, NEW ts \in 0 .. MaxTs,
           Patch([Blank EXCEPT ![e] = [ts |-> ts, dead |-> FALSE]])
    PROVE  CanvasInv'
<1> USE DEF CanvasInv
<1> DEFINE board == [Blank EXCEPT ![e] = [ts |-> ts, dead |-> FALSE]]
           t == [pc |-> "wrote", job |-> "patch", board |-> board]
<1>1. board \in Boards /\ Compact(board) = board
  <2>1. Absent \in Versions /\ [ts |-> ts, dead |-> FALSE] \in Versions
    BY CanvasAssumption DEF Absent, Versions
  <2> QED
    BY <2>1 DEF Blank, Boards, Compact, Absent
<1> HIDE DEF board
<1>2. /\ stored' = board /\ accepted' = board /\ task' = [task EXCEPT !["api"] = t]
      /\ UNCHANGED <<cache, timer, room>> /\ raced' = (raced \/ Saving)
  BY DEF Patch, board
<1>3. t \in TaskStates /\ t.pc = "wrote" /\ t.board = board
  BY <1>1 DEF TaskStates
<1>4. "api" \in Actors /\ raced \in BOOLEAN
  BY BoardTypes
<1> HIDE DEF t
<1>5. /\ task' \in [Actors -> TaskStates] /\ task'["api"] = t
      /\ \A b \in Actors : b # "api" => task'[b] = task[b]
  BY <1>2, <1>3, <1>4, TaskMoves
<1>6. CanvasTypeOK'
  BY <1>1, <1>2, <1>4, <1>5 DEF CanvasTypeOK, TaskStates, Saving
<1>7. \A b \in Actors : Writes(b)' => Writes(b) /\ task'[b] = task[b]
  BY <1>3, <1>5 DEF Writes
<1>8. TableCompact'
  BY <1>1, <1>2, <1>3, <1>5, <1>7 DEF TableCompact
<1>9. ApiWaits'
  BY <1>2, <1>3, <1>5, <1>7 DEF ApiWaits, Saving, Writes
<1>10. OneWrites'
  BY <1>2, <1>7 DEF OneWrites
<1>11. BoardFollows'
  BY <1>3, <1>5 DEF BoardFollows, Waiting
<1> QED
  BY <1>6, <1>8, <1>9, <1>10, <1>11

LEMMA forgetBoardKeeps ==
    ASSUME CanvasInv, forgetBoard \/ CoreRestarts
    PROVE  CanvasInv'
<1> USE DEF CanvasInv
<1>1. /\ raced \in BOOLEAN /\ stored \in Boards /\ accepted \in Boards /\ "api" \in Actors
      /\ NoTask \in TaskStates /\ NoTask.pc = "idle" /\ task \in [Actors -> TaskStates]
  BY BoardTypes DEF NoTask, TaskStates
<1>2. cache' = NoBoard /\ timer' = FALSE /\ UNCHANGED stored /\ room' \subseteq Sockets
      /\ accepted' \in Boards /\ raced' \in BOOLEAN
  BY <1>1 DEF forgetBoard, CoreRestarts, CanvasTypeOK
<1>3. /\ task' \in [Actors -> TaskStates] /\ task'["api"] = NoTask
      /\ \A b \in Actors : task'[b] = NoTask \/ task'[b] = task[b]
  BY <1>1 DEF forgetBoard, CoreRestarts
<1>4. CanvasTypeOK'
  BY <1>1, <1>2, <1>3 DEF CanvasTypeOK, TaskStates
<1>5. \A b \in Actors : Writes(b)' => Writes(b) /\ task'[b] = task[b]
  BY <1>1, <1>3 DEF Writes
<1>6. TableCompact'
  BY <1>1, <1>2, <1>3, <1>5 DEF TableCompact
<1>7. ApiWaits'
  BY <1>1, <1>3 DEF ApiWaits, Waiting
<1>8. ~raced' => stored' = Compact(accepted') /\ \A b \in Actors : ~Writes(b)'
  <2>1. CASE forgetBoard
    <3> SUFFICES ASSUME ~raced' PROVE stored' = Compact(accepted') /\ \A b \in Actors : ~Writes(b)'
      OBVIOUS
    <3>1. ~raced /\ accepted = task["api"].board /\ Waiting("api") /\ accepted' = accepted
      BY <1>1, <2>1 DEF forgetBoard, Waiting
    <3>2. ~Saving /\ stored = accepted
      BY <3>1 DEF ApiWaits
    <3> QED
      BY <1>2, <1>5, <3>1, <3>2 DEF Saving, Writes, TableCompact
  <2>2. CASE CoreRestarts
    <3>1. accepted' = stored /\ task' = [b \in Actors |-> NoTask]
      BY <2>2 DEF CoreRestarts
    <3> QED
      BY <1>1, <1>2, <3>1 DEF Writes, TableCompact
  <2> QED
    BY <2>1, <2>2
<1>9. OneWrites' /\ BoardFollows'
  BY <1>2, <1>8 DEF OneWrites, BoardFollows, Cached
<1> QED
  BY <1>4, <1>6, <1>7, <1>9

LEMMA CanvasSteps == CanvasInv /\ [CanvasNext]_canvasVars => CanvasInv'
<1> SUFFICES ASSUME CanvasInv, [CanvasNext]_canvasVars PROVE CanvasInv'
  OBVIOUS
<1>1. ASSUME NEW s \in Sockets, Handler(s) PROVE CanvasInv'
  BY <1>1, RoomKeeps, SaveKeeps, DrawKeeps, ClearKeeps, LoadedKeeps DEF Handler
<1>2. ASSUME NEW a \in Actors, Database(a) PROVE CanvasInv'
  BY <1>2, SelectedKeeps, WrittenKeeps, SaveEndsKeeps DEF Database
<1>3. CASE UNCHANGED canvasVars
  BY <1>3 DEF canvasVars, CanvasInv, CanvasTypeOK, TableCompact, ApiWaits, OneWrites,
              BoardFollows, Writes, Waiting, Saving, Cached, Same
<1> QED
  BY <1>1, <1>2, <1>3, SaveKeeps, PatchKeeps, forgetBoardKeeps DEF CanvasNext

LEMMA RestIsSaved == CanvasInv => EditsAreKept
<1> SUFFICES ASSUME CanvasInv, AtRest, ~raced PROVE stored = Compact(accepted)
  BY DEF EditsAreKept
<1>1. ~timer /\ ~Waiting("api") /\ ~Saving
  BY BoardTypes DEF CanvasInv, AtRest, Saving, Waiting
<1> QED
  BY <1>1 DEF CanvasInv, BoardFollows

\* When nothing is under way the board in the database is the one the room
\* was shown, whichever handler saved, loaded or dropped the copy in memory,
\* and whatever a restart took, unless a save failed or two handlers met in
\* one of the ways `raced` names (core/socket/canvas.ts, routes/canvas.ts).
THEOREM BoardsAreKept == CanvasSpec => []EditsAreKept
<1>1. CanvasSpec => []CanvasInv
  BY CanvasStarts, CanvasSteps, PTL DEF CanvasSpec
<1> QED
  BY <1>1, RestIsSaved, PTL

-----------------------------------------------------------------------------
(* Signet.  A token is in no more challenges and was polled no more often  *)
(* than there are requests that are over and had signed it.                *)

\* What a request has written down on its way.
Named == \A r \in Requests :
    /\ req[r].pc \in {"stranger", "orphan", "known", "session", "enrolled"} => req[r].dev \in Devices
    /\ req[r].pc \in {"stranger", "orphan", "known", "session"} => req[r].chal \in Challenges
    /\ req[r].pc \in {"orphan", "known", "enrolled"} => req[r].account \in Accounts

SignsFirst == \A r \in Requests : req[r].pc = "session" => signed[r] \in Tokens

Over(t) == {r \in Requests : req[r].pc = "done" /\ signed[r] = t}
TokensBalance == \A t \in Tokens : handed[t] + Cardinality(Holding(t)) <= Cardinality(Over(t))

SignetInv ==
    /\ SignetTypeOK
    /\ Named
    /\ SignsFirst
    /\ TokensBalance
    /\ OneAccountPerDevice

\* The requests there are.
SomeRequest ==
    [pc : {"new", "stranger", "orphan", "known", "session", "enrolled", "done"},
     chal : Challenges \cup {"none"}, dev : Devices \cup {"none"},
     account : Accounts \cup {"none"}, route : {"none", "own", "cross"}]

SomeChallenge ==
    [status : Decided \cup {"none", "pending"},
     dev : Devices \cup {"none"}, aged : BOOLEAN, session : Tokens \cup {NoToken}]

LEMMA NoTokenIsNone == NoToken \notin Tokens
  BY SignetAssumption DEF SignetAssumption, NoToken, Tokens, Accounts

LEMMA SetsAreFinite ==
    ASSUME NEW t
    PROVE  /\ IsFiniteSet(Over(t)) /\ Cardinality(Over(t)) \in Nat
           /\ IsFiniteSet(Signers(t)) /\ Cardinality(Signers(t)) \in Nat
           /\ IsFiniteSet(Holding(t)) /\ Cardinality(Holding(t)) \in Nat
<1>1. Over(t) \in SUBSET Requests /\ Signers(t) \in SUBSET Requests /\ Holding(t) \in SUBSET Challenges
  BY DEF Over, Signers, Holding
<1>2. IsFiniteSet(Requests) /\ IsFiniteSet(Challenges)
  BY SignetAssumption DEF SignetAssumption
<1>3. QED
  BY <1>1, <1>2, FS_Subset, FS_CardinalityType

LEMMA NextSetsAreFinite ==
    ASSUME NEW t
    PROVE  /\ IsFiniteSet(Over(t)') /\ Cardinality(Over(t)') \in Nat
           /\ IsFiniteSet(Holding(t)') /\ Cardinality(Holding(t)') \in Nat
<1>1. Over(t)' \in SUBSET Requests /\ Holding(t)' \in SUBSET Challenges
  BY DEF Over, Holding
<1>2. IsFiniteSet(Requests) /\ IsFiniteSet(Challenges)
  BY SignetAssumption DEF SignetAssumption
<1>3. QED
  BY <1>1, <1>2, FS_Subset, FS_CardinalityType

\* Tokens that stay where they are: no request takes back what it signed.
LEMMA BalanceStays ==
    ASSUME SignetInv, handed' = handed, \A c \in Challenges : chal'[c].session = chal[c].session,
           \A r \in Requests : req[r].pc = "done" => req'[r].pc = "done" /\ signed'[r] = signed[r]
    PROVE  TokensBalance'
<1> SUFFICES ASSUME NEW t \in Tokens
             PROVE  handed[t] + Cardinality(Holding(t)') <= Cardinality(Over(t)')
  BY DEF TokensBalance
<1>1. Holding(t)' = Holding(t)
  BY DEF Holding
<1>2. Over(t) \in SUBSET Over(t)'
  BY DEF Over
<1>3. Cardinality(Over(t)) <= Cardinality(Over(t)')
  BY <1>2, NextSetsAreFinite, FS_Subset
<1>4. handed[t] + Cardinality(Holding(t)) <= Cardinality(Over(t)) /\ handed[t] \in Nat
  BY DEF SignetInv, SignetTypeOK, TokensBalance
<1>5. /\ Cardinality(Holding(t)) \in Nat /\ Cardinality(Over(t)) \in Nat
      /\ Cardinality(Over(t)') \in Nat
  BY SetsAreFinite, NextSetsAreFinite
<1>6. QED
  BY <1>1, <1>3, <1>4, <1>5

LEMMA InitEstablishes == SignetInit => SignetInv
<1> SUFFICES ASSUME SignetInit PROVE SignetInv
  OBVIOUS
<1>1. SignetTypeOK
  <2>1. NewRequest \in SomeRequest
    BY DEF NewRequest, SomeRequest
  <2>2. req \in [Requests -> SomeRequest] /\ crashes \in 0 .. MaxCrashes
    BY <2>1, SignetAssumption DEF SignetInit, SignetAssumption
  <2>3. /\ chal \in [Challenges -> [status : Decided \cup {"none", "pending"},
             dev : Devices \cup {"none"}, aged : BOOLEAN, session : Tokens \cup {NoToken}]]
        /\ owner \in [Devices -> Accounts \cup {"none"}]
        /\ made \in [Devices -> Nat] /\ handed \in [Tokens -> Nat]
        /\ polling \subseteq Challenges /\ removed \subseteq Devices
        /\ signed \in [Requests -> Tokens \cup {NoToken}] /\ posted \subseteq Requests
    BY DEF SignetInit
  <2>4. QED
    BY <2>2, <2>3 DEF SignetTypeOK, SomeRequest
<1>2. Named
  BY DEF SignetInit, Named, NewRequest
<1>3. SignsFirst /\ TokensBalance
  <2>1. SignsFirst
    BY DEF SignetInit, SignsFirst, NewRequest
  <2>2. ASSUME NEW t \in Tokens PROVE handed[t] + Cardinality(Holding(t)) <= Cardinality(Over(t))
    <3>1. handed[t] = 0 /\ Holding(t) = {}
      BY NoTokenIsNone DEF SignetInit, Holding
    <3>2. Cardinality(Holding(t)) = 0 /\ Cardinality(Over(t)) \in Nat
      BY <3>1, FS_EmptySet, SetsAreFinite
    <3>3. QED
      BY <3>1, <3>2
  <2>3. QED
    BY <2>1, <2>2 DEF TokensBalance
<1>4. OneAccountPerDevice
  <2>1. \A d \in Devices : made[d] = 0
    BY DEF SignetInit
  <2>2. 0 <= 1 /\ 0 # 1
    OBVIOUS
  <2>3. QED
    BY <2>1, <2>2, Zenon DEF OneAccountPerDevice
<1>5. QED
  BY <1>1, <1>2, <1>3, <1>4 DEF SignetInv

-----------------------------------------------------------------------------

\* What a request may write down when it moves on.
Proper(q) ==
    /\ q \in SomeRequest
    /\ q.pc \in {"stranger", "known", "enrolled"}
    /\ q.dev \in Devices
    /\ q.pc # "enrolled" => q.chal \in Challenges
    /\ q.pc \in {"known", "enrolled"} => q.account \in Accounts

LEMMA MovingOnKeeps ==
    ASSUME SignetInv, NEW r \in Requests, NEW q, Proper(q),
           req[r].pc # "done", req[r].pc # "orphan", Step(r, q),
           UNCHANGED <<owner, made, chal, polling, signed, handed, posted, removed, crashes>>
    PROVE  SignetInv'
<1>1. req' = [req EXCEPT ![r] = q] /\ req' \in [Requests -> SomeRequest]
  BY DEF Step, Proper, SignetInv, SignetTypeOK, SomeRequest
<1>2. SignetTypeOK' /\ Named'
  BY <1>1 DEF SignetInv, SignetTypeOK, Named, Proper, SomeRequest
<1>3. SignsFirst' /\ TokensBalance'
  <2>1. SignsFirst'
    BY <1>1 DEF SignetInv, SignsFirst, Proper
  <2>2. TokensBalance'
    BY <1>1, BalanceStays DEF SignetInv, SignetTypeOK
  <2>3. QED
    BY <2>1, <2>2
<1>4. OneAccountPerDevice'
  BY <1>1 DEF SignetInv, SignetTypeOK, OneAccountPerDevice, Known
<1>5. QED
  BY <1>2, <1>3, <1>4 DEF SignetInv

\* Steps of a request up to its account.
LEMMA RequestKeeps ==
    ASSUME SignetInv, NEW r \in Requests,
           \/ \E d \in Devices, u \in Users : UseEnrollmentToken(r, d, u)
           \/ \E c \in Challenges, d \in Devices : Approve(r, c, d) \/ ApproveCross(r, c, d)
    PROVE  SignetInv'
<1>1. ASSUME NEW d \in Devices, NEW u \in Users, UseEnrollmentToken(r, d, u)
      PROVE  SignetInv'
  <2> DEFINE q == [pc |-> "enrolled", chal |-> "none", dev |-> d, account |-> u, route |-> "none"]
  <2>1. Proper(q)
    BY DEF Proper, SomeRequest, Accounts
  <2> HIDE DEF q
  <2>2. Step(r, q)
    BY <1>1 DEF UseEnrollmentToken, q
  <2>3. QED
    BY <1>1, <2>1, <2>2, MovingOnKeeps DEF UseEnrollmentToken
<1>2. ASSUME NEW c \in Challenges, NEW d \in Devices, NEW by \in {"own", "cross"}, Known(d),
             Step(r, [pc |-> "known", chal |-> c, dev |-> d, account |-> owner[d], route |-> by]),
             req[r].pc = "new",
             UNCHANGED <<owner, made, chal, polling, signed, handed, posted, removed, crashes>>
      PROVE  SignetInv'
  <2> DEFINE q == [pc |-> "known", chal |-> c, dev |-> d, account |-> owner[d], route |-> by]
  <2>1. Proper(q)
    BY <1>2 DEF Proper, SomeRequest, Known, SignetInv, SignetTypeOK
  <2> HIDE DEF q
  <2>2. Step(r, q)
    BY <1>2 DEF q
  <2>3. QED
    BY <1>2, <2>1, <2>2, MovingOnKeeps
<1>3. ASSUME NEW c \in Challenges, NEW d \in Devices,
             Step(r, [pc |-> "stranger", chal |-> c, dev |-> d, account |-> "none", route |-> "cross"]),
             req[r].pc = "new",
             UNCHANGED <<owner, made, chal, polling, signed, handed, posted, removed, crashes>>
      PROVE  SignetInv'
  <2> DEFINE q == [pc |-> "stranger", chal |-> c, dev |-> d, account |-> "none", route |-> "cross"]
  <2>1. Proper(q)
    BY DEF Proper, SomeRequest
  <2> HIDE DEF q
  <2>2. Step(r, q)
    BY <1>3 DEF q
  <2>3. QED
    BY <1>3, <2>1, <2>2, MovingOnKeeps
<1>4. QED
  BY <1>1, <1>2, <1>3 DEF Approve, ApproveCross

\* The token is signed: it is in no challenge yet.
LEMMA OpenKeeps ==
    ASSUME SignetInv, NEW r \in Requests, NEW s \in Requests, OpenSession(r, s)
    PROVE  SignetInv'
<1>1. /\ req[r].pc = "known" /\ req[r] \in SomeRequest
      /\ req[r].dev \in Devices /\ req[r].chal \in Challenges /\ req[r].account \in Accounts
      /\ req' = [req EXCEPT ![r] = [req[r] EXCEPT !.pc = "session"]]
      /\ signed' = [signed EXCEPT ![r] = <<req[r].account, s>>]
      /\ UNCHANGED <<owner, made, chal, polling, handed, posted, removed, crashes>>
  BY DEF OpenSession, Step, SignetInv, SignetTypeOK, Named, SomeRequest
<1>2. <<req[r].account, s>> \in Tokens
  BY <1>1 DEF Tokens
<1>3. /\ [req[r] EXCEPT !.pc = "session"] \in SomeRequest
      /\ req'[r] = [req[r] EXCEPT !.pc = "session"] /\ \A q \in Requests \ {r} : req'[q] = req[q]
  BY <1>1 DEF SignetInv, SignetTypeOK, SomeRequest
<1>4. req' \in [Requests -> SomeRequest]
  BY <1>1, <1>3 DEF SignetInv, SignetTypeOK, SomeRequest
<1>5. SignetTypeOK'
  BY <1>1, <1>2, <1>4 DEF SignetInv, SignetTypeOK, SomeRequest
<1>6. Named'
  BY <1>1, <1>3 DEF SignetInv, Named
<1>7. SignsFirst'
  BY <1>1, <1>2, <1>3 DEF SignetInv, SignetTypeOK, SignsFirst
<1>8. TokensBalance'
  BY <1>1, <1>3, BalanceStays DEF SignetInv, SignetTypeOK
<1>9. OneAccountPerDevice'
  BY <1>1, <1>3 DEF SignetInv, OneAccountPerDevice, Known
<1>10. QED
  BY <1>5, <1>6, <1>7, <1>8, <1>9 DEF SignetInv

\* A registration ends; a stranger's account, then its device, are made.
LEMMA AccountKeeps ==
    ASSUME SignetInv, NEW r \in Requests,
           RegisterDevice(r) \/ MakeAccount(r) \/ MakeDevice(r)
    PROVE  SignetInv'
<1> USE DEF SignetInv, SignetTypeOK, Named
<1>1. UNCHANGED <<chal, polling, signed, handed, posted, removed, crashes>>
  BY DEF RegisterDevice, MakeAccount, MakeDevice
<1>2. PICK q : /\ req' = [req EXCEPT ![r] = q] /\ req[r].pc # "done"
               /\ q \in [pc : {"orphan", "known", "done"},
                         chal : Challenges \cup {"none"}, dev : Devices \cup {"none"},
                         account : Accounts \cup {"none"}, route : {"none", "own", "cross"}]
               /\ q.pc # "done" =>
                    q.dev \in Devices /\ q.chal \in Challenges /\ q.account \in Accounts
  <2>1. req[r] \in SomeRequest
    BY DEF SomeRequest
  <2>2. ASSUME NEW q \in SomeRequest, Step(r, q), req[r].pc # "done",
               q.pc \in {"orphan", "known", "done"},
               q.pc # "done" =>
                 q.dev \in Devices /\ q.chal \in Challenges /\ q.account \in Accounts
        PROVE  \E x : /\ req' = [req EXCEPT ![r] = x] /\ req[r].pc # "done"
                      /\ x \in [pc : {"orphan", "known", "done"},
                                chal : Challenges \cup {"none"}, dev : Devices \cup {"none"},
                                account : Accounts \cup {"none"}, route : {"none", "own", "cross"}]
                      /\ x.pc # "done" =>
                           x.dev \in Devices /\ x.chal \in Challenges /\ x.account \in Accounts
    BY <2>2 DEF Step, SomeRequest
  <2>3. Done \in SomeRequest /\ Done.pc = "done"
    BY DEF Done, NewRequest, SomeRequest
  <2>4. ASSUME req[r].pc = "stranger"
        PROVE  LET q == [req[r] EXCEPT !.pc = "orphan", !.account = req[r].dev] IN
               /\ q \in SomeRequest /\ q.pc = "orphan"
               /\ q.dev \in Devices /\ q.chal \in Challenges /\ q.account \in Accounts
    BY <2>1, <2>4 DEF SomeRequest, Accounts
  <2>5. ASSUME req[r].pc = "orphan"
        PROVE  LET q == [req[r] EXCEPT !.pc = "known"] IN
               /\ q \in SomeRequest /\ q.pc = "known"
               /\ q.dev \in Devices /\ q.chal \in Challenges /\ q.account \in Accounts
    BY <2>1, <2>5 DEF SomeRequest
  <2>6. CASE RegisterDevice(r)
    BY <2>2, <2>3, <2>6 DEF RegisterDevice
  <2>7. CASE MakeAccount(r)
    BY <2>2, <2>3, <2>4, <2>7 DEF MakeAccount
  <2>8. CASE MakeDevice(r)
    BY <2>2, <2>3, <2>5, <2>8 DEF MakeDevice
  <2>9. QED
    BY <2>6, <2>7, <2>8
<1>3. req' \in [Requests -> [pc : {"new", "stranger", "orphan", "known", "session", "enrolled", "done"},
         chal : Challenges \cup {"none"}, dev : Devices \cup {"none"},
         account : Accounts \cup {"none"}, route : {"none", "own", "cross"}]]
  BY <1>2
<1>4. owner' \in [Devices -> Accounts \cup {"none"}] /\ made' \in [Devices -> Nat]
  BY DEF RegisterDevice, MakeAccount, MakeDevice
<1>5. SignetTypeOK' /\ Named'
  <2>1. Named'
    BY <1>1, <1>2
  <2>2. SignetTypeOK'
    BY <1>1, <1>3, <1>4
  <2>3. QED
    BY <2>1, <2>2
<1>6. SignsFirst' /\ TokensBalance'
  <2>1. SignsFirst'
    BY <1>1, <1>2 DEF SignsFirst
  <2>2. TokensBalance'
    BY <1>1, <1>2, BalanceStays
  <2>3. QED
    BY <2>1, <2>2
<1>7. OneAccountPerDevice'
  <2> USE SignetAssumption DEF OneAccountPerDevice, Known, Step, Done, Accounts, SignetAssumption
  <2>1. CASE RegisterDevice(r)
    BY <1>1, <2>1 DEF RegisterDevice
  <2>2. CASE MakeAccount(r)
    <3>1. req[r].dev \in Devices /\ req[r].pc = "stranger" /\ UNCHANGED owner
      BY <2>2 DEF MakeAccount
    <3>2. CASE made[req[r].dev] = 0
      <4>1. /\ made' = [made EXCEPT ![req[r].dev] = 1]
            /\ req'[r].pc = "orphan" /\ req'[r].dev = req[r].dev
            /\ \A s \in Requests \ {r} : req'[s] = req[s]
        <5>1. made' = [made EXCEPT ![req[r].dev] = made[req[r].dev] + 1]
          BY <2>2, <3>2 DEF MakeAccount
        <5>2. made[req[r].dev] + 1 = 1
          BY <3>2
        <5>3. req' = [req EXCEPT ![r] = [req[r] EXCEPT !.pc = "orphan", !.account = req[r].dev]]
          BY <2>2, <3>2 DEF MakeAccount
        <5>4. made' = [made EXCEPT ![req[r].dev] = 1]
          BY <5>1, <5>2
        <5>5. QED
          BY <3>1, <5>3, <5>4
      <4>2. ASSUME NEW d \in Devices
            PROVE  /\ made'[d] <= 1
                   /\ made'[d] = 1 => \/ Known(d)' \/ d \in removed' \/ crashes' > 0
                                      \/ \E s \in Requests : req'[s].pc = "orphan" /\ req'[s].dev = d
        <5>1. CASE d = req[r].dev
          BY <3>1, <4>1, <5>1
        <5>2. CASE d # req[r].dev
          <6>1. made'[d] = made[d] /\ owner' = owner
            BY <3>1, <4>1, <5>2
          <6>2. \A s \in Requests : req[s].pc = "orphan" /\ req[s].dev = d =>
                  req'[s].pc = "orphan" /\ req'[s].dev = d
            BY <3>1, <4>1
          <6>3. QED
            BY <1>1, <6>1, <6>2
        <5>3. QED
          BY <5>1, <5>2
      <4>3. QED
        BY <4>2
    <3>3. CASE made[req[r].dev] # 0
      BY <1>1, <2>2, <3>1, <3>3 DEF MakeAccount
    <3>4. QED
      BY <3>2, <3>3
  <2>3. CASE MakeDevice(r)
    BY <1>1, <2>3 DEF MakeDevice
  <2>4. QED
    BY <2>1, <2>2, <2>3
<1>8. QED
  BY <1>5, <1>6, <1>7

\* The token is written to the challenge, over what was there.
LEMMA MarkKeeps ==
    ASSUME SignetInv, NEW r \in Requests, MarkApproved(r)
    PROVE  SignetInv'
<1>1. /\ req[r].pc = "session" /\ req[r].chal \in Challenges /\ signed[r] \in Tokens
      /\ req' = [req EXCEPT ![r] = Done]
      /\ chal' = [chal EXCEPT ![req[r].chal].status = "approved", ![req[r].chal].session = signed[r]]
      /\ posted' \subseteq Requests
      /\ UNCHANGED <<owner, made, polling, signed, handed, removed, crashes>>
  BY DEF MarkApproved, Step, SignetInv, SignetTypeOK, Named, SignsFirst
<1>2. /\ req'[r].pc = "done" /\ \A q \in Requests \ {r} : req'[q] = req[q]
      /\ Done \in SomeRequest
  BY <1>1 DEF Done, NewRequest, SomeRequest, SignetInv, SignetTypeOK
<1>3. /\ \A e \in Challenges : chal[e] \in SomeChallenge
      /\ \A x \in SomeChallenge, u \in Tokens :
           [x EXCEPT !.status = "approved", !.session = u] \in SomeChallenge
  BY DEF SomeChallenge, SignetInv, SignetTypeOK, Decided
<1>4. chal' \in [Challenges -> SomeChallenge]
  BY <1>1, <1>3 DEF SignetInv, SignetTypeOK
<1>5. req' \in [Requests -> SomeRequest]
  BY <1>1, <1>2 DEF SignetInv, SignetTypeOK, SomeRequest
<1>6. SignetTypeOK'
  BY <1>1, <1>4, <1>5 DEF SignetInv, SignetTypeOK, SomeChallenge, SomeRequest
<1>7. Named' /\ SignsFirst'
  BY <1>1, <1>2 DEF SignetInv, Named, SignsFirst
<1>8. \A e \in Challenges :
        chal'[e].session = IF e = req[r].chal THEN signed[r] ELSE chal[e].session
  BY <1>1 DEF SignetInv, SignetTypeOK
<1>9. TokensBalance'
  <2> SUFFICES ASSUME NEW t \in Tokens
               PROVE  handed[t] + Cardinality(Holding(t)') <= Cardinality(Over(t)')
    BY <1>1 DEF TokensBalance
  <2>1. handed[t] + Cardinality(Holding(t)) <= Cardinality(Over(t)) /\ handed[t] \in Nat
    BY DEF SignetInv, SignetTypeOK, TokensBalance
  <2>2. /\ IsFiniteSet(Holding(t)) /\ Cardinality(Holding(t)) \in Nat
        /\ IsFiniteSet(Over(t)) /\ Cardinality(Over(t)) \in Nat
        /\ Cardinality(Holding(t)') \in Nat
    BY SetsAreFinite, NextSetsAreFinite
  <2>3. CASE t = signed[r]
    <3>1. Over(t)' = Over(t) \cup {r} /\ r \notin Over(t)
      BY <1>1, <1>2, <2>3 DEF Over
    <3>2. Cardinality(Over(t)') = Cardinality(Over(t)) + 1
      BY <2>2, <3>1, FS_AddElement
    <3>3. Holding(t)' = Holding(t) \cup {req[r].chal}
      BY <1>1, <1>8, <2>3 DEF Holding
    <3>4. Cardinality(Holding(t)') <= Cardinality(Holding(t)) + 1
      <4>1. Cardinality(Holding(t) \cup {req[r].chal})
              = IF req[r].chal \in Holding(t) THEN Cardinality(Holding(t)) ELSE Cardinality(Holding(t)) + 1
        BY <2>2, FS_AddElement
      <4>2. QED
        BY <2>2, <3>3, <4>1
    <3>5. QED
      BY <2>1, <2>2, <3>2, <3>4
  <2>4. CASE t # signed[r]
    <3>1. Over(t)' = Over(t)
      BY <1>1, <1>2, <2>4 DEF Over
    <3>2. Holding(t)' \in SUBSET Holding(t)
      BY <1>8, <2>4 DEF Holding
    <3>3. Cardinality(Holding(t)') <= Cardinality(Holding(t))
      BY <2>2, <3>2, FS_Subset
    <3>4. QED
      BY <2>1, <2>2, <3>1, <3>3
  <2>5. QED
    BY <2>3, <2>4
<1>10. OneAccountPerDevice'
  BY <1>1, <1>2 DEF SignetInv, OneAccountPerDevice, Known
<1>11. QED
  BY <1>6, <1>7, <1>9, <1>10 DEF SignetInv

\* The token is taken from the challenge.
LEMMA PollKeeps ==
    ASSUME SignetInv, NEW c \in Challenges, PollTakes(c)
    PROVE  SignetInv'
<1> DEFINE took == chal[c].session
<1>1. /\ took \in Tokens
      /\ chal' = [chal EXCEPT ![c].session = NoToken]
      /\ handed' = [handed EXCEPT ![took] = handed[took] + 1]
      /\ UNCHANGED <<owner, made, req, polling, signed, posted, removed, crashes>>
  BY DEF PollTakes, SignetInv, SignetTypeOK
<1>2. \A e \in Challenges : chal'[e].session = IF e = c THEN NoToken ELSE chal[e].session
  BY <1>1 DEF SignetInv, SignetTypeOK
<1>3. chal' \in [Challenges -> SomeChallenge]
  <2>1. /\ \A e \in Challenges : chal[e] \in SomeChallenge
        /\ \A x \in SomeChallenge : [x EXCEPT !.session = NoToken] \in SomeChallenge
    BY DEF SomeChallenge, SignetInv, SignetTypeOK
  <2>2. QED
    BY <1>1, <2>1 DEF SignetInv, SignetTypeOK
<1>4. handed' \in [Tokens -> Nat]
  BY <1>1 DEF SignetInv, SignetTypeOK
<1>5. SignetTypeOK'
  BY <1>1, <1>3, <1>4 DEF SignetInv, SignetTypeOK, SomeChallenge
<1>6. Named' /\ SignsFirst'
  BY <1>1 DEF SignetInv, Named, SignsFirst
<1>7. TokensBalance'
  <2> SUFFICES ASSUME NEW t \in Tokens
               PROVE  handed'[t] + Cardinality(Holding(t)') <= Cardinality(Over(t)')
    BY DEF TokensBalance
  <2>1. /\ handed[t] + Cardinality(Holding(t)) <= Cardinality(Over(t)) /\ handed[t] \in Nat
        /\ handed \in [Tokens -> Nat]
    BY DEF SignetInv, SignetTypeOK, TokensBalance
  <2>2. /\ IsFiniteSet(Holding(t)) /\ Cardinality(Holding(t)) \in Nat /\ Cardinality(Over(t)) \in Nat
    BY SetsAreFinite
  <2>3. Over(t)' = Over(t)
    BY <1>1 DEF Over
  <2>4. CASE t = took
    <3>1. Holding(t)' = Holding(t) \ {c} /\ c \in Holding(t)
      BY <1>2, <2>4, NoTokenIsNone DEF Holding
    <3>2. Cardinality(Holding(t)') = Cardinality(Holding(t)) - 1
      BY <2>2, <3>1, FS_RemoveElement
    <3>3. handed'[t] = handed[t] + 1
      BY <1>1, <2>1, <2>4
    <3>4. QED
      BY <2>1, <2>2, <2>3, <3>2, <3>3
  <2>5. CASE t # took
    <3>1. Holding(t)' = Holding(t)
      BY <1>2, <2>5, NoTokenIsNone DEF Holding
    <3>2. handed'[t] = handed[t]
      BY <1>1, <2>1, <2>5
    <3>3. QED
      BY <2>1, <2>3, <3>1, <3>2
  <2>6. QED
    BY <2>4, <2>5
<1>8. OneAccountPerDevice'
  BY <1>1 DEF SignetInv, OneAccountPerDevice, Known
<1>9. QED
  BY <1>5, <1>6, <1>7, <1>8 DEF SignetInv

\* Whatever else happens to challenges changes no session.
LEMMA ChallengesMayMove ==
    ASSUME SignetInv,
           UNCHANGED <<owner, made, req, signed, handed, posted, removed, crashes>>,
           polling' \subseteq Challenges, chal' \in [Challenges -> SomeChallenge],
           \A e \in Challenges : chal'[e].session = chal[e].session
    PROVE  SignetInv'
<1>1. SignetTypeOK' /\ Named'
  BY DEF SignetInv, SignetTypeOK, Named, SomeChallenge
<1>2. SignsFirst' /\ OneAccountPerDevice'
  BY DEF SignetInv, SignsFirst, OneAccountPerDevice, Known
<1>3. TokensBalance'
  BY BalanceStays
<1>4. QED
  BY <1>1, <1>2, <1>3 DEF SignetInv

LEMMA SweepKeeps == ASSUME SignetInv, Sweep PROVE SignetInv'
<1>1. \A c \in Challenges : chal[c] \in SomeChallenge
  BY DEF SignetInv, SignetTypeOK, SomeChallenge
<1>2. /\ chal' \in [Challenges -> SomeChallenge]
      /\ \A c \in Challenges : chal'[c].session = chal[c].session
  BY <1>1 DEF Sweep, SomeChallenge, Decided
<1>3. polling' \subseteq Challenges /\ UNCHANGED <<owner, made, req, signed, handed, posted, removed, crashes>>
  BY DEF Sweep, SignetInv, SignetTypeOK
<1>4. QED
  BY <1>2, <1>3, ChallengesMayMove

\* The other steps of one challenge.
LEMMA ChallengeKeeps ==
    ASSUME SignetInv, NEW c \in Challenges,
           \/ \E d \in Devices \cup {"none"} : CreateChallenge(c, d)
           \/ \E d \in Devices : Reject(c, d)
           \/ ChallengeAges(c) \/ PollAged(c) \/ PollExpires(c)
    PROVE  SignetInv'
<1>1. UNCHANGED <<owner, made, req, signed, handed, posted, removed, crashes>>
  BY DEF CreateChallenge, Reject, ChallengeAges, PollAged, PollExpires
<1>2. polling' \subseteq Challenges
  BY DEF CreateChallenge, Reject, ChallengeAges, PollAged, PollExpires,
         SignetInv, SignetTypeOK
<1>3. /\ chal' \in [Challenges -> SomeChallenge]
      /\ \A e \in Challenges : chal'[e].session = chal[e].session
  <2> USE DEF SignetInv, SignetTypeOK, Decided, SomeChallenge
  <2>1. CASE \E d \in Devices \cup {"none"} : CreateChallenge(c, d)
    <3>1. PICK d \in Devices \cup {"none"} :
            chal' = [chal EXCEPT ![c].status = "pending", ![c].dev = d]
      BY <2>1 DEF CreateChallenge
    <3>2. \A e \in Challenges : chal[e] \in SomeChallenge
      BY DEF SomeChallenge
    <3>3. /\ chal'[c] = [chal[c] EXCEPT !.status = "pending", !.dev = d]
          /\ \A e \in Challenges \ {c} : chal'[e] = chal[e]
      BY <3>1
    <3>4. chal'[c] \in SomeChallenge /\ chal'[c].session = chal[c].session
      BY <3>2, <3>3 DEF SomeChallenge
    <3>5. chal' \in [Challenges -> SomeChallenge]
      BY <3>1, <3>2, <3>3, <3>4
    <3>6. QED
      BY <3>3, <3>4, <3>5 DEF SomeChallenge
  <2>2. CASE UNCHANGED chal
    BY <2>2
  <2>3. CASE \E s \in Decided : Status(c, s)
    <3>1. PICK s \in Decided : chal' = [chal EXCEPT ![c].status = s]
      BY <2>3 DEF Status
    <3>2. \A e \in Challenges : chal[e] \in SomeChallenge
      BY DEF SomeChallenge
    <3>3. /\ chal'[c] = [chal[c] EXCEPT !.status = s]
          /\ \A e \in Challenges \ {c} : chal'[e] = chal[e]
      BY <3>1
    <3>4. chal'[c] \in SomeChallenge /\ chal'[c].session = chal[c].session
      BY <3>2, <3>3 DEF SomeChallenge
    <3>5. chal' \in [Challenges -> SomeChallenge]
      BY <3>1, <3>2, <3>3, <3>4
    <3>6. QED
      BY <3>3, <3>4, <3>5 DEF SomeChallenge
  <2>4. CASE chal' = [chal EXCEPT ![c].aged = TRUE]
    <3>1. \A e \in Challenges : chal[e] \in SomeChallenge
      BY DEF SomeChallenge
    <3>2. /\ chal'[c] = [chal[c] EXCEPT !.aged = TRUE]
          /\ \A e \in Challenges \ {c} : chal'[e] = chal[e]
      BY <2>4
    <3>3. chal'[c] \in SomeChallenge /\ chal'[c].session = chal[c].session
      BY <3>1, <3>2 DEF SomeChallenge
    <3>4. chal' \in [Challenges -> SomeChallenge]
      BY <2>4, <3>1, <3>2, <3>3
    <3>5. QED
      BY <3>2, <3>3, <3>4 DEF SomeChallenge
  <2>5. \/ \E d \in Devices \cup {"none"} : CreateChallenge(c, d)
        \/ UNCHANGED chal
        \/ \E s \in Decided : Status(c, s)
        \/ chal' = [chal EXCEPT ![c].aged = TRUE]
    <3>1. (\E d \in Devices : Reject(c, d)) => \E s \in Decided : Status(c, s)
      BY DEF Reject
    <3>2. PollExpires(c) => \E s \in Decided : Status(c, s)
      BY DEF PollExpires
    <3>3. QED
      BY <3>1, <3>2 DEF ChallengeAges, PollAged
  <2>6. QED
    BY <2>1, <2>2, <2>3, <2>4, <2>5
<1>4. QED
  BY <1>1, <1>2, <1>3, ChallengesMayMove

LEMMA RemovalKeeps ==
    ASSUME SignetInv, NEW d \in Devices, RemoveDevice(d)
    PROVE  SignetInv'
<1>1. /\ owner' = [owner EXCEPT ![d] = "none"]
      /\ removed' = removed \cup {d}
      /\ chal' = [c \in Challenges |->
           IF chal[c].dev = d THEN [chal[c] EXCEPT !.dev = "none"] ELSE chal[c]]
      /\ UNCHANGED <<made, req, polling, signed, handed, posted, crashes>>
  BY DEF RemoveDevice
<1>2. SignetTypeOK' /\ \A c \in Challenges : chal'[c].session = chal[c].session
  BY <1>1 DEF SignetInv, SignetTypeOK
<1>3. Named' /\ SignsFirst' /\ TokensBalance'
  <2>1. Named' /\ SignsFirst'
    BY <1>1 DEF SignetInv, Named, SignsFirst
  <2>2. TokensBalance'
    BY <1>1, <1>2, BalanceStays
  <2>3. QED
    BY <2>1, <2>2
<1>4. OneAccountPerDevice'
  BY <1>1 DEF SignetInv, SignetTypeOK, OneAccountPerDevice, Known
<1>5. QED
  BY <1>2, <1>3, <1>4 DEF SignetInv

LEMMA CrashKeeps == ASSUME SignetInv, SignetCrash PROVE SignetInv'
<1>1. /\ crashes < MaxCrashes /\ crashes' = crashes + 1 /\ polling' = {}
      /\ req' = [r \in Requests |-> IF req[r].pc = "new" THEN NewRequest ELSE Done]
      /\ UNCHANGED <<owner, made, chal, signed, handed, posted, removed>>
  BY DEF SignetCrash
<1>2. crashes' \in 0 .. MaxCrashes /\ crashes' > 0
  BY <1>1, SignetAssumption DEF SignetInv, SignetTypeOK, SignetAssumption
<1>3. SignetTypeOK' /\ Named'
  BY <1>1, <1>2 DEF SignetInv, SignetTypeOK, Named, NewRequest, Done
<1>4. SignsFirst' /\ OneAccountPerDevice'
  BY <1>1, <1>2 DEF SignetInv, SignsFirst, OneAccountPerDevice, Known, NewRequest, Done
<1>5. TokensBalance'
  BY <1>1, BalanceStays DEF NewRequest, Done
<1>6. QED
  BY <1>3, <1>4, <1>5 DEF SignetInv

LEMMA NextPreserves == SignetInv /\ [SignetNext]_signetVars => SignetInv'
<1> SUFFICES ASSUME SignetInv, [SignetNext]_signetVars PROVE SignetInv'
  OBVIOUS
<1>1. CASE UNCHANGED signetVars
  BY <1>1
  DEF signetVars, SignetInv, SignetTypeOK, Named, SignsFirst, TokensBalance, Holding, Over,
      OneAccountPerDevice, Known
<1>2. ASSUME NEW r \in Requests,
             \/ RegisterDevice(r) \/ MakeAccount(r) \/ MakeDevice(r)
             \/ MarkApproved(r) \/ \E s \in Requests : OpenSession(r, s)
             \/ \E d \in Devices, u \in Users : UseEnrollmentToken(r, d, u)
             \/ \E c \in Challenges, d \in Devices : Approve(r, c, d) \/ ApproveCross(r, c, d)
      PROVE  SignetInv'
  <2>1. CASE MarkApproved(r)
    <3>1. req[r].chal \in Challenges
      BY <2>1 DEF MarkApproved, SignetInv, Named
    <3>2. QED
      BY <2>1, <3>1, MarkKeeps
  <2>2. QED
    BY <1>2, <2>1, RequestKeeps, AccountKeeps, OpenKeeps
<1>3. ASSUME NEW c \in Challenges,
             \/ \E d \in Devices \cup {"none"} : CreateChallenge(c, d)
             \/ \E d \in Devices : Reject(c, d)
             \/ ChallengeAges(c) \/ PollAged(c) \/ PollExpires(c) \/ PollTakes(c)
      PROVE  SignetInv'
  <2>1. CASE PollTakes(c)
    BY <2>1, PollKeeps
  <2>2. QED
    BY <1>3, <2>1, ChallengeKeeps
<1>4. ASSUME NEW d \in Devices, RemoveDevice(d) PROVE SignetInv'
  BY <1>4, RemovalKeeps
<1>5. CASE Sweep
  BY <1>5, SweepKeeps
<1>6. CASE SignetCrash
  BY <1>6, CrashKeeps
<1>7. QED
  BY <1>1, <1>2, <1>3, <1>4, <1>5, <1>6 DEF SignetNext

LEMMA Invariance == SignetSpec => []SignetInv
  BY InitEstablishes, NextPreserves, PTL DEF SignetSpec

\* Who writes a device, and who writes a decision.
LEMMA StepLeavesWritten ==
    ASSUME SignetInv, SignetNext
    PROVE  (\A d \in Devices : OwnerStands(d)) /\ (\A c \in Challenges : DecisionStands(c))
<1> USE DEF SignetInv, SignetTypeOK
<1>1. ASSUME NEW d \in Devices PROVE OwnerStands(d)
  <2>1. CASE UNCHANGED owner
    BY <2>1 DEF OwnerStands
  <2>2. CASE \E r \in Requests : RegisterDevice(r) \/ MakeDevice(r)
    BY <2>2 DEF RegisterDevice, MakeDevice, OwnerStands, Known, Named
  <2>3. CASE \E e \in Devices : RemoveDevice(e)
    BY <2>3 DEF RemoveDevice, OwnerStands
  <2>4. QED
    BY <2>1, <2>2, <2>3
    DEF SignetNext, UseEnrollmentToken, Approve, ApproveCross, MakeAccount, OpenSession,
        MarkApproved, CreateChallenge, Reject, ChallengeAges, PollAged, PollExpires, PollTakes,
        Sweep, SignetCrash
<1>2. ASSUME NEW c \in Challenges PROVE DecisionStands(c)
  <2> USE DEF DecisionStands, Decided
  <2>1. CASE UNCHANGED chal
    BY <2>1
  <2>2. CASE \E r \in Requests : MarkApproved(r)
    BY <2>2 DEF MarkApproved, Named
  <2>3. CASE \E e \in Challenges : PollExpires(e)
    BY <2>3 DEF PollExpires, Status
  <2>4. CASE \E e \in Challenges, d \in Devices \cup {"none"} : CreateChallenge(e, d)
    BY <2>4 DEF CreateChallenge
  <2>5. CASE \E e \in Challenges, d \in Devices : Reject(e, d)
    BY <2>5 DEF Reject, Status
  <2>6. CASE \E e \in Challenges : ChallengeAges(e) \/ PollTakes(e)
    <3>1. PICK e \in Challenges : ChallengeAges(e) \/ PollTakes(e)
      BY <2>6
    <3>2. chal' = [chal EXCEPT ![e].aged = TRUE] \/ chal' = [chal EXCEPT ![e].session = NoToken]
      BY <3>1 DEF ChallengeAges, PollTakes
    <3>3. chal'[c].status = chal[c].status
      BY <3>2
    <3>4. QED
      BY <3>3
  <2>7. CASE Sweep
    BY <2>7 DEF Sweep
  <2>8. CASE \E d \in Devices : RemoveDevice(d)
    BY <2>8 DEF RemoveDevice
  <2>9. QED
    BY <2>1, <2>2, <2>3, <2>4, <2>5, <2>6, <2>7, <2>8
    DEF SignetNext, UseEnrollmentToken, RegisterDevice, Approve, ApproveCross, MakeAccount,
        MakeDevice, OpenSession, PollAged, SignetCrash
<1>3. QED
  BY <1>1, <1>2

-----------------------------------------------------------------------------

\* Type correctness of devices, challenges and requests (routes/authenticator.ts).
THEOREM SignetTypeCorrect == SignetSpec => []SignetTypeOK
<1>1. SignetInv => SignetTypeOK
  BY DEF SignetInv
<1>2. QED
  BY <1>1, Invariance, PTL

\* A device gets one account, and a token is polled no more often than approvals
\* signed it, however approvals, polls and crashes interleave.
THEOREM SignInsStayCounted == SignetSpec => []SignInsAreCounted
<1>1. SignetInv => SignInsAreCounted
  <2> SUFFICES ASSUME SignetInv PROVE SignInsAreCounted
    OBVIOUS
  <2>1. ASSUME NEW t \in Tokens
        PROVE  handed[t] + Cardinality(Holding(t)) <= Cardinality(Signers(t))
    <3>1. Over(t) \in SUBSET Signers(t)
      BY DEF Over, Signers
    <3>2. Cardinality(Over(t)) <= Cardinality(Signers(t))
      BY <3>1, SetsAreFinite, FS_Subset
    <3>3. handed[t] + Cardinality(Holding(t)) <= Cardinality(Over(t)) /\ handed[t] \in Nat
      BY DEF SignetInv, SignetTypeOK, TokensBalance
    <3>4. /\ Cardinality(Holding(t)) \in Nat /\ Cardinality(Over(t)) \in Nat
          /\ Cardinality(Signers(t)) \in Nat
      BY SetsAreFinite
    <3>5. QED
      BY <3>2, <3>3, <3>4
  <2>2. QED
    BY <2>1 DEF SignetInv, SignInsAreCounted, TokensAreCounted
<1>2. QED
  BY <1>1, Invariance, PTL

\* A device changes hands only by a removal, and a decision only by a request
\* or a poll that had read the challenge as pending.
THEOREM WrittenStands == SignetSpec => WhatIsWrittenStands
<1>1. SignetInv /\ [SignetNext]_signetVars =>
        [(\A d \in Devices : OwnerStands(d)) /\ (\A c \in Challenges : DecisionStands(c))]_signetVars
  BY StepLeavesWritten
<1>2. QED
  BY <1>1, Invariance, PTL DEF SignetSpec, WhatIsWrittenStands

-----------------------------------------------------------------------------
(* Turn.  A request in flight is counted with the holders for the quota.   *)
(* A relay task ends without its allocation being lost only when the       *)
(* lifetime has passed.  And as long as no two requests of a client have   *)
(* overlapped, the one that is handled is the one it waits for, so that    *)
(* its answer reaches the client.                                          *)

QuotaInv == TurnTypeOK /\ AllocationsBounded

LEMMA InitQuota == TurnInit => QuotaInv
<1> SUFFICES ASSUME TurnInit PROVE QuotaInv
  OBVIOUS
<1>1. TurnTypeOK
  BY DEF TurnInit, TurnTypeOK
<1>2. Holders = {} /\ InFlight = {}
  BY DEF TurnInit, Holders, InFlight
<1>3. Cardinality({}) = 0 /\ Cardinality(Tasks) \in Nat /\ MaxTotal \in Nat \ {0}
  BY TurnAssumption, FS_EmptySet, FS_CardinalityType DEF TurnAssumption
<1>4. QED
  BY <1>1, <1>2, <1>3 DEF QuotaInv, AllocationsBounded

\* Both sets are finite, and no more requests are in flight than there are tasks.
LEMMA Counts ==
    /\ IsFiniteSet(Holders) /\ Cardinality(Holders) \in Nat
    /\ IsFiniteSet(InFlight) /\ Cardinality(InFlight) \in Nat
    /\ Cardinality(InFlight) <= Cardinality(Tasks)
    /\ Cardinality(Tasks) \in Nat /\ MaxTotal \in Nat
<1>1. Holders \in SUBSET Clients /\ InFlight \in SUBSET Tasks
  BY DEF Holders, InFlight
<1>2. IsFiniteSet(Clients) /\ IsFiniteSet(Tasks) /\ MaxTotal \in Nat
  BY TurnAssumption DEF TurnAssumption
<1>3. IsFiniteSet(Holders) /\ IsFiniteSet(InFlight) /\ Cardinality(InFlight) <= Cardinality(Tasks)
  BY <1>1, <1>2, FS_Subset
<1>4. QED
  BY <1>2, <1>3, FS_CardinalityType

\* Fewer holders and fewer requests in flight keep the bound.
LEMMA FewerKeepBound ==
    ASSUME AllocationsBounded, Holders' \subseteq Holders, InFlight' \subseteq InFlight
    PROVE  AllocationsBounded'
<1>1. /\ Cardinality(Holders') \in Nat /\ Cardinality(Holders') <= Cardinality(Holders)
      /\ Cardinality(InFlight') \in Nat /\ Cardinality(InFlight') <= Cardinality(InFlight)
  <2>1. IsFiniteSet(Holders) /\ IsFiniteSet(InFlight)
    BY Counts
  <2>2. Holders' \in SUBSET Holders /\ InFlight' \in SUBSET InFlight
    OBVIOUS
  <2>3. /\ IsFiniteSet(Holders') /\ Cardinality(Holders') <= Cardinality(Holders)
        /\ IsFiniteSet(InFlight') /\ Cardinality(InFlight') <= Cardinality(InFlight)
    BY <2>1, <2>2, FS_Subset
  <2>4. QED
    BY <2>3, FS_CardinalityType
<1>2. QED
  BY <1>1, Counts DEF AllocationsBounded

LEMMA CheckKeepsBound ==
    ASSUME QuotaInv, NEW k \in Tasks, NEW c \in Clients, CheckAllocate(k, c)
    PROVE  QuotaInv'
<1>1. TurnTypeOK'
  BY DEF QuotaInv, TurnTypeOK, CheckAllocate, Lookups
<1>2. Holders' = Holders /\ Cardinality(Holders) < MaxTotal
  BY DEF CheckAllocate, Holders, WithinQuota
<1>3. InFlight' \subseteq Tasks
  BY DEF InFlight
<1>4. Cardinality(InFlight') \in Nat /\ Cardinality(InFlight') <= Cardinality(Tasks)
  <2>1. IsFiniteSet(Tasks)
    BY TurnAssumption DEF TurnAssumption
  <2>2. IsFiniteSet(InFlight') /\ Cardinality(InFlight') <= Cardinality(Tasks)
    BY <1>3, <2>1, FS_Subset
  <2>3. QED
    BY <2>2, FS_CardinalityType
<1>5. AllocationsBounded'
  BY <1>2, <1>4, Counts DEF AllocationsBounded
<1>6. QED
  BY <1>1, <1>5 DEF QuotaInv

LEMMA AllocateKeepsBound ==
    ASSUME QuotaInv, NEW k \in Tasks, NEW a \in Allocs, Allocate(k, a)
    PROVE  QuotaInv'
<1> DEFINE c == checking[k]
<1>1. c \in Clients /\ k \in InFlight
  BY DEF QuotaInv, TurnTypeOK, Allocate, InFlight
<1>2. TurnTypeOK'
  BY <1>1 DEF QuotaInv, TurnTypeOK, Allocate, Answered
<1>3. Holders' \subseteq Holders \cup {c}
  BY <1>1 DEF QuotaInv, TurnTypeOK, Allocate, Holders
<1>4. InFlight' = InFlight \ {k}
  BY <1>1 DEF QuotaInv, TurnTypeOK, Allocate, InFlight
<1>5. /\ IsFiniteSet(Holders \cup {c})
      /\ Cardinality(Holders \cup {c}) <= Cardinality(Holders) + 1
      /\ Cardinality(Holders \cup {c}) \in Nat
  <2>1. IsFiniteSet(Holders) /\ Cardinality(Holders) \in Nat
    BY Counts
  <2>2. /\ IsFiniteSet(Holders \cup {c})
        /\ Cardinality(Holders \cup {c}) =
             IF c \in Holders THEN Cardinality(Holders) ELSE Cardinality(Holders) + 1
    BY <2>1, FS_AddElement
  <2>3. QED
    BY <2>1, <2>2
<1>6. Cardinality(Holders') \in Nat /\ Cardinality(Holders') <= Cardinality(Holders) + 1
  <2>1. IsFiniteSet(Holders') /\ Cardinality(Holders') <= Cardinality(Holders \cup {c})
    BY <1>3, <1>5, FS_Subset
  <2>2. Cardinality(Holders') \in Nat
    BY <2>1, FS_CardinalityType
  <2>3. QED
    BY <1>5, <2>1, <2>2, Counts
<1>7. Cardinality(InFlight') = Cardinality(InFlight) - 1
  <2>1. IsFiniteSet(InFlight)
    BY Counts
  <2>2. QED
    BY <1>1, <1>4, <2>1, FS_RemoveElement
<1>8. AllocationsBounded'
  BY <1>6, <1>7, Counts DEF QuotaInv, AllocationsBounded
<1>9. QED
  BY <1>2, <1>8 DEF QuotaInv

\* The steps that neither check nor make an allocation.
Other ==
    \/ \E c \in Clients : AllocateAgain(c) \/ Delete(c) \/ Refresh(c)
    \/ \E c \in Clients, p \in Peers : CreatePermission(c, p)
    \/ \E c \in Clients, n \in Channels, p \in Peers : ChannelBind(c, n, p)
    \/ \E k \in Tasks : NoPort(k)
    \/ \E a \in Allocs : Lapse(a) \/ PeerPacket(a) \/ RelayFails(a)
    \/ \E a \in Allocs, p \in Peers : PermissionLapses(a, p)
    \/ Evict

LEMMA NextIsOther ==
    ASSUME TurnNext
    PROVE  \/ Other
           \/ \E k \in Tasks, c \in Clients : CheckAllocate(k, c)
           \/ \E k \in Tasks, a \in Allocs : Allocate(k, a)
  BY DEF TurnNext, Other

LEMMA OthersKeepBound ==
    ASSUME QuotaInv, Other
    PROVE  QuotaInv'
<1> USE DEF QuotaInv, TurnTypeOK
<1>1. TurnTypeOK' /\ Holders' \subseteq Holders /\ InFlight' \subseteq InFlight
  <2> USE DEF Holders, InFlight, Lookups, Histories
  <2>1. CASE \E c \in Clients : AllocateAgain(c) \/ Delete(c) \/ Refresh(c)
    BY <2>1 DEF AllocateAgain, Live, Delete, Forget, Refresh, HoldersOf
  <2>2. CASE \E c \in Clients, p \in Peers : CreatePermission(c, p)
    BY <2>2 DEF CreatePermission, Live
  <2>3. CASE \E c \in Clients, n \in Channels, p \in Peers : ChannelBind(c, n, p)
    BY <2>3 DEF ChannelBind, Live
  <2>4. CASE \E k \in Tasks : NoPort(k)
    BY <2>4 DEF NoPort
  <2>5. CASE \E a \in Allocs : Lapse(a) \/ PeerPacket(a) \/ RelayFails(a)
    BY <2>5 DEF Lapse, PeerPacket, RelayFails, HoldersOf
  <2>6. CASE \E a \in Allocs, p \in Peers : PermissionLapses(a, p)
    BY <2>6 DEF PermissionLapses
  <2>7. CASE Evict
    BY <2>7 DEF Evict, Live
  <2>8. QED
    BY <2>1, <2>2, <2>3, <2>4, <2>5, <2>6, <2>7 DEF Other
<1>2. QED
  BY <1>1, FewerKeepBound

LEMMA NextKeepsBound == QuotaInv /\ [TurnNext]_turnVars => QuotaInv'
<1> SUFFICES ASSUME QuotaInv, [TurnNext]_turnVars PROVE QuotaInv'
  OBVIOUS
<1>1. CASE UNCHANGED turnVars
  BY <1>1 DEF turnVars, Lookups, QuotaInv, TurnTypeOK, AllocationsBounded, Holders, InFlight
<1>2. CASE TurnNext
  BY <1>2, NextIsOther, OthersKeepBound, CheckKeepsBound, AllocateKeepsBound
<1>3. QED
  BY <1>1, <1>2

LEMMA QuotaInvariance == TurnSpec => []QuotaInv
  BY InitQuota, NextKeepsBound, PTL DEF TurnSpec

-----------------------------------------------------------------------------

\* A client whose requests have not overlapped is in the hands of one task, which
\* is to answer it, and goes by what it was answered last.
OneRequestEach ==
    \A c \in Clients \ doubled :
        /\ \A j, k \in Tasks : checking[j] = c /\ checking[k] = c => j = k
        /\ \A k \in Tasks : checking[k] = c => c \in waiting

LastAnswer == \A c \in Clients \ doubled : holds[c] # NoAlloc => c \in served

AddressInv == OneRequestEach /\ LastAnswer

LEMMA InitServes == TurnInit => RegisteredRelays /\ AddressInv
  BY TurnAssumption
  DEF TurnInit, RegisteredRelays, AddressInv, OneRequestEach, LastAnswer, Live, TurnAssumption

LEMMA RelaysKeepRunning ==
    ASSUME TurnTypeOK, RegisteredRelays, [TurnNext]_turnVars
    PROVE  RegisteredRelays'
<1> USE DEF TurnTypeOK, RegisteredRelays, Live, HoldersOf, Lookups, Histories
<1>1. CASE UNCHANGED turnVars
  BY <1>1 DEF turnVars
<1>2. CASE Other
  <2>1. ASSUME NEW c \in Clients, Refresh(c)
        PROVE  RegisteredRelays'
    BY <2>1 DEF Refresh
  <2>2. ASSUME NEW a \in Allocs, Lapse(a) \/ PeerPacket(a) \/ RelayFails(a)
        PROVE  RegisteredRelays'
    BY <2>2 DEF Lapse, PeerPacket, RelayFails
  <2>3. QED
    BY <1>2, <2>1, <2>2 DEF Other, AllocateAgain, Delete, Forget, CreatePermission, ChannelBind,
                            NoPort, PermissionLapses, Evict
<1>3. ASSUME NEW k \in Tasks, NEW c \in Clients, CheckAllocate(k, c)
      PROVE  RegisteredRelays'
  BY <1>3 DEF CheckAllocate
<1>4. ASSUME NEW k \in Tasks, NEW a \in Allocs, Allocate(k, a)
      PROVE  RegisteredRelays'
  BY <1>4 DEF Allocate
<1>5. QED
  BY <1>1, <1>2, <1>3, <1>4, NextIsOther

LEMMA AddressesStay ==
    ASSUME TurnTypeOK, AddressInv, [TurnNext]_turnVars
    PROVE  AddressInv'
<1> USE TurnAssumption DEF TurnTypeOK, AddressInv, OneRequestEach, LastAnswer, Lookups, Histories,
                           TurnAssumption
<1>1. CASE UNCHANGED turnVars
  BY <1>1 DEF turnVars
<1>2. CASE Other
  <2>1. ASSUME NEW c \in Clients, AllocateAgain(c) \/ Delete(c) \/ Refresh(c)
        PROVE  AddressInv'
    <3>1. CASE AllocateAgain(c)
      <4>1. c \notin doubled' => \A k \in Tasks : checking[k] # c
        BY <3>1 DEF AllocateAgain, Checked, InFlight
      <4>2. doubled \subseteq doubled'
        BY <3>1 DEF AllocateAgain
      <4>3. OneRequestEach'
        BY <3>1, <4>1, <4>2 DEF AllocateAgain
      <4>4. LastAnswer'
        BY <3>1, <4>2 DEF AllocateAgain
      <4>5. QED
        BY <4>3, <4>4
    <3>2. CASE Delete(c)
      BY <2>1, <3>2 DEF Delete, Forget
    <3>3. CASE Refresh(c)
      BY <2>1, <3>3 DEF Refresh
    <3>4. QED
      BY <2>1, <3>1, <3>2, <3>3
  <2>2. ASSUME NEW k \in Tasks, NoPort(k)
        PROVE  AddressInv'
    BY <2>2 DEF NoPort
  <2>3. ASSUME Evict
        PROVE  AddressInv'
    BY <2>3 DEF Evict
  <2>4. ASSUME NEW a \in Allocs, Lapse(a) \/ PeerPacket(a) \/ RelayFails(a)
        PROVE  AddressInv'
    BY <2>4 DEF Lapse, PeerPacket, RelayFails
  <2>5. QED
    BY <1>2, <2>1, <2>2, <2>3, <2>4 DEF Other, CreatePermission, ChannelBind, PermissionLapses
<1>3. ASSUME NEW k \in Tasks, NEW c \in Clients, CheckAllocate(k, c)
      PROVE  AddressInv'
  <2>1. c \notin doubled' => c \notin Checked
    BY <1>3 DEF CheckAllocate
  <2>2. /\ doubled' = doubled \cup ({c} \cap Checked) /\ waiting \subseteq waiting'
        /\ checking' = [checking EXCEPT ![k] = c] /\ UNCHANGED <<holds, served>>
        /\ c \notin Checked => c \in waiting'
    BY <1>3 DEF CheckAllocate
  <2>3. \A j \in Tasks : checking[j] # NoClient => checking[j] \in Checked
    BY DEF Checked, InFlight
  <2>4. OneRequestEach'
    BY <2>1, <2>2, <2>3
  <2>5. LastAnswer'
    BY <2>2
  <2>6. QED
    BY <2>4, <2>5
<1>4. ASSUME NEW k \in Tasks, NEW a \in Allocs, Allocate(k, a)
      PROVE  AddressInv'
  <2> DEFINE c == checking[k]
             alone == c \in waiting /\ \A j \in Tasks \ {k} : checking[j] # c
  <2>1. c \in Clients /\ NoClient \notin Clients
    BY <1>4 DEF Allocate
  <2>2. /\ holds' = [holds EXCEPT ![c] = a]
        /\ checking' = [checking EXCEPT ![k] = NoClient]
        /\ waiting' = waiting \ {c}
        /\ served' = IF c \in waiting THEN served \cup {c} ELSE served \ {c}
        /\ doubled' = IF alone THEN doubled \ {c} ELSE doubled
    BY <1>4 DEF Allocate, Answered
  <2>3. c \notin doubled => alone
    BY <2>1
  <2>4. c \notin doubled' => alone
    BY <2>2, <2>3
  <2>5. \A d \in Clients \ {c} : d \notin doubled' => d \notin doubled
    BY <2>2
  <2>6. OneRequestEach'
    BY <2>1, <2>2, <2>4, <2>5
  <2>7. LastAnswer'
    BY <2>1, <2>2, <2>4, <2>5
  <2>8. QED
    BY <2>6, <2>7
<1>5. QED
  BY <1>1, <1>2, <1>3, <1>4, NextIsOther

-----------------------------------------------------------------------------

\* Type correctness of the map of allocations (allocation.rs).
THEOREM TurnTypeCorrect == TurnSpec => []TurnTypeOK
<1>1. QuotaInv => TurnTypeOK
  BY DEF QuotaInv
<1>2. QED
  BY <1>1, QuotaInvariance, PTL

\* handle_allocate counts before it inserts: the quota is exceeded by less than
\* the requests handled at a time, whatever arrives and however late.
THEOREM QuotaHolds == TurnSpec => []AllocationsBounded
<1>1. QuotaInv => AllocationsBounded
  BY DEF QuotaInv
<1>2. QED
  BY <1>1, QuotaInvariance, PTL

\* Whatever is refreshed, replaced or evicted, and however late, the relay task of
\* a live allocation is running, unless its socket failed or a Refresh revived the
\* allocation after the task had ended (spawn_relay_task, handle_refresh).
THEOREM LiveAllocationsRelay == TurnSpec => []RegisteredRelays
<1>1. TurnTypeOK /\ RegisteredRelays /\ [TurnNext]_turnVars => RegisteredRelays'
  BY RelaysKeepRunning
<1>2. TurnInit => RegisteredRelays
  BY InitServes
<1>3. QED
  BY <1>1, <1>2, TurnTypeCorrect, PTL DEF TurnSpec

\* And a client goes by the address that its permissions and channels apply to,
\* however its requests come, unless two Allocates of it overlapped and none has
\* been handled alone since.
THEOREM ClientsAreServed == TurnSpec => []AllocationsServed
<1>1. TurnTypeOK /\ AddressInv /\ [TurnNext]_turnVars => AddressInv'
  BY AddressesStay
<1>2. TurnInit => AddressInv
  BY InitServes
<1>3. TurnSpec => []AddressInv
  BY <1>1, <1>2, TurnTypeCorrect, PTL DEF TurnSpec
<1>4. AddressInv /\ RegisteredRelays /\ AllocationsBounded => AllocationsServed
  BY DEF AddressInv, LastAnswer, Live, AddressIsServed, AllocationsServed
<1>5. QED
  BY <1>3, <1>4, LiveAllocationsRelay, QuotaHolds, PTL

-----------------------------------------------------------------------------
(* MCCommunity.  One part runs and leaves the variables of the others      *)
(* alone.                                                                  *)

CommunityInv == CanvasInv /\ PresenceInv /\ SignetInv /\ ChatInv /\ QuotaInv

LEMMA CommunitySteps == CommunityInv /\ [CommunityNext]_communityVars => CommunityInv'
<1> SUFFICES ASSUME CommunityInv, [CommunityNext]_communityVars PROVE CommunityInv'
  OBVIOUS
<1>1. /\ [CanvasNext]_canvasVars /\ [PresenceNext]_presenceVars /\ [SignetNext]_signetVars
      /\ [TextChatNext]_chatVars /\ [TurnNext]_turnVars
  BY DEF CommunityNext, communityVars
<1> QED
  BY <1>1, CanvasSteps, PresenceSteps, NextPreserves, ChatSteps, NextKeepsBound DEF CommunityInv

\* Whichever of the five services runs, its tables, sockets, tasks and histories
\* stay what the model takes them for.
THEOREM CommunityTypeCorrect == CommunitySpec => []CommunityTypeOK
<1>1. CommunityInit => CommunityInv
  BY CanvasStarts, PresenceStarts, InitEstablishes, ChatStarts, InitQuota DEF CommunityInit, CommunityInv
<1>2. CommunityInv => CommunityTypeOK
  BY DEF CommunityInv, CommunityTypeOK, CanvasInv, PresenceInv, SignetInv, ChatInv, QuotaInv
<1> QED
  BY <1>1, <1>2, CommunitySteps, PTL DEF CommunitySpec

=============================================================================
