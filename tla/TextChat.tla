------------------------------- MODULE TextChat -------------------------------
(***************************************************************************)
(* Text channels: chat:join, chat:leave and chat:watch of                  *)
(* core/socket/index.ts, the messages, edits and deletions that are        *)
(* announced to a channel, and the list of the page that reads it          *)
(* (frontend/routes/chat/+page.svelte).                                    *)
(*                                                                         *)
(* A page asks for the history when it selects a channel, and from there   *)
(* appends what is announced.  The handlers of one socket overlap in the   *)
(* database, and every announcement follows its write in a call of its     *)
(* own.  The network only delays: what a page and the core send each other *)
(* arrives at once here, and a page acts while it is connected.  Voice     *)
(* channels, which the list of channels selects as well, are left out.     *)
(***************************************************************************)
EXTENDS Naturals, Sequences

CONSTANTS
    Pages,
    Rooms,          \* the text channels
    Posts,          \* the messages that may be written
    RoomOf,
    MaxEdits,       \* bound
    MaxHandlers     \* bound: chat:join and chat:watch under way

ASSUME TextChatAssumption ==
    /\ RoomOf \in [Posts -> Rooms]
    /\ MaxEdits \in Nat /\ MaxHandlers \in Nat
    /\ "no channel" \notin Rooms

VARIABLES
    linked,     \* the pages whose socket is connected
    selected,   \* selectedChannel of each page, once /chat is mounted
    inRooms,    \* the rooms of each socket
    active,     \* socket.data.activeChannel
    handler,    \* the joins and watches under way
    version,    \* the row of each message
    untold,     \* messages written and not announced yet
    telling,    \* edits and deletions written and not announced yet
    shown,      \* messages of each page: the texts it has of each message
    astray,      \* history: the messages for which a page met a race
    late        \* history: a join was carried out after the page had moved on

chatVars == <<linked, selected, inRooms, active, handler,
              version, untold, telling, shown, astray, late>>

NoRoom == "no channel"
Idle == [op |-> "idle"]
\* A row: not there, a text, or is_deleted.
Unwritten == 0
Original == 1
LastText == Original + MaxEdits
Deleted == LastText + 1
Texts == Original..Deleted
Rows == [Posts -> Texts \cup {Unwritten}]
NoRows == [m \in Posts |-> Unwritten]
EmptyList == [m \in Posts |-> <<>>]
Slots == 1..MaxHandlers

Request(p, op, rs) ==
    [page |-> p, op |-> op, rooms |-> rs, step |-> "check", read |-> NoRows]

ChatRequests == [page : Pages, op : {"join", "watch"}, rooms : SUBSET Rooms,
             step : {"check", "read", "answer"}, read : Rows]

TextChatTypeOK ==
    /\ linked \subseteq Pages
    /\ selected \in [Pages -> Rooms \cup {NoRoom}]
    /\ inRooms \in [Pages -> SUBSET Rooms]
    /\ active \in [Pages -> Rooms \cup {NoRoom}]
    /\ handler \in [Slots -> ChatRequests \cup {Idle}]
    /\ version \in Rows
    /\ untold \subseteq Posts /\ telling \subseteq Posts \X Texts
    /\ shown \in [Pages -> [Posts -> Seq(Texts)]]
    /\ astray \in [Pages -> SUBSET Posts]
    /\ late \subseteq Pages

TextChatInit ==
    /\ linked = {}
    /\ selected = [p \in Pages |-> NoRoom]
    /\ inRooms = [p \in Pages |-> {}]
    /\ active = [p \in Pages |-> NoRoom]
    /\ handler = [n \in Slots |-> Idle]
    /\ version = NoRows
    /\ untold = {} /\ telling = {}
    /\ shown = [p \in Pages |-> EmptyList]
    /\ astray = [p \in Pages |-> {}]
    /\ late = {}

rowVars == <<version, untold, telling>>

-----------------------------------------------------------------------------
(* What pages ask for.                                                     *)

Free == {n \in Slots : handler[n] = Idle}

\* The core takes up a join, or a watch and a join, in the slots that come first.
TakeUp(r) == \E n \in Free :
    /\ \A o \in Free : n <= o
    /\ handler' = [handler EXCEPT ![n] = r]

TakeUpBoth(r, s) == \E n, o \in Free :
    /\ n # o /\ \A k \in Free \ {n} : n <= k /\ o <= k
    /\ handler' = [handler EXCEPT ![n] = r, ![o] = s]

\* chat:leave.
chatLeave(p, r) ==
    /\ inRooms' = [inRooms EXCEPT ![p] = @ \ {r}]
    /\ IF active[p] = r
       THEN active' = [active EXCEPT ![p] = NoRoom] /\ late' = late \ {p}
       ELSE UNCHANGED <<active, late>>

ClearList(p) ==
    /\ shown' = [shown EXCEPT ![p] = EmptyList]
    /\ astray' = [astray EXCEPT ![p] = {}]

\* /chat is mounted: its channel is joined, the others are watched.
Mount(p, r) ==
    /\ p \in linked /\ selected[p] = NoRoom
    /\ selected' = [selected EXCEPT ![p] = r]
    /\ TakeUpBoth(Request(p, "join", {r}), Request(p, "watch", Rooms \ {r}))
    /\ ClearList(p)
    /\ UNCHANGED <<linked, inRooms, active, late, rowVars>>

Unmount(p) ==
    /\ p \in linked /\ selected[p] # NoRoom
    /\ chatLeave(p, selected[p])
    /\ selected' = [selected EXCEPT ![p] = NoRoom]
    /\ ClearList(p)
    /\ UNCHANGED <<linked, handler, rowVars>>

\* joinChannel: the channel is left and watched, the other is joined.
joinChannel(p, r) ==
    LET old == selected[p] IN
    /\ p \in linked /\ old # NoRoom /\ old # r
    /\ chatLeave(p, old)
    /\ TakeUpBoth(Request(p, "watch", {old}), Request(p, "join", {r}))
    /\ selected' = [selected EXCEPT ![p] = r]
    /\ ClearList(p)
    /\ UNCHANGED <<linked, rowVars>>

\* The channel that is selected is clicked again.
joinAgain(p) ==
    /\ p \in linked /\ selected[p] # NoRoom
    /\ TakeUp(Request(p, "join", {selected[p]}))
    /\ ClearList(p)
    /\ UNCHANGED <<linked, selected, inRooms, active, late, rowVars>>

\* The connection is lost, and what was under way for it comes to nothing.
Drop(p) ==
    /\ p \in linked
    /\ linked' = linked \ {p}
    /\ inRooms' = [inRooms EXCEPT ![p] = {}]
    /\ active' = [active EXCEPT ![p] = NoRoom]
    /\ late' = late \ {p}
    /\ handler' = [n \in Slots |->
         IF handler[n] # Idle /\ handler[n].page = p THEN Idle ELSE handler[n]]
    /\ UNCHANGED <<selected, shown, astray, rowVars>>

\* connect: the channel is joined again.
onConnect(p) ==
    /\ p \notin linked
    /\ linked' = linked \cup {p}
    /\ IF selected[p] = NoRoom THEN UNCHANGED handler
       ELSE TakeUp(Request(p, "join", {selected[p]}))
    /\ UNCHANGED <<selected, inRooms, active, late, shown, astray, rowVars>>

-----------------------------------------------------------------------------
(* The handlers of chat:join and chat:watch.                               *)

UnderWay(n, op, step) ==
    handler[n] # Idle /\ handler[n].op = op /\ handler[n].step = step

Ends(n) == handler' = [handler EXCEPT ![n] = Idle]

\* The access is checked and the channel found.
Enter(n) ==
    LET p == handler[n].page IN
    /\ UnderWay(n, "join", "check")
    /\ handler' = [handler EXCEPT ![n].step = "read"]
    /\ inRooms' = [inRooms EXCEPT ![p] = @ \cup handler[n].rooms]
    /\ \E r \in handler[n].rooms :
         /\ active' = [active EXCEPT ![p] = r]
         /\ late' = IF selected[p] = r THEN late \ {p} ELSE late \cup {p}
    /\ UNCHANGED <<linked, selected, shown, astray, rowVars>>

\* A query fails: the page waits for a history that does not come.
JoinFails(n) ==
    LET p == handler[n].page IN
    /\ UnderWay(n, "join", "check")
    /\ Ends(n)
    /\ astray' = IF selected[p] \in handler[n].rooms
                THEN [astray EXCEPT ![p] = Posts] ELSE astray
    /\ UNCHANGED <<linked, selected, inRooms, active, late, shown, rowVars>>

ReadsHistory(n) ==
    /\ UnderWay(n, "join", "read")
    /\ \E rows \in {version, NoRows} :      \* NoRows: the query fails
         handler' = [handler EXCEPT
           ![n].step = "answer",
           ![n].read = [m \in Posts |->
             IF RoomOf[m] \in handler[n].rooms THEN rows[m] ELSE Unwritten]]
    /\ UNCHANGED <<linked, selected, inRooms, active, late, shown, astray, rowVars>>

IsTold(m, v) == v # Unwritten /\ m \notin untold /\ <<m, v>> \notin telling

\* chat:history replaces the list, if the channel is still selected.  It lacks
\* what was announced between the query and the answer, and holds what is
\* still to be announced.  The answer may be that of a join made before the
\* page left the channel and came back, the last join having failed: the
\* socket is then not in the room.
Answer(n) ==
    LET p == handler[n].page
        read == handler[n].read
    IN  /\ UnderWay(n, "join", "answer")
        /\ Ends(n)
        /\ IF selected[p] \in handler[n].rooms
           THEN /\ shown' = [shown EXCEPT ![p] = [m \in Posts |->
                     IF read[m] = Unwritten THEN <<>> ELSE <<read[m]>>]]
                /\ astray' = [astray EXCEPT ![p] = {m \in Posts :
                     \/ selected[p] \notin inRooms[p]
                     \/ read[m] # Unwritten /\ m \in untold
                     \/ read[m] # version[m] /\ IsTold(m, version[m])
                     \/ read[m] = Unwritten /\ version[m] # Unwritten /\ m \notin untold}]
           ELSE UNCHANGED <<shown, astray>>
        /\ UNCHANGED <<linked, selected, inRooms, active, late, rowVars>>

Watch(n) ==
    /\ UnderWay(n, "watch", "check")
    /\ Ends(n)
    /\ inRooms' = [inRooms EXCEPT ![handler[n].page] = @ \cup handler[n].rooms]
    /\ UNCHANGED <<linked, selected, active, late, shown, astray, rowVars>>

WatchFails(n) ==
    /\ UnderWay(n, "watch", "check")
    /\ Ends(n)
    /\ UNCHANGED <<linked, selected, inRooms, active, late, shown, astray, rowVars>>

-----------------------------------------------------------------------------
(* Writing.                                                                *)

pageVars == <<linked, selected, inRooms, active, handler, late>>

\* Who reads the channel of m: the others count an unread message.
Readers(m) == {p \in linked : RoomOf[m] \in inRooms[p] /\ selected[p] = RoomOf[m]}

addMessage(m) ==
    /\ version[m] = Unwritten
    /\ version' = [version EXCEPT ![m] = Original]
    /\ untold' = untold \cup {m}
    /\ UNCHANGED <<telling, shown, astray, pageVars>>

\* Mutant: watchers append what they do not read.
TellWatchers(m) ==
    /\ m \in untold
    /\ untold' = untold \ {m}
    /\ shown' = [p \in Pages |-> IF p \in linked /\ RoomOf[m] \in inRooms[p]
         THEN [shown[p] EXCEPT ![m] = Append(@, Original)] ELSE shown[p]]
    /\ UNCHANGED <<version, telling, astray, pageVars>>

\* chat:message, with the text it was written with: a change of it may have
\* been announced before.
Tell(m) ==
    /\ m \in untold
    /\ untold' = untold \ {m}
    /\ shown' = [p \in Pages |-> IF p \in Readers(m)
         THEN [shown[p] EXCEPT ![m] = Append(@, Original)] ELSE shown[p]]
    /\ astray' = [p \in Pages |->
         IF p \in Readers(m) /\ version[m] # Original /\ <<m, version[m]>> \notin telling
         THEN astray[p] \cup {m} ELSE astray[p]]
    /\ UNCHANGED <<version, telling, pageVars>>

\* editMessage and deleteMessage: a deleted message changes no more.
Change(m, v) ==
    /\ version[m] \in Original..LastText
    /\ v \in {version[m] + 1, Deleted}
    /\ version' = [version EXCEPT ![m] = v]
    /\ telling' = telling \cup {<<m, v>>}
    /\ UNCHANGED <<untold, shown, astray, pageVars>>

\* chat:message_edited and chat:message_deleted: an edit does not bring a
\* deleted message back, and replaces a later edit that was announced before.
Changed(v, texts) == [i \in DOMAIN texts |-> IF texts[i] = Deleted THEN Deleted ELSE v]

Announce(m, v) ==
    /\ <<m, v>> \in telling
    /\ telling' = telling \ {<<m, v>>}
    /\ shown' = [p \in Pages |-> IF p \in Readers(m)
         THEN [shown[p] EXCEPT ![m] = Changed(v, @)] ELSE shown[p]]
    /\ astray' = [p \in Pages |->
         IF p \in Readers(m) /\ version[m] \notin {v, Deleted} /\ <<m, version[m]>> \notin telling
         THEN astray[p] \cup {m} ELSE astray[p]]
    /\ UNCHANGED <<version, untold, pageVars>>

-----------------------------------------------------------------------------

TextChatNext ==
    \/ \E p \in Pages :
         \/ Unmount(p) \/ joinAgain(p) \/ Drop(p) \/ onConnect(p)
         \/ \E r \in Rooms : Mount(p, r) \/ joinChannel(p, r)
    \/ \E n \in Slots :
         \/ Enter(n) \/ JoinFails(n) \/ ReadsHistory(n) \/ Answer(n)
         \/ Watch(n) \/ WatchFails(n)
    \/ \E m \in Posts :
         \/ addMessage(m) \/ Tell(m)
         \/ \E v \in Texts : Change(m, v) \/ Announce(m, v)

TextChatSpec == TextChatInit /\ [][TextChatNext]_chatVars

-----------------------------------------------------------------------------

Joining(p) == \E n \in Slots :
    handler[n] # Idle /\ handler[n].page = p /\ handler[n].op = "join"
        /\ selected[p] \in handler[n].rooms

\* A page that has its channel, and has met no race over a message, shows that
\* message once and as it is in the table as soon as all was announced, after
\* whatever changes of channel and reconnections.
ListFollows ==
    \A p \in linked : selected[p] \in inRooms[p] /\ ~Joining(p) =>
      \A m \in Posts \ (astray[p] \cup untold) :
        (\A v \in Texts : <<m, v>> \notin telling) =>
          shown[p][m] = IF RoomOf[m] # selected[p] \/ version[m] = Unwritten
                        THEN <<>> ELSE <<version[m]>>

\* A mention is kept silent for who looks at its channel (chat:send): the
\* channel recorded is the one the page shows, unless a join was overtaken.
AttentionFits == \A p \in Pages \ late : active[p] \in {NoRoom, selected[p]}

\* Pages show their channel, and the core knows which one that is.
PagesFollowChat == ListFollows /\ AttentionFits

\* Not kept: a page is in the room of every channel, to count what it has not
\* read.  After a reconnection only the selected one is joined.
BackgroundWatched ==
    \A p \in linked :
        selected[p] # NoRoom /\ Free = Slots => Rooms \ {selected[p]} \subseteq inRooms[p]

=============================================================================
