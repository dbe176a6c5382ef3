------------------------------- MODULE Presence -------------------------------
(***************************************************************************)
(* Who is online: the connection, presence:set_status and disconnect       *)
(* handlers of core/socket/index.ts, and the list a page keeps             *)
(* (frontend/lib/socket.ts).                                               *)
(*                                                                         *)
(* A new connection asks the database, then Redis, joins the room          *)
(* `presence`, sends its page the whole list, and tells the others when it *)
(* is the first tab of its account.  From there each page follows what     *)
(* happens from one message to the next: nothing ever corrects it.         *)
(*                                                                         *)
(* Redis has one connection: its answers come in the order of the          *)
(* commands.  Joining and listing are parted by promises that resolve at   *)
(* once: only other answers of the same read can come in between, never a  *)
(* new event.                                                              *)
(***************************************************************************)
EXTENDS Naturals, Sequences

CONSTANTS
    Tabs,
    People,
    AccountOf,
    Statuses,
    MaxWire         \* bound: commands on their way to Redis

ASSUME PresenceAssumption ==
    /\ AccountOf \in [Tabs -> People]
    /\ MaxWire \in Nat
    /\ {"offline", "no status"} \cap Statuses = {}

VARIABLES
    open,       \* the connections
    setup,      \* where the setup of each one is
    present,    \* the room `presence`, as the adapter lists it: open ones only
    wire,       \* commands that Redis has still to answer
    saved,      \* status:<userId> in Redis
    status,     \* socket.data.status
    list,       \* onlineMembersStore of each page
    mixed       \* history: the accounts that met one of the races named below

presenceVars == <<open, setup, present, wire, saved, status, list, mixed>>

Offline == "offline"
NoStatus == "no status"
Values == Statuses \cup {NoStatus}
Nobody == [u \in People |-> Offline]

Commands == [op : {"get"}, tab : Tabs] \cup [op : {"set"}, tab : Tabs, value : Values]

PresenceTypeOK ==
    /\ open \subseteq Tabs /\ present \subseteq open
    /\ setup \in [Tabs -> {"none", "database", "redis", "listing"}]
    /\ wire \in Seq(Commands)
    /\ saved \in [People -> Values]
    /\ status \in [Tabs -> Values]
    /\ list \in [Tabs -> [People -> Values \cup {Offline}]]
    /\ mixed \subseteq People

PresenceInit ==
    /\ open = {} /\ present = {}
    /\ setup = [t \in Tabs |-> "none"]
    /\ wire = <<>>
    /\ saved = [u \in People |-> NoStatus]
    /\ status = [t \in Tabs |-> NoStatus]
    /\ list = [t \in Tabs |-> Nobody]
    /\ mixed = {}

-----------------------------------------------------------------------------

TabsOf(u) == {t \in Tabs : AccountOf[t] = u}
Online(u) == present \cap TabsOf(u) # {}

\* No event is handled between a join and the list that follows it.
Listing(t) == setup[t] = "listing"
EventLoopFree == \A t \in Tabs : ~Listing(t)

\* presence:online, presence:offline and presence:status_update, as the pages
\* of `room` take them in.
TellOnline(room, u, st) == [t \in Tabs |->
    IF t \in room /\ list[t][u] = Offline THEN [list[t] EXCEPT ![u] = st] ELSE list[t]]
TellOffline(room, u) == [t \in Tabs |->
    IF t \in room THEN [list[t] EXCEPT ![u] = Offline] ELSE list[t]]
TellStatus(room, u, st) == [t \in Tabs |->
    IF t \in room /\ list[t][u] # Offline THEN [list[t] EXCEPT ![u] = st] ELSE list[t]]

-----------------------------------------------------------------------------
(* A connection and its setup.                                             *)

Connect(t) ==
    /\ EventLoopFree
    /\ t \notin open /\ setup[t] = "none"
    /\ open' = open \cup {t}
    /\ setup' = [setup EXCEPT ![t] = "database"]
    /\ UNCHANGED <<present, wire, saved, status, list, mixed>>

\* The account is not banned and its profile is read; the status is asked for.
ProfileRead(t) ==
    /\ EventLoopFree
    /\ setup[t] = "database" /\ Len(wire) < MaxWire
    /\ setup' = [setup EXCEPT ![t] = "redis"]
    /\ wire' = Append(wire, [op |-> "get", tab |-> t])
    /\ UNCHANGED <<open, present, saved, status, list, mixed>>

\* The answer to `get`: the connection joins the room, or what the adapter
\* lists of it, which a closed connection is not part of.  Two races: the
\* connection has closed, and is announced although it is gone; another tab
\* of the account is listing, and each takes the other for the first.
StatusRead(t, st) ==
    /\ wire # <<>> /\ Head(wire) = [op |-> "get", tab |-> t]
    /\ wire' = Tail(wire)
    /\ setup' = [setup EXCEPT ![t] = "listing"]
    /\ status' = [status EXCEPT ![t] = st]
    /\ present' = present \cup ({t} \cap open)
    /\ UNCHANGED <<open, saved, list>>

Joined(t) ==
    LET u == AccountOf[t]
        races == t \notin open \/ \E other \in TabsOf(u) : Listing(other)
    IN  /\ StatusRead(t, saved[u])
        /\ mixed' = IF races THEN mixed \cup {u} ELSE mixed

\* The read fails.
JoinedBlank(t) ==
    /\ StatusRead(t, NoStatus)
    /\ mixed' = mixed \cup {AccountOf[t]}

\* The list names each account once, with the status of one of its tabs, and
\* the others are told of a first tab.
Listed(t) ==
    LET u == AccountOf[t]
        others == present \ {t}
        first == others \cap TabsOf(u) = {}
        told == IF first THEN TellOnline(others, u, status[t]) ELSE list
    IN  /\ Listing(t)
        /\ setup' = [setup EXCEPT ![t] = "none"]
        /\ \E all \in [People -> Values \cup {Offline}] :
             /\ \A v \in People :
                  IF Online(v) THEN \E s \in present \cap TabsOf(v) : all[v] = status[s]
                               ELSE all[v] = Offline
             /\ list' = IF t \in open THEN [told EXCEPT ![t] = all] ELSE told
        /\ status' = IF t \in open THEN status ELSE [status EXCEPT ![t] = NoStatus]
        /\ UNCHANGED <<open, present, wire, saved, mixed>>

-----------------------------------------------------------------------------
(* Closing.                                                                *)

\* Mutant: the last tab is not waited for.
GoneAtOnce(t) ==
    LET u == AccountOf[t]
        left == present \ {t}
    IN  /\ open' = open \ {t}
        /\ present' = left
        /\ list' = [TellOffline(left, u) EXCEPT ![t] = Nobody]
        /\ status' = [status EXCEPT ![t] = NoStatus]

\* disconnect: the others are told when no tab of the account is left.  The
\* socket takes its data with it, and its page gets a new list when it
\* connects again.
Gone(t) ==
    LET u == AccountOf[t]
        left == present \ {t}
    IN  /\ open' = open \ {t}
        /\ present' = left
        /\ list' = [(IF left \cap TabsOf(u) = {} THEN TellOffline(left, u) ELSE list)
                     EXCEPT ![t] = Nobody]
        /\ status' = [status EXCEPT ![t] = NoStatus]

\* The tab closes, its network fails, or a ban disconnects it.
Disconnect(t) ==
    /\ EventLoopFree
    /\ t \in open
    /\ Gone(t)
    /\ UNCHANGED <<setup, wire, saved, mixed>>

\* The database says the account is banned.
Banned(t) ==
    /\ EventLoopFree
    /\ setup[t] = "database"
    /\ setup' = [setup EXCEPT ![t] = "none"]
    /\ \/ t \in open /\ Gone(t)
       \/ t \notin open /\ UNCHANGED <<open, present, status, list>>
    /\ UNCHANGED <<wire, saved, mixed>>

-----------------------------------------------------------------------------
(* Statuses.                                                               *)

SetStatus(t, st) ==
    /\ EventLoopFree
    /\ t \in open /\ Len(wire) < MaxWire
    /\ wire' = Append(wire, [op |-> "set", tab |-> t, value |-> st])
    /\ UNCHANGED <<open, setup, present, saved, status, list, mixed>>

\* Redis has answered, or failed: every tab in the room is updated, and told.
Publish(t, st) ==
    LET u == AccountOf[t]
    IN  /\ wire # <<>> /\ Head(wire) = [op |-> "set", tab |-> t, value |-> st]
        /\ wire' = Tail(wire)
        /\ status' = [s \in Tabs |-> IF s \in present \cap TabsOf(u) THEN st ELSE status[s]]
        /\ list' = TellStatus(present, u, st)
        /\ UNCHANGED <<open, setup, present>>

StatusSaved(t, st) ==
    /\ Publish(t, st)
    /\ saved' = [saved EXCEPT ![AccountOf[t]] = st]
    /\ UNCHANGED mixed

StatusNotSaved(t, st) ==
    /\ Publish(t, st)
    /\ mixed' = mixed \cup {AccountOf[t]}
    /\ UNCHANGED saved

StatusExpires(u) ==
    /\ EventLoopFree /\ saved[u] # NoStatus
    /\ mixed' = mixed \cup {u}
    /\ saved' = [saved EXCEPT ![u] = NoStatus]
    /\ UNCHANGED <<open, setup, present, wire, status, list>>

-----------------------------------------------------------------------------

PresenceNext ==
    \/ \E t \in Tabs :
         \/ Connect(t) \/ ProfileRead(t) \/ Joined(t) \/ JoinedBlank(t) \/ Listed(t)
         \/ Disconnect(t) \/ Banned(t)
         \/ \E st \in Values : SetStatus(t, st) \/ StatusSaved(t, st) \/ StatusNotSaved(t, st)
    \/ \E u \in People : StatusExpires(u)

PresenceSpec == PresenceInit /\ [][PresenceNext]_presenceVars

-----------------------------------------------------------------------------

\* A page that has its list shows exactly the accounts that have a tab, each
\* with its status, whatever opens, closes and changes in whichever order,
\* although a page only adds up the messages it is sent.  The exceptions are an
\* account whose tab is joining at this moment, and one that met a race: two
\* of its tabs set up together, a connection closed before it joined, or a
\* status that Redis failed to keep or to return.
PagesAgree ==
    \A t \in present : ~Listing(t) =>
      \A u \in People \ mixed : (\A s \in TabsOf(u) : ~Listing(s)) =>
        list[t][u] = IF Online(u) THEN saved[u] ELSE Offline

=============================================================================
