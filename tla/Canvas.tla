-------------------------------- MODULE Canvas --------------------------------
(***************************************************************************)
(* One shared board: core/socket/canvas.ts and the PATCH of                *)
(* core/routes/canvas.ts.                                                  *)
(*                                                                         *)
(* The database holds the board, a map in memory holds what the room sees. *)
(* An edit is merged in memory (the later stamp wins), sent to the room,   *)
(* and saved after ten quiet seconds, on request, or when the last one     *)
(* leaves, after which the copy in memory is dropped.  Every call to the   *)
(* database lets the other handlers run.                                   *)
(***************************************************************************)
EXTENDS Naturals

CONSTANTS
    Sockets,
    Elements,
    MaxTs,      \* bound: stamps of edits
    SavesFail   \* a save may fail

ASSUME CanvasAssumption ==
    /\ MaxTs \in Nat /\ SavesFail \in BOOLEAN
    /\ {"timer", "api"} \cap Sockets = {}

VARIABLES
    stored,     \* canvas_boards.snapshot
    cache,      \* snapshots: the copy in memory, NoBoard when there is none
    timer,      \* flushTimers
    room,       \* the sockets in the board's room
    task,       \* what each handler waits for
    accepted,   \* history: the edits sent to the room, or set by the API
    raced       \* history: a save has failed, or two handlers have met in one
                \* of the ways below

canvasVars == <<stored, cache, timer, room, task, accepted, raced>>

Stamps == 1 .. MaxTs
Versions == [ts : 0 .. MaxTs, dead : BOOLEAN]
Absent == [ts |-> 0, dead |-> FALSE]
Boards == [Elements -> Versions]
Blank == [e \in Elements |-> Absent]
NoBoard == [e \in {} |-> Absent]
Ops == [el : Elements, ts : Stamps, dead : BOOLEAN]

Actors == Sockets \cup {"timer", "api"}
NoTask == [pc |-> "idle", job |-> "none", board |-> NoBoard]

CanvasTypeOK ==
    /\ {stored, accepted} \subseteq Boards
    /\ cache \in Boards \cup {NoBoard}
    /\ {timer, raced} \subseteq BOOLEAN
    /\ room \subseteq Sockets
    /\ task \in [Actors -> [pc : {"idle", "asked", "read", "write", "wrote"},
                            job : {"none", "join", "op", "clear", "save", "last", "patch"},
                            board : Boards \cup {NoBoard}]]

CanvasInit ==
    /\ stored = Blank /\ accepted = Blank
    /\ cache = NoBoard
    /\ timer = FALSE
    /\ room = {}
    /\ task = [a \in Actors |-> NoTask]
    /\ raced = FALSE

-----------------------------------------------------------------------------
(* Maps.                                                                   *)

Cached == cache # NoBoard
Waiting(a) == task[a].pc # "idle"
Saving == \E a \in Actors : task[a].pc = "write"

\* applyOp: the later stamp wins, the first of two equal ones.
Wins(map, op) == map[op.el].ts < op.ts
Put(map, op) == [map EXCEPT ![op.el] = [ts |-> op.ts, dead |-> op.dead]]

\* Mutant: the deletion is stamped after the clear.
ClearedLater(map, ts) == [e \in Elements |->
    IF map[e].ts \in 1 .. ts THEN [ts |-> ts + 1, dead |-> TRUE] ELSE map[e]]

\* The loop of canvas:clear: what is at most as old as ts is deleted at ts.
Cleared(map, ts) == [e \in Elements |->
    IF map[e].ts \in 1 .. ts THEN [ts |-> ts, dead |-> TRUE] ELSE map[e]]

\* toSnapshot: deleted elements are not written.
Compact(map) == [e \in Elements |-> IF map[e].dead THEN Absent ELSE map[e]]

\* flushToDB, up to its call: it writes the copy in memory as it is now.  Two
\* saves under way at a time may reach the database in either order; one that
\* starts between the API's write and its forgetBoard undoes that write.
Write(a, job, map) ==
    /\ task' = [task EXCEPT ![a] = [pc |-> "write", job |-> job, board |-> Compact(map)]]
    /\ raced' = (raced \/ Saving \/ Waiting("api"))

Ask(a, job) ==
    /\ ~Cached /\ ~Waiting(a)
    /\ task' = [task EXCEPT ![a] = [pc |-> "asked", job |-> job, board |-> NoBoard]]
    /\ UNCHANGED <<stored, cache, timer, room, accepted, raced>>

-----------------------------------------------------------------------------
(* Handlers that find the board in memory.                                 *)

Join(s) ==
    /\ s \notin room /\ Cached /\ ~Waiting(s)
    /\ room' = room \cup {s}
    /\ UNCHANGED <<stored, cache, timer, task, accepted, raced>>

\* canvas:op.  An edit that loses changes nothing.
Draw(s, op) ==
    /\ s \in room /\ Cached /\ Wins(cache, op)
    /\ cache' = Put(cache, op)
    /\ accepted' = Put(accepted, op)
    /\ timer' = TRUE
    /\ UNCHANGED <<stored, room, task, raced>>

Clear(s, ts) ==
    /\ s \in room /\ Cached /\ ~Waiting(s)
    /\ cache' = Cleared(cache, ts)
    /\ accepted' = Cleared(accepted, ts)
    /\ timer' = FALSE
    /\ Write(s, "save", Cleared(cache, ts))
    /\ UNCHANGED <<stored, room>>

\* canvas:save: flushNow does nothing when there is no copy.
Save(s) ==
    /\ s \in room /\ ~Waiting(s)
    /\ timer' = FALSE
    /\ IF Cached THEN Write(s, "save", cache) ELSE UNCHANGED <<task, raced>>
    /\ UNCHANGED <<stored, cache, room, accepted>>

\* Ten quiet seconds.
TimerFires ==
    /\ timer /\ ~Waiting("timer")
    /\ timer' = FALSE
    /\ IF Cached THEN Write("timer", "save", cache) ELSE UNCHANGED <<task, raced>>
    /\ UNCHANGED <<stored, cache, room, accepted>>

\* canvas:leave and disconnecting.  The last one saves, then drops the copy.
Leave(s) ==
    /\ s \in room /\ ~Waiting(s)
    /\ room' = room \ {s}
    /\ IF room = {s} THEN
         /\ timer' = FALSE
         /\ IF Cached THEN Write(s, "last", cache) ELSE UNCHANGED <<task, raced>>
       ELSE UNCHANGED <<timer, task, raced>>
    /\ UNCHANGED <<stored, cache, accepted>>

-----------------------------------------------------------------------------
(* Handlers that do not: loadSnapshot.                                     *)

AskToJoin(s) == s \notin room /\ Ask(s, "join")
AskToDraw(s) == s \in room /\ Ask(s, "op")
AskToClear(s) == s \in room /\ Ask(s, "clear")

Selected(a) ==
    /\ task[a].pc = "asked"
    /\ task' = [task EXCEPT ![a].pc = "read", ![a].board = stored]
    /\ UNCHANGED <<stored, cache, timer, room, accepted, raced>>

\* The answer replaces whatever is in memory by now, and may be older than the
\* table by now, or about to be.
Loaded(s, job) ==
    /\ task[s].pc = "read" /\ task[s].job = job
    /\ raced' = (raced \/ Cached \/ Saving \/ Waiting("api") \/ stored # task[s].board)

LoadedToJoin(s) ==
    /\ Loaded(s, "join")
    /\ cache' = task[s].board
    /\ room' = room \cup {s}
    /\ task' = [task EXCEPT ![s] = NoTask]
    /\ UNCHANGED <<stored, timer, accepted>>

LoadedToDraw(s, op) ==
    /\ Loaded(s, "op")
    /\ IF Wins(task[s].board, op)
       THEN /\ cache' = Put(task[s].board, op)
            /\ accepted' = Put(accepted, op)
            /\ timer' = TRUE
       ELSE cache' = task[s].board /\ UNCHANGED <<accepted, timer>>
    /\ task' = [task EXCEPT ![s] = NoTask]
    /\ UNCHANGED <<stored, room>>

LoadedToClear(s, ts) ==
    /\ Loaded(s, "clear")
    /\ cache' = Cleared(task[s].board, ts)
    /\ accepted' = Cleared(accepted, ts)
    /\ timer' = FALSE
    /\ task' = [task EXCEPT ![s] =
         [pc |-> "write", job |-> "save", board |-> Compact(Cleared(task[s].board, ts))]]
    /\ UNCHANGED <<stored, room>>

-----------------------------------------------------------------------------
(* The database's answers to a save; a failed one is only logged.  Who     *)
(* has saved has done, but for the last one, who drops the copy next.      *)

SaveAnswered(a) == task' = [task EXCEPT ![a] =
    IF @.job = "last" THEN [@ EXCEPT !.pc = "wrote"] ELSE NoTask]

Written(a) ==
    /\ task[a].pc = "write"
    /\ stored' = task[a].board
    /\ SaveAnswered(a)
    /\ UNCHANGED <<cache, timer, room, accepted, raced>>

WriteFails(a) ==
    /\ task[a].pc = "write" /\ SavesFail
    /\ SaveAnswered(a)
    /\ raced' = TRUE
    /\ UNCHANGED <<stored, cache, timer, room, accepted>>

\* snapshots.delete after the last one's save: an edit made since then by
\* somebody who joined meanwhile goes with the copy.
SaveEnds(a) ==
    /\ task[a].pc = "wrote" /\ a # "api"
    /\ cache' = NoBoard
    /\ raced' = (raced \/ (Cached /\ timer))
    /\ task' = [task EXCEPT ![a] = NoTask]
    /\ UNCHANGED <<stored, timer, room, accepted>>

-----------------------------------------------------------------------------
(* PATCH: the API writes a board, then forgetBoard.                        *)

Patch(board) ==
    /\ ~Waiting("api")
    /\ stored' = board
    /\ accepted' = board
    /\ task' = [task EXCEPT !["api"] = [pc |-> "wrote", job |-> "patch", board |-> board]]
    /\ raced' = (raced \/ Saving)
    /\ UNCHANGED <<cache, timer, room>>

\* Mutant: the copy in memory survives the API's write.
forgetBoardNot ==
    /\ task["api"].pc = "wrote"
    /\ task' = [task EXCEPT !["api"] = NoTask]
    /\ raced' = (raced \/ accepted # task["api"].board)
    /\ UNCHANGED <<stored, cache, timer, room, accepted>>

forgetBoard ==
    /\ task["api"].pc = "wrote"
    /\ cache' = NoBoard
    /\ timer' = FALSE
    /\ task' = [task EXCEPT !["api"] = NoTask]
    /\ raced' = (raced \/ accepted # task["api"].board)
    /\ UNCHANGED <<stored, room, accepted>>

\* The core restarts: unsaved edits are gone, and the room starts again from
\* what is stored.
CoreRestarts ==
    /\ cache' = NoBoard
    /\ timer' = FALSE
    /\ room' = {}
    /\ task' = [a \in Actors |-> NoTask]
    /\ accepted' = stored
    /\ raced' = FALSE
    /\ UNCHANGED stored

-----------------------------------------------------------------------------

Handler(s) ==
    \/ Join(s) \/ Save(s) \/ Leave(s)
    \/ AskToJoin(s) \/ AskToDraw(s) \/ AskToClear(s) \/ LoadedToJoin(s)
    \/ \E op \in Ops : Draw(s, op) \/ LoadedToDraw(s, op)
    \/ \E ts \in Stamps : Clear(s, ts) \/ LoadedToClear(s, ts)

Database(a) == Selected(a) \/ Written(a) \/ WriteFails(a) \/ SaveEnds(a)

CanvasNext ==
    \/ \E s \in Sockets : Handler(s)
    \/ \E a \in Actors : Database(a)
    \/ TimerFires
    \/ \E e \in Elements, ts \in 0 .. MaxTs :
         Patch([Blank EXCEPT ![e] = [ts |-> ts, dead |-> FALSE]])
    \/ forgetBoard
    \/ CoreRestarts

CanvasSpec == CanvasInit /\ [][CanvasNext]_canvasVars

-----------------------------------------------------------------------------

AtRest == ~timer /\ \A a \in Actors : ~Waiting(a)

\* Every edit the room was shown is in the database once nothing is under way,
\* and no other one: whichever handler saved, loaded or dropped the copy, and
\* whatever a restart took, unless a save failed or two handlers met in one of
\* the ways `raced` names.  Those are all the ways of losing an edit.
EditsAreKept == AtRest /\ ~raced => stored = Compact(accepted)

\* "Quand le dernier user quitte -> flush immediat" (canvas.ts): nothing fails
\* and everybody has left, so the board in the database is what they drew.
LastOneSaves == AtRest /\ room = {} => stored = Compact(accepted)

=============================================================================
