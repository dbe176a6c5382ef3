---------------------------- MODULE VoiceBascule ----------------------------
(***************************************************************************)
(* The server side of the mesh-to-SFU switch of ONE voice channel,         *)
(* nodyx-core/src/socket/voiceBascule.ts.  The module keeps four maps      *)
(* keyed by channel; channels never interact, so one entry of each is the  *)
(* whole state.  The exported handlers are operators here: VoiceRoom calls *)
(* them from the socket handlers, with the seat count and the members that *)
(* fetchSockets would return at that point.                                *)
(*                                                                         *)
(* fetchSockets is awaited, but the adapter is the in-memory one: the      *)
(* member list is read when the call is made and the continuation runs in  *)
(* the same drain of the microtask queue, so no socket event, timer or     *)
(* database answer falls between the read and the commit.                  *)
(***************************************************************************)
EXTENDS Integers, FiniteSets

CONSTANTS
    Sockets,    \* socket ids
    Threshold   \* VOICE_SFU_MESH_THRESHOLD

ASSUME ThresholdAssumption == Threshold \in Nat \ {0}

VARIABLES
    mode,       \* _mode: what channelMode() answers
    ready,      \* _ready: the sockets that confirmed their SFU in this switch
    timer,      \* _timer: an abort timer is armed
    cooldown    \* _cooldown: a switch was abandoned

basculeVars == <<mode, ready, timer, cooldown>>

Modes == {"mesh", "switching", "sfu"}

BasculeTypeOK ==
    /\ mode \in Modes
    /\ ready \subseteq Sockets
    /\ timer \in BOOLEAN
    /\ cooldown \in BOOLEAN

BasculeInit ==
    /\ mode = "mesh"
    /\ ready = {}
    /\ timer = FALSE
    /\ cooldown = FALSE

-----------------------------------------------------------------------------

\* Mutant: the abort timer is not armed.
StartSwitchUntimed ==
    /\ mode' = "switching"
    /\ ready' = {}
    /\ timer' = FALSE

StartSwitch ==
    /\ mode' = "switching"
    /\ ready' = {}
    /\ timer' = TRUE

Commit ==
    /\ mode' = "sfu"
    /\ ready' = {}
    /\ timer' = FALSE

Reset ==
    /\ mode' = "mesh"
    /\ ready' = {}
    /\ timer' = FALSE
    /\ cooldown' = FALSE

\* The end of the overlap without a commit: the timer fires.
Abort ==
    /\ timer
    /\ mode = "switching"
    /\ mode' = "mesh"
    /\ ready' = {}
    /\ timer' = FALSE
    /\ cooldown' = TRUE

\* The tail of onSfuReady and onLeave while switching: everybody in the room
\* is in the ready set, or nobody is left in it, or the switch goes on.
CheckAllReady(confirmed, members, stillCold) ==
    \/ /\ members = {}
       /\ Reset
    \/ /\ members # {}
       /\ members \subseteq confirmed
       /\ Commit
       /\ cooldown' = stillCold
    \/ /\ ~ members \subseteq confirmed
       /\ ready' = confirmed
       /\ cooldown' = stillCold
       /\ UNCHANGED <<mode, timer>>

OnSeatCount(count) ==
    IF mode = "mesh" /\ ~cooldown /\ count >= Threshold
    THEN StartSwitch /\ UNCHANGED cooldown
    ELSE UNCHANGED basculeVars

\* A deliberate share ignores the threshold and lifts the cooldown.
OnScreenShare ==
    /\ mode = "mesh"
    /\ cooldown' = FALSE
    /\ StartSwitch

OnSfuReady(s, members) ==
    /\ mode = "switching"
    /\ CheckAllReady(ready \cup {s}, members, cooldown)

StillCold(remaining) == cooldown /\ remaining >= Threshold

\* Mutant: a departure does not look whether the others are all ready.
OnLeaveUnchecked(s, remaining, members) ==
    \/ /\ remaining = 0
       /\ Reset
    \/ /\ remaining # 0
       /\ ready' = ready \ {s}
       /\ cooldown' = StillCold(remaining)
       /\ UNCHANGED <<mode, timer>>

\* Mutant: a departure keeps the confirmation of the one who left.
OnLeaveKeepsReady(s, remaining, members) ==
    \/ /\ remaining = 0
       /\ Reset
    \/ /\ remaining # 0
       /\ mode = "switching"
       /\ CheckAllReady(ready, members, StillCold(remaining))
    \/ /\ remaining # 0
       /\ mode # "switching"
       /\ cooldown' = StillCold(remaining)
       /\ UNCHANGED <<mode, ready, timer>>

OnLeave(s, remaining, members) ==
    \/ /\ remaining = 0
       /\ Reset
    \/ /\ remaining # 0
       /\ mode = "switching"
       /\ CheckAllReady(ready \ {s}, members, StillCold(remaining))
    \/ /\ remaining # 0
       /\ mode # "switching"
       /\ ready' = ready \ {s}
       /\ cooldown' = StillCold(remaining)
       /\ UNCHANGED <<mode, timer>>

=============================================================================
