------------------------------- MODULE Octoguard -------------------------------
(***************************************************************************)
(* One member under moderation: the mutes and their cache                  *)
(* (core/services/octoguard/mutes.ts), the warnings that escalate to one   *)
(* (pipeline.ts), and the rules in memory (cache.ts).                      *)
(*                                                                         *)
(* A verdict is given at once; what it costs the member is written         *)
(* afterwards, by a job nobody waits for.  Channels, durations and what a  *)
(* rule matches are left out.                                              *)
(***************************************************************************)
EXTENDS Naturals

CONSTANTS
    Mutes,
    Jobs,           \* writes under way at a time
    Checks,         \* messages being checked at a time
    Threshold,      \* warns_threshold of the rule
    MaxWarns,       \* bound: warnings
    MaxEdits        \* bound: edits of the rules

ASSUME OctoAssumption == {Threshold, MaxWarns, MaxEdits} \subseteq Nat

VARIABLES
    rows,       \* chat_mutes
    over,       \* mutes past expires_at
    warns,      \* octoguard_warns that are not cleared
    entry,      \* _cache: one entry, NoEntry when absent or older than a minute
    check,      \* isUserMuted, waiting for the table
    job,        \* writes: what each waits for
    table,      \* octoguard_automod_rules: the number of its last edit
    rules,      \* _rules: the edit the memory reflects
    behind,     \* history: the last reload to end failed or had read an older table
    escalated,  \* history: a warning led to a mute
    jobFailed

octoVars == <<rows, over, warns, entry, check, job, table, rules, behind, escalated, jobFailed>>

NoEntry == [rows |-> {}, at |-> "none"]
NoJob == [pc |-> "idle", read |-> 0]

OctoTypeOK ==
    /\ {rows, over} \subseteq SUBSET Mutes
    /\ warns \in 0 .. MaxWarns
    /\ entry \in [rows : SUBSET Mutes, at : {"none", "fresh", "late"}]
    /\ check \in [Checks -> [pc : {"idle", "asked", "read"}, rows : SUBSET Mutes]]
    /\ job \in [Jobs -> [pc : {"idle", "warn", "count", "apply", "tell", "reload", "swap"},
                         read : 0 .. MaxEdits]]
    /\ {table, rules} \subseteq 0 .. MaxEdits
    /\ {behind, escalated, jobFailed} \subseteq BOOLEAN

OctoInit ==
    /\ rows = {} /\ over = {} /\ warns = 0
    /\ entry = NoEntry
    /\ check = [c \in Checks |-> [pc |-> "idle", rows |-> {}]]
    /\ job = [j \in Jobs |-> NoJob]
    /\ table = 0 /\ rules = 0
    /\ behind = FALSE /\ escalated = FALSE /\ jobFailed = FALSE

Active == rows \ over
At(j, pc) == job[j].pc = pc
Go(j, pc) == job' = [job EXCEPT ![j].pc = pc]
Busy(pcs) == \E j \in Jobs : job[j].pc \in pcs

-----------------------------------------------------------------------------
(* isUserMuted.                                                            *)

AskMutes(c) ==
    /\ entry = NoEntry /\ check[c].pc = "idle"
    /\ check' = [check EXCEPT ![c].pc = "asked"]
    /\ UNCHANGED <<rows, over, warns, entry, job, table, rules, behind, escalated, jobFailed>>

loadActiveMutes(c) ==
    /\ check[c].pc = "asked"
    /\ check' = [check EXCEPT ![c] = [pc |-> "read", rows |-> Active]]
    /\ UNCHANGED <<rows, over, warns, entry, job, table, rules, behind, escalated, jobFailed>>

\* The table fails: not muted, this once.
CheckFails(c) ==
    /\ check[c].pc = "asked"
    /\ check' = [check EXCEPT ![c].pc = "idle"]
    /\ UNCHANGED <<rows, over, warns, entry, job, table, rules, behind, escalated, jobFailed>>

\* Mutant: one answer serves every message that asks again.
KeepMutesShared(c) ==
    /\ check[c].pc = "read"
    /\ entry' = [rows |-> check[c].rows,
                 at |-> IF check[c].rows \ over = Active THEN "fresh" ELSE "late"]
    /\ UNCHANGED <<rows, over, warns, check, job, table, rules, behind, escalated, jobFailed>>

\* The answer becomes the entry, whatever was invalidated meanwhile.
KeepMutes(c) ==
    /\ check[c].pc = "read"
    /\ entry' = [rows |-> check[c].rows,
                 at |-> IF check[c].rows \ over = Active THEN "fresh" ELSE "late"]
    /\ check' = [check EXCEPT ![c] = [pc |-> "idle", rows |-> {}]]
    /\ UNCHANGED <<rows, over, warns, job, table, rules, behind, escalated, jobFailed>>

\* CACHE_TTL_MS.
EntryAges ==
    /\ entry # NoEntry
    /\ entry' = NoEntry
    /\ UNCHANGED <<rows, over, warns, check, job, table, rules, behind, escalated, jobFailed>>

MuteExpires(m) ==
    /\ m \in rows \ over
    /\ over' = over \cup {m}
    /\ UNCHANGED <<rows, warns, entry, check, job, table, rules, behind, escalated, jobFailed>>

-----------------------------------------------------------------------------
(* Writes.                                                                 *)

\* A rule at "warn" matched: the message is blocked, the rest comes later.
Warn(j) ==
    /\ At(j, "idle") /\ Go(j, "warn")
    /\ UNCHANGED <<rows, over, warns, entry, check, table, rules, behind, escalated, jobFailed>>

\* Mutant: the warning is counted before it is written.
InsertWarnLate(j) ==
    /\ At(j, "warn") /\ warns < MaxWarns
    /\ warns' = warns + 1
    /\ IF warns >= Threshold THEN Go(j, "apply") /\ escalated' = TRUE
                             ELSE Go(j, "idle") /\ UNCHANGED escalated
    /\ UNCHANGED <<rows, over, entry, check, table, rules, behind, jobFailed>>

InsertWarn(j) ==
    /\ At(j, "warn") /\ warns < MaxWarns
    /\ warns' = warns + 1
    /\ Go(j, "count")
    /\ UNCHANGED <<rows, over, entry, check, table, rules, behind, escalated, jobFailed>>

CountWarns(j) ==
    /\ At(j, "count")
    /\ IF warns >= Threshold THEN Go(j, "apply") /\ escalated' = TRUE
                             ELSE Go(j, "idle") /\ UNCHANGED escalated
    /\ UNCHANGED <<rows, over, warns, entry, check, table, rules, behind, jobFailed>>

ClearWarn ==
    /\ warns > 0
    /\ warns' = warns - 1
    /\ UNCHANGED <<rows, over, entry, check, job, table, rules, behind, escalated, jobFailed>>

\* A moderator, or a rule at "mute".
OrderMute(j) ==
    /\ At(j, "idle") /\ Go(j, "apply")
    /\ UNCHANGED <<rows, over, warns, entry, check, table, rules, behind, escalated, jobFailed>>

applyMute(j, m) ==
    /\ At(j, "apply") /\ m \notin rows \cup over
    /\ rows' = rows \cup {m}
    /\ Go(j, "tell")
    /\ UNCHANGED <<over, warns, entry, check, table, rules, behind, escalated, jobFailed>>

removeMute(j, m) ==
    /\ At(j, "idle") /\ m \in rows
    /\ rows' = rows \ {m}
    /\ Go(j, "tell")
    /\ UNCHANGED <<over, warns, entry, check, table, rules, behind, escalated, jobFailed>>

purgeExpiredMutes(j) ==
    /\ At(j, "idle") /\ rows \cap over # {}
    /\ rows' = rows \ over
    /\ Go(j, "tell")
    /\ UNCHANGED <<over, warns, entry, check, table, rules, behind, escalated, jobFailed>>

invalidateMuteCache(j) ==
    /\ At(j, "tell")
    /\ entry' = NoEntry
    /\ Go(j, "idle")
    /\ UNCHANGED <<rows, over, warns, check, table, rules, behind, escalated, jobFailed>>

\* The table fails: the job is given up, and only logged.
JobFails(j) ==
    /\ job[j].pc \in {"warn", "count", "apply"}
    /\ Go(j, "idle")
    /\ jobFailed' = TRUE
    /\ UNCHANGED <<rows, over, warns, entry, check, table, rules, behind, escalated>>

\* The routes of routes/octoguard.ts: a write, then reloadRules.
EditRules(j) ==
    /\ At(j, "idle") /\ table < MaxEdits
    /\ table' = table + 1
    /\ Go(j, "reload")
    /\ UNCHANGED <<rows, over, warns, entry, check, rules, behind, escalated, jobFailed>>

ReadRules(j) ==
    /\ At(j, "reload")
    /\ job' = [job EXCEPT ![j] = [pc |-> "swap", read |-> table]]
    /\ UNCHANGED <<rows, over, warns, entry, check, table, rules, behind, escalated, jobFailed>>

SwapRules(j) ==
    /\ At(j, "swap")
    /\ rules' = job[j].read
    /\ behind' = (job[j].read < table)
    /\ job' = [job EXCEPT ![j] = NoJob]
    /\ UNCHANGED <<rows, over, warns, entry, check, table, escalated, jobFailed>>

\* The query throws after the table was written: the route answers 500.
ReloadFails(j) ==
    /\ At(j, "reload")
    /\ behind' = TRUE
    /\ job' = [job EXCEPT ![j] = NoJob]
    /\ UNCHANGED <<rows, over, warns, entry, check, table, rules, escalated, jobFailed>>

OctoJob(j) ==
    \/ InsertWarn(j) \/ CountWarns(j) \/ invalidateMuteCache(j) \/ ReadRules(j) \/ SwapRules(j)
    \/ \E m \in Mutes : applyMute(j, m)

OctoNext ==
    \/ \E j \in Jobs :
         \/ OctoJob(j) \/ JobFails(j) \/ ReloadFails(j)
         \/ Warn(j) \/ OrderMute(j) \/ purgeExpiredMutes(j) \/ EditRules(j)
         \/ \E m \in Mutes : removeMute(j, m)
    \/ \E c \in Checks : AskMutes(c) \/ loadActiveMutes(c) \/ CheckFails(c) \/ KeepMutes(c)
    \/ \E m \in Mutes : MuteExpires(m)
    \/ EntryAges \/ ClearWarn

OctoSpec == OctoInit /\ [][OctoNext]_octoVars

\* The answers of the database, and a minute.
OctoFairness ==
    /\ \A j \in Jobs : WF_octoVars(OctoJob(j))
    /\ WF_octoVars(EntryAges)

FairOcto == OctoSpec /\ OctoFairness

-----------------------------------------------------------------------------

\* The cache says what the table says once every write has told it, unless the
\* entry was read before the last of them and kept after it.
MuteCacheIsTrue ==
    (entry.at = "fresh" /\ ~Busy({"tell"})) => entry.rows \ over = Active

\* Warnings given at the same moment never miss the threshold between them:
\* each is written before it counts, so the last one to count sees them all.
EscalationNotMissed ==
    (warns >= Threshold /\ Threshold > 0 /\ ~Busy({"count"}) /\ ~jobFailed) => escalated

\* The rules in force are the rules in the table when no edit is under way,
\* unless the reloads of two edits ended in the other order or the last one failed.
RulesAreCurrent == ~Busy({"reload", "swap"}) /\ ~behind => rules = table

\* What is decided in memory agrees with the tables.
ModerationIsCurrent == MuteCacheIsTrue /\ EscalationNotMissed /\ RulesAreCurrent

\* A mute that stays in the table is enforced for good after a while: an answer
\* read before it can be kept over it, even after the entry was invalidated, but
\* only by the checks that were under way then, each once and for a minute.
MuteTakesHold == \A m \in Mutes :
    <>[](m \in Active) => <>[](entry = NoEntry \/ m \in entry.rows)

\* Edits made one after the other or at once, the last one is in force.  (Not
\* kept: see RulesAreCurrent.)
LastEditInForce == ~Busy({"reload", "swap"}) => rules = table

=============================================================================
