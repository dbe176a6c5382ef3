------------------------------- MODULE Backup --------------------------------
(***************************************************************************)
(* Backups and restores: nodyx-core/src/services/backupService.ts with the *)
(* maintenance window of maintenanceService.ts and maintenanceGuard.ts.    *)
(*                                                                         *)
(* Every await on Redis, PostgreSQL or a child process separates two steps *)
(* of a job, so jobs of several administrators interleave, and so do the   *)
(* writes of the users.  The database is the number of its last write, an  *)
(* archive that of the database it was dumped from; 0 is no archive.       *)
(***************************************************************************)
EXTENDS Naturals, FiniteSets

CONSTANTS
    Jobs,       \* slots of requests under way
    Files,      \* archive names; one is taken again once nothing refers to it
    Rows,       \* ids of the table backups
    Ops,        \* what the administrators ask for
    Slow,       \* a job may outlast the lifetimes of the lock and the window
    LateWrites, \* writes may land in the window: the handlers of the sockets
                \* never ask, and a request admitted before it may end in it
    MaxWrites,  \* bound: writes of the users
    MaxCrashes  \* bound: crashes of the process

AllOps == {"create", "restore", "delete", "reindex"}
Free == "free"
Lost == "lost"
None == "none"

ASSUME BackupAssumption ==
    /\ Ops \subseteq AllOps
    /\ {Slow, LateWrites} \subseteq BOOLEAN
    /\ {MaxWrites, MaxCrashes} \subseteq Nat
    /\ {Free, Lost, None} \cap (Jobs \cup Files \cup Rows) = {}

VARIABLES
    lock,       \* backup:lock in Redis; Lost when the holder can no longer release it
    gate,       \* minutes the maintenance flag was last set for, 0 when absent
    disk,       \* BACKUP_DIR: the dump in each archive
    rows,       \* the table backups: <<file, protected>>
    data,       \* the live database
    written,    \* the number of the latest write
    job,
    crashes

vars == <<lock, gate, disk, rows, data, written, job, crashes>>

Versions == 1 .. MaxWrites + 1
Torn == MaxWrites + 2       \* an archive that tar has not finished
Archives == Versions \cup {0, Torn}
Steps == {"acquire", "close", "dump", "archive", "pack", "insert", "unlink", "release",
          "lock", "shut", "yield", "reacquire", "extract", "apply", "finish",
          "clear", "erase", "drop", "scan", "index"}

Idle == [op |-> None, pc |-> "idle"]

\* row: the backup restored or deleted; file: the archive being made, for a
\* restore its snapshot; dump: what pg_dump or tar -x left in the work dir.
JobStates ==
    [op : Ops, pc : Steps, row : Rows \cup {None}, target : Files \cup {None},
     file : Files \cup {None}, dump : Versions \cup {0}, made : BOOLEAN, todo : SUBSET Files]

TypeOK ==
    /\ lock \in Jobs \cup {Free, Lost}
    /\ gate \in {0, 30, 60}
    /\ disk \in [Files -> Archives]
    /\ rows \in [Rows -> (Files \X BOOLEAN) \cup {<<>>}]
    /\ data \in Versions
    /\ written \in Versions
    /\ job \in [Jobs -> JobStates \cup {Idle}]
    /\ crashes \in 0 .. MaxCrashes

Init ==
    /\ lock = Free
    /\ gate = 0
    /\ disk = [f \in Files |-> 0]
    /\ rows = [r \in Rows |-> <<>>]
    /\ data = 1
    /\ written = 1
    /\ job = [j \in Jobs |-> Idle]
    /\ crashes = 0

-----------------------------------------------------------------------------

OnDisk == {f \in Files : disk[f] # 0}
Whole == {f \in Files : disk[f] \in Versions}
Listed == {r \in Rows : rows[r] # <<>>}
Catalogued == {rows[r][1] : r \in Listed}
Protected == {rows[r][1] : r \in {q \in Listed : rows[q][2]}}
Busy == {j \in Jobs : job[j] # Idle}

\* The file name carries the time, so a new archive has a name of its own.
Unused == Files \ (OnDisk \cup Catalogued
                   \cup UNION {{job[j].file, job[j].target} \cup job[j].todo : j \in Busy})

\* Nor is the id of a row: a deletion under way cannot meet another's row.
FreshRows == Rows \ (Listed \cup {job[j].row : j \in Busy})

At(j, pcs) == job[j].pc \in pcs
Goto(j, pc) == job' = [job EXCEPT ![j].pc = pc]
Return(j) == job' = [job EXCEPT ![j] = Idle]

\* createBackup called by restoreBackup, source 'pre-restore'.
Nested(j) == job[j].op = "restore"

Call(op, pc, r, f) ==
    [op |-> op, pc |-> pc, row |-> r, target |-> f, file |-> None, dump |-> 0,
     made |-> FALSE, todo |-> {}]

-----------------------------------------------------------------------------
(* The routes: what an administrator may start.                            *)

StartCreate(j) ==
    /\ job[j] = Idle
    /\ "create" \in Ops
    /\ job' = [job EXCEPT ![j] = Call("create", "acquire", None, None)]
    /\ UNCHANGED <<lock, gate, disk, rows, data, written, crashes>>

\* restoreBackup goes on only with an archive that verifyBackup found whole.
StartRestore(j, r) ==
    /\ job[j] = Idle
    /\ "restore" \in Ops
    /\ r \in Listed
    /\ rows[r][1] \in Whole
    /\ job' = [job EXCEPT ![j] = Call("restore", "lock", r, rows[r][1])]
    /\ UNCHANGED <<lock, gate, disk, rows, data, written, crashes>>

\* deleteBackup takes no lock; a protected backup is refused.
StartDelete(j, r) ==
    /\ job[j] = Idle
    /\ "delete" \in Ops
    /\ r \in Listed
    /\ ~rows[r][2]
    /\ job' = [job EXCEPT ![j] = Call("delete", "erase", r, rows[r][1])]
    /\ UNCHANGED <<lock, gate, disk, rows, data, written, crashes>>

\* reindexBackups reads the directory, then the table.
StartReindex(j) ==
    /\ job[j] = Idle
    /\ "reindex" \in Ops
    /\ job' = [job EXCEPT ![j] = [Call("reindex", "scan", None, None)
                                    EXCEPT !.todo = OnDisk]]
    /\ UNCHANGED <<lock, gate, disk, rows, data, written, crashes>>

-----------------------------------------------------------------------------
(* The lock and the maintenance window.                                    *)

\* acquireLock: SET NX.
Acquire(j) ==
    /\ At(j, {"acquire", "lock", "reacquire"})
    /\ lock = Free
    /\ lock' = j
    /\ Goto(j, CASE At(j, {"acquire"}) -> "close"
                 [] At(j, {"lock"}) -> "shut"
                 [] OTHER -> "extract")
    /\ UNCHANGED <<gate, disk, rows, data, written, crashes>>

\* Another job has the lock, or Redis fails: the job ends; inside a restore it
\* runs the finally of the restore.
Refused(j) ==
    /\ At(j, {"acquire", "lock", "reacquire"})
    /\ IF Nested(j) /\ ~At(j, {"lock"}) THEN Goto(j, "finish") ELSE Return(j)
    /\ UNCHANGED <<lock, gate, disk, rows, data, written, crashes>>

\* setMaintenance: 30 minutes for a backup, the snapshot of a restore
\* included, 60 for a restore; the later call replaces the earlier.
SetMaintenance(j) ==
    /\ At(j, {"close", "shut"})
    /\ gate' = IF At(j, {"close"}) THEN 30 ELSE 60
    /\ Goto(j, IF At(j, {"close"}) THEN "dump" ELSE "yield")
    /\ UNCHANGED <<lock, disk, rows, data, written, crashes>>

\* Redis fails it before the try block: nobody will release this lock.
MaintenanceFails(j) ==
    /\ At(j, {"close", "shut"})
    /\ lock' = IF lock = j THEN Lost ELSE lock
    /\ IF Nested(j) /\ At(j, {"close"}) THEN Goto(j, "finish") ELSE Return(j)
    /\ UNCHANGED <<gate, disk, rows, data, written, crashes>>

\* Mutant: releaseLock deletes the key whoever holds it.
UnlockAny(j) == lock' = Free

\* releaseLock deletes the key only if it still holds our id.
Unlock(j) == lock' = IF lock = j THEN Free ELSE lock

\* A restore yields the lock to its snapshot and takes it back if that was made.
AfterRelease(j) ==
    CASE At(j, {"yield"}) -> "acquire"
      [] At(j, {"release"}) /\ Nested(j) -> IF job[j].made THEN "reacquire" ELSE "finish"
      [] OTHER -> "clear"

\* Mutant: the snapshot of a restore ends the window like any backup.
ReleaseClears(j) ==
    /\ At(j, {"yield", "release", "finish"})
    /\ Unlock(j)
    /\ gate' = IF At(j, {"release"}) THEN 0 ELSE gate
    /\ Goto(j, AfterRelease(j))
    /\ UNCHANGED <<disk, rows, data, written, crashes>>

\* The lock is released at the start of the snapshot and in the two finally
\* blocks.
Release(j) ==
    /\ At(j, {"yield", "release", "finish"})
    /\ Unlock(j)
    /\ Goto(j, AfterRelease(j))
    /\ UNCHANGED <<gate, disk, rows, data, written, crashes>>

\* Redis fails the release: the exception leaves the try block of a restore or
\* a finally block, past what follows, and only the lifetimes are left.
ReleaseFails(j) ==
    /\ At(j, {"yield", "release", "finish"})
    /\ lock' = IF lock = j /\ ~At(j, {"yield"}) THEN Lost ELSE lock
    /\ IF At(j, {"yield"}) \/ (Nested(j) /\ At(j, {"release"}))
       THEN Goto(j, "finish") ELSE Return(j)
    /\ UNCHANGED <<gate, disk, rows, data, written, crashes>>

\* clearMaintenance deletes the flag, whoever set it.
Clear(j) ==
    /\ At(j, {"clear"})
    /\ gate' = 0
    /\ Return(j)
    /\ UNCHANGED <<lock, disk, rows, data, written, crashes>>

\* Redis fails it: the exception is swallowed.
ClearFails(j) ==
    /\ At(j, {"clear"})
    /\ Return(j)
    /\ UNCHANGED <<lock, gate, disk, rows, data, written, crashes>>

\* A job between its setMaintenance and its clearMaintenance.
InWindow(j) ==
    \/ At(j, {"dump", "archive", "pack", "insert", "unlink", "release", "yield",
              "reacquire", "extract", "apply", "finish", "clear"})
    \/ At(j, {"acquire", "close"}) /\ Nested(j)

LockExpires ==
    /\ lock # Free
    /\ lock = Lost \/ Slow
    /\ lock' = Free
    /\ UNCHANGED <<gate, disk, rows, data, written, job, crashes>>

\* Mutant: the maintenance flag is set without a lifetime.
GateForEver ==
    /\ FALSE
    /\ UNCHANGED vars

GateExpires ==
    /\ gate # 0
    /\ Slow \/ \A j \in Jobs : ~InWindow(j)
    /\ gate' = 0
    /\ UNCHANGED <<lock, disk, rows, data, written, job, crashes>>

-----------------------------------------------------------------------------
(* createBackup.                                                           *)

Dump(j) ==
    /\ At(j, {"dump"})
    /\ job' = [job EXCEPT ![j].pc = "archive", ![j].dump = data]
    /\ UNCHANGED <<lock, gate, disk, rows, data, written, crashes>>

\* tar creates the archive, then fills it.
Archive(j) ==
    /\ At(j, {"archive"})
    /\ \E f \in Unused :
         /\ disk' = [disk EXCEPT ![f] = Torn]
         /\ job' = [job EXCEPT ![j].pc = "pack", ![j].file = f]
    /\ UNCHANGED <<lock, gate, rows, data, written, crashes>>

\* An archive erased under tar has no name any more.
Pack(j) ==
    /\ At(j, {"pack"})
    /\ disk' = [disk EXCEPT ![job[j].file] = IF @ = Torn THEN job[j].dump ELSE @]
    /\ Goto(j, "insert")
    /\ UNCHANGED <<lock, gate, rows, data, written, crashes>>

\* Mutant: no backup is protected.
AddPlainRow(f, protected) ==
    \E r \in FreshRows : rows' = [rows EXCEPT ![r] = <<f, FALSE>>]

AddRow(f, protected) ==
    \E r \in FreshRows : rows' = [rows EXCEPT ![r] = <<f, protected>>]

InsertRow(j) ==
    /\ At(j, {"insert"})
    /\ AddRow(job[j].file, Nested(j))
    /\ job' = [job EXCEPT ![j].pc = "release", ![j].made = TRUE]
    /\ UNCHANGED <<lock, gate, disk, data, written, crashes>>

\* The disk is full, a command or a query fails: the catch and finally blocks
\* of a backup and a restore, the end of a deletion or a reindexation.
Fails(j) ==
    /\ \/ /\ At(j, {"dump", "archive", "pack", "insert", "extract", "apply"})
          /\ Goto(j, CASE At(j, {"pack", "insert"}) -> "unlink"
                       [] At(j, {"dump", "archive"}) -> "release"
                       [] OTHER -> "finish")
       \/ At(j, {"erase", "drop", "scan"}) /\ Return(j)
    /\ UNCHANGED <<lock, gate, disk, rows, data, written, crashes>>

\* Mutant: the catch block leaves the archive behind.
UnlinkForgets(j) ==
    /\ At(j, {"unlink"})
    /\ Goto(j, "release")
    /\ UNCHANGED <<lock, gate, disk, rows, data, written, crashes>>

\* Best effort in the code; a failure of the clean-up itself is left out.
Unlink(j) ==
    /\ At(j, {"unlink"})
    /\ disk' = [disk EXCEPT ![job[j].file] = 0]
    /\ Goto(j, "release")
    /\ UNCHANGED <<lock, gate, rows, data, written, crashes>>

-----------------------------------------------------------------------------
(* restoreBackup, after its snapshot.                                      *)

\* Mutant: an archive deleted meanwhile is not noticed.
ExtractUnchecked(j) ==
    /\ At(j, {"extract"})
    /\ job' = [job EXCEPT ![j].pc = "apply", ![j].dump = disk[job[j].target]]
    /\ UNCHANGED <<lock, gate, disk, rows, data, written, crashes>>

Extract(j) ==
    /\ At(j, {"extract"})
    /\ job[j].target \in Whole
    /\ job' = [job EXCEPT ![j].pc = "apply", ![j].dump = disk[job[j].target]]
    /\ UNCHANGED <<lock, gate, disk, rows, data, written, crashes>>

\* pg_restore in one transaction; the dump holds no table of the backups.
Apply(j) ==
    /\ At(j, {"apply"})
    /\ data' = job[j].dump
    /\ Goto(j, "finish")
    /\ UNCHANGED <<lock, gate, disk, rows, written, crashes>>

-----------------------------------------------------------------------------
(* deleteBackup and reindexBackups.                                        *)

Erase(j) ==
    /\ At(j, {"erase"})
    /\ disk' = [disk EXCEPT ![job[j].target] = 0]
    /\ Goto(j, "drop")
    /\ UNCHANGED <<lock, gate, rows, data, written, crashes>>

Drop(j) ==
    /\ At(j, {"drop"})
    /\ rows' = [rows EXCEPT ![job[j].row] = <<>>]
    /\ Return(j)
    /\ UNCHANGED <<lock, gate, disk, data, written, crashes>>

Proceed(j, left) ==
    job' = [job EXCEPT ![j] = IF left = {} THEN Idle
                              ELSE [job[j] EXCEPT !.pc = "index", !.todo = left]]

Scan(j) ==
    /\ At(j, {"scan"})
    /\ Proceed(j, job[j].todo \ Catalogued)
    /\ UNCHANGED <<lock, gate, disk, rows, data, written, crashes>>

\* The INSERT; ON CONFLICT DO NOTHING never applies, as filename is not unique
\* in the table.  An archive whose manifest, the first entry, cannot be read,
\* or whose query fails, is skipped.
Index(j) ==
    /\ At(j, {"index"})
    /\ \E f \in job[j].todo :
         /\ \/ f \in OnDisk /\ AddRow(f, FALSE)
            \/ UNCHANGED rows
         /\ Proceed(j, job[j].todo \ {f})
    /\ UNCHANGED <<lock, gate, disk, data, written, crashes>>

-----------------------------------------------------------------------------
(* The users and the process.                                              *)

Write ==
    /\ written <= MaxWrites
    /\ gate = 0 \/ LateWrites
    /\ written' = written + 1
    /\ data' = written + 1
    /\ UNCHANGED <<lock, gate, disk, rows, job, crashes>>

\* The process dies: its jobs stop where they are, Redis and the disk stay.
Crash ==
    /\ crashes < MaxCrashes
    /\ crashes' = crashes + 1
    /\ job' = [j \in Jobs |-> Idle]
    /\ lock' = IF lock = Free THEN Free ELSE Lost
    /\ UNCHANGED <<gate, disk, rows, data, written>>

\* What the process does of itself once a request is in.
Work(j) ==
    \/ Acquire(j) \/ Refused(j) \/ SetMaintenance(j) \/ MaintenanceFails(j)
    \/ Release(j) \/ ReleaseFails(j) \/ Clear(j) \/ ClearFails(j)
    \/ Dump(j) \/ Archive(j) \/ Pack(j) \/ InsertRow(j) \/ Fails(j) \/ Unlink(j)
    \/ Extract(j) \/ Apply(j)
    \/ Erase(j) \/ Drop(j) \/ Scan(j) \/ Index(j)

Next ==
    \/ \E j \in Jobs : Work(j) \/ StartCreate(j) \/ StartReindex(j)
    \/ \E j \in Jobs, r \in Rows : StartRestore(j, r) \/ StartDelete(j, r)
    \/ LockExpires \/ GateExpires
    \/ Write \/ Crash

Spec == Init /\ [][Next]_vars

\* A job that started goes on, Redis expires its keys, and it does not fail
\* the same deletion for ever.
FairSpec ==
    /\ Spec
    /\ \A j \in Jobs : WF_vars(Work(j))
    /\ \A j \in Jobs, pc \in {"release", "finish", "clear"} :
          SF_vars(At(j, {pc}) /\ (Release(j) \/ Clear(j)))
    /\ WF_vars(LockExpires)
    /\ WF_vars(GateExpires)

-----------------------------------------------------------------------------

Working == {"dump", "archive", "pack", "insert", "unlink", "extract", "apply"}

\* Two backups, or a backup and a restore, never work at once.
JobsExclude ==
    \A i, j \in Jobs : At(i, Working) /\ At(j, Working) => i = j

\* The lock is held by a job that will release it, or was lost with its
\* holder: no path through the catch and finally blocks forgets it.
LockOwnerRuns ==
    lock \in Jobs => At(lock, Working \cup {"close", "shut", "yield", "release", "finish"})

\* The lock does what it is for: one job at a time, and a release in the end.
LockGuards == JobsExclude /\ LockOwnerRuns

\* Users cannot write while a backup is being made or a restore applied.
GateCoversWork == \A j \in Jobs : At(j, Working) => gate # 0

\* A restore overwrites nothing that its snapshot does not hold: what it
\* replaces can be restored in turn.
NoLostWrite ==
    [][\A j \in Jobs : Apply(j) => data = disk[job[j].file]]_vars

\* From its creation to the end of the restore the snapshot is whole and
\* protected.
SafetyNet ==
    \A j \in Jobs :
        At(j, {"extract", "apply"}) => job[j].file \in Whole \cap Protected

\* At rest every archive of the directory is whole and listed, whatever failed
\* on the way, unless the process died.  A deletion may fail half way, after
\* the archive and before its row: the converse is not promised.
NoOrphanArchive ==
    Busy = {} /\ crashes = 0 => OnDisk \subseteq Whole \cap Catalogued

\* An archive is listed once.
OneRowPerArchive ==
    \A q, r \in Listed : rows[q][1] = rows[r][1] => q = r

\* A restore works under the window of its own length.
RestoreBelt == \A j \in Jobs : At(j, {"extract", "apply"}) /\ gate # 0 => gate = 60

\* No failure and no crash closes the instance to its users for ever.
GateReopens == gate # 0 ~> gate = 0

\* Nor does one keep backups from being made for ever.
LockFreed == lock # Free ~> lock = Free

\* The instance comes back from failures and crashes.
InstanceRecovers == GateReopens /\ LockFreed

=============================================================================
