-------------------------- MODULE WitnessCompaction --------------------------
(***************************************************************************)
(* Witness pruning of block files (src/node/blockstorage.cpp, driven by    *)
(* Chainstate::FlushStateToDisk in src/validation.cpp): old blk files are  *)
(* rewritten without witness data, one file per flush, in three stages     *)
(* around the block index commit, and repaired at startup after a crash.   *)
(*                                                                         *)
(* A flush holds cs_main from its first step to its last, so its steps are *)
(* the values of pc; between any two of them the process may be killed or  *)
(* the machine may lose power.  A directory entry is durable once the      *)
(* blocks directory has been synced: dirs holds every state of the         *)
(* directory since the last sync, any of which may be found after a power  *)
(* loss.  Every block of a file is handled alike by every step, so a       *)
(* file's index entries (positions and the witness-pruned status bit) are  *)
(* one flag per file.                                                      *)
(***************************************************************************)
EXTENDS Integers

CONSTANTS
    MaxFile,       \* block files are numbered 0..MaxFile
    EmptyFiles,    \* files with nSize = 0: removed by ordinary pruning
    HeightLast,    \* nHeightLast of each file
    Depth,         \* witness_prune_depth
    MaxHeight,     \* bound on the height of the chain
    MaxFaults      \* bound on the number of failing I/O calls

Files == 0..MaxFile
DataFiles == Files \ EmptyFiles

ASSUME FileAssumption ==
    /\ MaxFile \in Nat
    /\ EmptyFiles \subseteq Files
    /\ HeightLast \in [Files -> Nat]
    /\ Depth \in Nat
    /\ MaxHeight \in Nat
    /\ MaxFaults \in Nat

\* The canonical file, the compacted copy (.wpruned) and the rollback copy
\* (.wfull), and what each may hold.
Names == {"blk", "temp", "backup"}
Contents == {"none", "writing", "torn", "full", "stripped"}
Directories == [Files -> [Names -> Contents]]

Stages == {"none", "prepared", "installed"}

VARIABLES
    dir,         \* the blocks directory as the running system sees it
    dirs,        \* its states since the last directory sync
    index,       \* block index on disk: is the file witness-pruned?
    flag,        \* the "witnessespruned" flag on disk
    mem,         \* block index in memory (m_block_index)
    have,        \* m_have_witness_pruned
    write_flag,  \* m_write_witness_pruned_flag
    pending,     \* m_pending_witness_compaction: the file and the stage
    watermark,   \* m_witness_pruned_up_to_file
    check,       \* m_check_for_witness_pruning
    height,      \* height of the active chain
    pc,          \* the next step of the flush or of the startup
    faults       \* I/O calls that have failed

diskvars == <<dir, dirs>>
dbvars == <<index, flag>>
memvars == <<mem, have, write_flag>>
taskvars == <<pending, watermark, check>>
vars == <<diskvars, dbvars, memvars, taskvars, height, pc, faults>>

NoPending == [file |-> 0, stage |-> "none"]

Init ==
    /\ dir = [f \in Files |-> [n \in Names |->
                 IF n = "blk" /\ f \in DataFiles THEN "full" ELSE "none"]]
    /\ dirs = {dir}
    /\ index = [f \in Files |-> FALSE]
    /\ flag = FALSE
    /\ mem = index
    /\ have = FALSE
    /\ write_flag = FALSE
    /\ pending = NoPending
    /\ watermark = -1
    /\ check = TRUE
    /\ height = 0
    /\ pc = "idle"
    /\ faults = 0

-----------------------------------------------------------------------------
(* Directory operations, each with the ways it may fail.                   *)

Renamed(d, f, from, to) == [d EXCEPT ![f][to] = d[f][from], ![f][from] = "none"]
Removed(d, f, name) == [d EXCEPT ![f][name] = "none"]

\* The directory becomes d and is synced.
Synced(d) == dir' = d /\ dirs' = {d}

\* The directory becomes d, which is not known to be durable.
Unsynced(d) == dir' = d /\ dirs' = dirs \cup {d}

Fault == faults < MaxFaults /\ faults' = faults + 1

\* RenameWitnessCompactionFile returns true.
RenameOk(f, from, to) ==
    /\ dir[f][from] # "none"
    /\ Synced(Renamed(dir, f, from, to))
    /\ UNCHANGED faults

\* It returns false: there is no such file, the rename fails, or the rename
\* is done and the directory sync fails.
RenameFails(f, from, to) ==
    \/ dir[f][from] = "none" /\ UNCHANGED <<diskvars, faults>>
    \/ Fault /\ UNCHANGED diskvars
    \/ dir[f][from] # "none" /\ Fault /\ Unsynced(Renamed(dir, f, from, to))

-----------------------------------------------------------------------------
(* PrepareWitnessCompaction.                                               *)

Eligible(f) == f \in DataFiles /\ HeightLast[f] <= height - Depth

\* Files the watermark may move over.
Passable(f) == f \in EmptyFiles \/ (Eligible(f) /\ mem[f])

MutAdvanced_Jump ==
    CHOOSE w \in watermark..MaxFile :
        /\ w = watermark \/ Passable(w)
        /\ \A v \in (w + 1)..MaxFile : ~Passable(v)

\* The watermark after the scan: it moves over an unbroken run of files.
Advanced ==
    CHOOSE w \in watermark..MaxFile :
        /\ \A f \in (watermark + 1)..w : Passable(f)
        /\ w < MaxFile => ~Passable(w + 1)

MutCandidates_OneOff == {f \in (watermark + 2)..MaxFile : Eligible(f) /\ ~mem[f]}

Candidates == {f \in (watermark + 1)..MaxFile : Eligible(f) /\ ~mem[f]}
Target == CHOOSE f \in Candidates : \A g \in Candidates : f <= g

\* What FlushStateToDisk does next when nothing is pending: it may or may not
\* have another reason to write.
WriteOrNot == pc' \in {"idle", "install"}

\* Nothing to prepare: the request is served all the same.
PrepareNothing ==
    /\ pc = "idle"
    /\ check
    /\ \/ /\ height < Depth \/ pending.stage # "none"
          /\ UNCHANGED watermark
       \/ /\ height >= Depth /\ pending.stage = "none"
          /\ Candidates = {}
          /\ watermark' = Advanced
    /\ check' = FALSE
    /\ IF pending.stage # "none" THEN pc' = "install" ELSE WriteOrNot
    /\ UNCHANGED <<diskvars, dbvars, memvars, pending, height, faults>>

\* A file is selected, a temp file from before is removed and a new one opened,
\* unless fopen fails, perhaps for the reason the removal did.
PrepareOpen ==
    /\ pc = "idle"
    /\ check
    /\ height >= Depth /\ pending.stage = "none"
    /\ Candidates # {}
    /\ dir[Target]["backup"] = "none"
    /\ watermark' = Advanced
    /\ \/ /\ Unsynced([dir EXCEPT ![Target]["temp"] = "writing"])
          /\ pending' = [file |-> Target, stage |-> "none"]
          /\ pc' = "prepare"
          /\ UNCHANGED faults
       \/ /\ Fault
          /\ \E d \in {dir, Removed(dir, Target, "temp")} : Unsynced(d)
          /\ WriteOrNot
          /\ UNCHANGED pending
    /\ UNCHANGED <<dbvars, memvars, check, height>>

\* The content of a file under that name in d, once its writer is done.
Settled(d, c) ==
    [f \in Files |-> [n \in Names |-> IF d[f][n] = "writing" THEN c ELSE d[f][n]]]

\* The blocks are read from the canonical file and written without their
\* witnesses, the file is fsynced and closed; when one of these fails the temp
\* file is removed, or left behind if that fails too.  In a file that is
\* stripped already only the first block is found where the index has it, so
\* the reading fails unless there is no other.
PrepareWrite ==
    /\ pc = "prepare"
    /\ \/ /\ dir[pending.file]["blk"] # "none"
          /\ dir' = Settled(dir, "stripped")
          /\ dirs' = {Settled(d, "stripped") : d \in dirs}
          /\ pending' = [pending EXCEPT !.stage = "prepared"]
          /\ check' = FALSE
          /\ pc' = "install"
          /\ UNCHANGED faults
       \/ /\ IF dir[pending.file]["blk"] = "full" THEN Fault ELSE UNCHANGED faults
          /\ \/ Unsynced(Removed(dir, pending.file, "temp"))
             \/ dir' = Settled(dir, "torn") /\ dirs' = {Settled(d, "torn") : d \in dirs}
          /\ pending' = NoPending
          /\ WriteOrNot
          /\ UNCHANGED check
    /\ UNCHANGED <<dbvars, memvars, watermark, height>>

\* A flush that does not look at witness pruning: no request, or background
\* validation is running.
FlushOnly ==
    /\ pc = "idle"
    /\ pc' = "install"
    /\ UNCHANGED <<diskvars, dbvars, memvars, taskvars, height, faults>>

-----------------------------------------------------------------------------
(* InstallWitnessCompaction.  When it fails, FlushStateToDisk returns a     *)
(* fatal error; the process is asked to shut down, and flushes again while  *)
(* it does.                                                                 *)

InstallSkip ==
    /\ pc = "install"
    /\ pending.stage # "prepared"
    /\ pc' = "index"
    /\ UNCHANGED <<diskvars, dbvars, memvars, taskvars, height, faults>>

MutInstallBackup_Remove ==
    /\ pc = "install"
    /\ pending.stage = "prepared"
    /\ Synced(Removed(dir, pending.file, "blk"))
    /\ pc' = "handoff"
    /\ UNCHANGED <<dbvars, memvars, taskvars, height, faults>>

\* The canonical file is set aside.
InstallBackup ==
    /\ pc = "install"
    /\ pending.stage = "prepared"
    /\ \/ RenameOk(pending.file, "blk", "backup") /\ pc' = "handoff"
       \/ RenameFails(pending.file, "blk", "backup") /\ pc' = "idle"
    /\ UNCHANGED <<dbvars, memvars, taskvars, height>>

\* The compacted copy takes its place, and the index in memory follows.
InstallRename ==
    /\ pc = "handoff"
    /\ \/ /\ RenameOk(pending.file, "temp", "blk")
          /\ mem' = [mem EXCEPT ![pending.file] = TRUE]
          /\ write_flag' = (write_flag \/ ~have)
          /\ pending' = [pending EXCEPT !.stage = "installed"]
          /\ pc' = "index"
       \/ /\ RenameFails(pending.file, "temp", "blk")
          /\ pc' = "rollback"
          /\ UNCHANGED <<mem, write_flag, pending>>
    /\ UNCHANGED <<dbvars, have, watermark, check, height>>

\* rollback_install, first the rename, whatever comes of it, ...
RollbackRename ==
    /\ pc = "rollback"
    /\ \/ RenameOk(pending.file, "backup", "blk")
       \/ RenameFails(pending.file, "backup", "blk")
    /\ pc' = "cleanup"
    /\ UNCHANGED <<dbvars, memvars, taskvars, height>>

\* ... then the temp file.
RollbackRemove ==
    /\ pc = "cleanup"
    /\ \/ Unsynced(Removed(dir, pending.file, "temp")) /\ UNCHANGED faults
       \/ Fault /\ UNCHANGED diskvars
    /\ pc' = "idle"
    /\ UNCHANGED <<dbvars, memvars, taskvars, height>>

-----------------------------------------------------------------------------
(* The index commit and FinalizeWitnessCompaction.                          *)

MutWriteIndex_IgnoreFailure ==
    /\ pc = "index"
    /\ \/ index' = mem /\ flag' = (flag \/ write_flag) /\ UNCHANGED faults
       \/ Fault /\ UNCHANGED dbvars
    /\ have' = (have \/ write_flag)
    /\ write_flag' = FALSE
    /\ pc' = "finalize"
    /\ UNCHANGED <<diskvars, mem, taskvars, height>>

MutWriteIndex_FlagLater ==
    /\ pc = "index"
    /\ index' = mem
    /\ flag' = have
    /\ have' = (have \/ write_flag)
    /\ write_flag' = FALSE
    /\ pc' = "finalize"
    /\ UNCHANGED <<diskvars, mem, taskvars, height, faults>>

\* WriteBlockIndexDB: one synced batch for the index entries and the flag.
\* A batch that is reported as failed may have reached the disk.
WriteBlockIndexDB ==
    /\ pc = "index"
    /\ \/ /\ index' = mem /\ flag' = (flag \/ write_flag)
          /\ have' = (have \/ write_flag)
          /\ write_flag' = FALSE
          /\ pc' = "finalize"
          /\ UNCHANGED faults
       \/ /\ Fault
          /\ \/ UNCHANGED dbvars
             \/ index' = mem /\ flag' = (flag \/ write_flag)
          /\ pc' = "idle"
          /\ UNCHANGED <<have, write_flag>>
    /\ UNCHANGED <<diskvars, mem, taskvars, height>>

MutFinalize_NextFile ==
    /\ pc = "finalize"
    /\ pc' = "idle"
    /\ IF pending.stage = "installed"
       THEN /\ Synced(Removed(dir, pending.file, "backup"))
            /\ watermark' = pending.file + 1
            /\ pending' = NoPending
       ELSE UNCHANGED <<diskvars, watermark, pending>>
    /\ UNCHANGED <<dbvars, memvars, check, height, faults>>

MutFinalize_ResetFirst ==
    /\ pc = "finalize"
    /\ pc' = "idle"
    /\ \/ Synced(Removed(dir, pending.file, "backup")) /\ UNCHANGED faults
       \/ Fault /\ UNCHANGED diskvars
    /\ pending' = NoPending
    /\ UNCHANGED <<dbvars, memvars, watermark, check, height>>

FinalizeWitnessCompaction ==
    /\ pc = "finalize"
    /\ pc' = "idle"
    /\ \/ /\ pending.stage = "none"
          /\ UNCHANGED <<diskvars, faults, watermark, pending>>
       \/ /\ pending.stage = "installed"
          /\ Synced(Removed(dir, pending.file, "backup"))
          /\ watermark' = IF pending.file = watermark + 1
                          THEN pending.file ELSE watermark
          /\ pending' = NoPending
          /\ UNCHANGED faults
       \/ /\ pending.stage = "installed"
          /\ Fault
          /\ \/ UNCHANGED diskvars
             \/ Unsynced(Removed(dir, pending.file, "backup"))
          /\ UNCHANGED <<watermark, pending>>
    /\ UNCHANGED <<dbvars, memvars, check, height>>

\* ConnectTip asks for a check.  (At the bound the chain still grows, but no
\* other file falls behind the depth.)
ConnectTip ==
    /\ pc = "idle"
    /\ height' = IF height < MaxHeight THEN height + 1 ELSE height
    /\ check' = TRUE
    /\ UNCHANGED <<diskvars, dbvars, memvars, pending, watermark, pc, faults>>

-----------------------------------------------------------------------------
(* Crashes, and LoadBlockIndexDB with RecoverPendingWitnessCompactions.     *)

\* What is in memory is lost; the index is read again from the database.
LoseMemory ==
    /\ mem' = index
    /\ have' = flag
    /\ write_flag' = FALSE
    /\ pending' = NoPending
    /\ watermark' = -1
    /\ check' = TRUE
    /\ pc' = "startup"
    /\ UNCHANGED <<dbvars, height, faults>>

\* The process ends, or is killed, and is started again.
Kill ==
    /\ pc \notin {"startup", "failed"}
    /\ dir' = Settled(dir, "torn")
    /\ dirs' = {Settled(d, "torn") : d \in dirs}
    /\ LoseMemory

\* The machine loses power: the directory comes back in any state it has had
\* since it was last synced.
PowerLoss ==
    /\ pc # "failed"
    /\ \E d \in dirs : Synced(Settled(d, "torn"))
    /\ LoseMemory

\* Started with -reindex, InitAndLoadChainstate looks at the flag and at nothing
\* else; past this guard the index is wiped and the recovery is not run.
ReindexRefused == flag

Leftover(f) == dir[f]["temp"] # "none" \/ dir[f]["backup"] # "none"

\* Whether the recovery gives up on the files e.
RecoveryThrows(e, pruned) ==
    /\ e["backup"] # "none"
    /\ pruned
    /\ e["temp"] # "none" \/ e["blk"] = "none"

MutRecovered_KeepInstalled(e, pruned) ==
    [n \in Names |-> IF n # "blk" THEN "none"
                     ELSE IF e["blk"] # "none" THEN e["blk"] ELSE e["backup"]]

\* The files the recovery makes of e, by whether the index says they are
\* pruned: keep or roll back an installed file, keep or adopt a temp file.
Recovered(e, pruned) ==
    [n \in Names |->
        IF n # "blk" THEN "none"
        ELSE IF e["backup"] # "none" THEN (IF pruned THEN e["blk"] ELSE e["backup"])
        ELSE IF pruned THEN e["temp"] ELSE e["blk"]]

\* One round of the recovery loop.  Only the removal of a stale temp file is
\* not followed by a directory sync.  An I/O error ends the startup, which is
\* then tried again.
RecoverFile(f) ==
    LET new == [dir EXCEPT ![f] = Recovered(dir[f], index[f])]
        stale == dir[f]["backup"] = "none" /\ ~index[f]
        partial == IF index[f] THEN dir ELSE Removed(dir, f, "temp")
    IN  /\ pc = "startup"
        /\ Leftover(f)
        /\ ~RecoveryThrows(dir[f], index[f])
        /\ \/ /\ IF stale THEN Unsynced(new) ELSE Synced(new)
              /\ UNCHANGED faults
           \/ Fault /\ \E d \in {dir, partial, new} : Unsynced(d)
        /\ UNCHANGED <<dbvars, memvars, taskvars, height, pc>>

MissingFile == \E f \in DataFiles : dir[f]["blk"] = "none"

\* The end of the startup: every file with indexed blocks must be there.
StartupEnds ==
    /\ pc = "startup"
    /\ pc' = IF \E f \in Files : RecoveryThrows(dir[f], index[f])
             THEN "failed"
             ELSE IF MissingFile THEN "failed" ELSE "idle"
    /\ \/ \A f \in Files : ~Leftover(f)
       \/ \E f \in Files : RecoveryThrows(dir[f], index[f])
    /\ UNCHANGED <<diskvars, dbvars, memvars, taskvars, height, faults>>

Next ==
    \/ PrepareNothing \/ PrepareOpen \/ PrepareWrite \/ FlushOnly
    \/ InstallSkip \/ InstallBackup \/ InstallRename
    \/ RollbackRename \/ RollbackRemove
    \/ WriteBlockIndexDB \/ FinalizeWitnessCompaction
    \/ ConnectTip
    \/ Kill \/ PowerLoss
    \/ \E f \in Files : RecoverFile(f)
    \/ StartupEnds

\* A failed flush has left a hand-off behind and the node shuts down.
Failed == pc = "idle" /\ pending.stage # "none"

FlushStep ==
    \/ PrepareWrite
    \/ InstallSkip \/ InstallBackup \/ InstallRename \/ RollbackRename \/ RollbackRemove
    \/ WriteBlockIndexDB \/ FinalizeWitnessCompaction

StartupStep == StartupEnds \/ \E f \in Files : RecoverFile(f)

\* A flush or a startup that has begun goes on.  Blocks are connected again and
\* again; each is followed by a flush, which looks at witness pruning unless
\* background validation is running, and that comes to an end.  A node with a
\* fatal error is restarted.
Fairness ==
    /\ WF_vars(FlushStep) /\ WF_vars(StartupStep)
    /\ SF_vars(ConnectTip) /\ SF_vars(PrepareNothing \/ PrepareOpen)
    /\ SF_vars(Failed /\ Kill)

Spec == Init /\ [][Next]_vars /\ Fairness

-----------------------------------------------------------------------------
(* Properties.                                                             *)

HasStripped == \E f \in DataFiles : dir[f]["blk"] = "stripped"

PCs == {"idle", "prepare", "install", "handoff", "rollback", "cleanup", "index",
        "finalize", "startup", "failed"}

\* Every variable has its type.
TypeOK ==
    /\ dir \in Directories
    /\ dirs \subseteq Directories
    /\ dir \in dirs
    /\ index \in [Files -> BOOLEAN]
    /\ mem \in [Files -> BOOLEAN]
    /\ flag \in BOOLEAN /\ have \in BOOLEAN /\ write_flag \in BOOLEAN
    /\ pending \in [file : Files, stage : Stages]
    /\ watermark \in -1..MaxFile
    /\ check \in BOOLEAN
    /\ height \in 0..MaxHeight
    /\ pc \in PCs
    /\ faults \in 0..MaxFaults

\* The startup recovery never gives up, and never finds a block file missing,
\* whatever the moment of the crash (the exceptions of
\* RecoverPendingWitnessCompactions are for directories this code has not
\* left behind).
StartupSucceeds == pc # "failed"

\* Between flushes, with no hand-off open, the canonical file of every
\* indexed block is the one the index in memory describes: stripped where the
\* entries are marked witness-pruned, complete where they are not.
IndexMatchesFiles ==
    pc = "idle" /\ pending.stage = "none" =>
        \A f \in DataFiles : dir[f]["blk"] = IF mem[f] THEN "stripped" ELSE "full"

\* The rollback copy is only given up for an index on disk that no longer
\* needs it: until then some durable copy has the witnesses
\* (blockstorage.h: "Remove the rollback backup after block index DB commit").
WitnessesKept ==
    \A f \in DataFiles : ~index[f] =>
        \A d \in dirs : \E n \in {"blk", "backup"} : d[f][n] = "full"

\* A node that is between flushes, with no hand-off open, can be stopped and
\* started again with -reindex: when it has a stripped file the guard of
\* init.cpp finds the flag on disk.
FlagInTime ==
    pc = "idle" /\ pending.stage = "none" /\ HasStripped => ReindexRefused

\* "Cannot use -reindex on a node that has pruned witness data. Witness-pruned
\* block index flags would be lost, causing data corruption" (init.cpp): however
\* the process came to an end, the guard refuses as soon as one canonical file
\* is stripped.
ReindexGuarded == pc = "startup" /\ HasStripped => ReindexRefused

\* The watermark never passes over a file that still has witnesses, so no
\* file is left out of compaction for good.
WatermarkSound == \A f \in DataFiles : f <= watermark => mem[f]

\* PrepareWitnessCompaction never has to refuse a file because of a backup
\* left from an earlier compaction.
NeverRefuses ==
    pc = "idle" /\ pending.stage = "none" =>
        \A f \in DataFiles : dir[f]["backup"] = "none"

\* Once crashes come to an end, every file that is deep enough is compacted and
\* the index on disk says so: neither a failed call, nor what a crash has left,
\* nor files that become eligible out of order keep the scan from it for good.
EligibleCompacted ==
    <>[][~PowerLoss /\ (Kill => Failed)]_vars =>
        \A f \in DataFiles : [](Eligible(f) => <>index[f])
=============================================================================
