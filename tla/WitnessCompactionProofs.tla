----------------------- MODULE WitnessCompactionProofs -----------------------
(***************************************************************************)
(* Witness compaction, for any number of files and of blocks, any depth,   *)
(* any number of crashes and power losses at any step and any number of    *)
(* failing I/O calls: the startup always gets through, the preparation is  *)
(* never refused and the watermark is sound.  As long as at most one call  *)
(* fails, no witness is lost either, and the files are the ones the index  *)
(* describes.                                                              *)
(***************************************************************************)
EXTENDS WitnessCompaction, WellFoundedInduction, TLAPS

\* What may stand where the index has a file as complete: the complete file, or,
\* when two calls of one hand-off fail, the compacted one.
Complete == IF MaxFaults <= 1 THEN {"full"} ELSE {"full", "stripped"}

\* A file from which the startup can proceed, by whether the index on disk has
\* it as pruned: what the index describes is there, or the rollback copy is.
OnDisk(e, pruned) ==
    IF pruned THEN /\ e["blk"] = "stripped" /\ e["temp"] = "none"
                   /\ e["backup"] \in {"none", "full", "stripped"}
    ELSE e["backup"] \in Complete \/ (e["backup"] = "none" /\ e["blk"] \in Complete)

\* A directory a startup can proceed from.
DirOK(d, idx) ==
    /\ \A f \in EmptyFiles, n \in Names : d[f][n] = "none"
    /\ \A f \in DataFiles : OnDisk(d[f], idx[f])

\* What the index on disk and the one in memory may differ in.
IndexOK ==
    /\ \A f \in Files : index[f] => mem[f]
    /\ \A f \in Files : mem[f] => index[f] \/ (pending.stage = "installed" /\ pending.file = f)
    /\ pc \in {"startup", "finalize"} => index = mem

\* The flag is on disk before or with the first pruned entry.
FlagOK ==
    /\ have => flag
    /\ \A f \in Files : index[f] => flag
    /\ \A f \in Files : mem[f] => flag \/ write_flag

\* A file that no hand-off is about is as the index in memory describes it.
Plain(f) ==
    /\ dir[f]["blk"] \in IF mem[f] THEN {"stripped"} ELSE Complete
    /\ dir[f]["backup"] = "none"

OthersOK ==
    pc # "startup" => \A f \in DataFiles :
        pending.stage = "none" \/ pending.file # f => Plain(f)

\* The complete file is in its place or in the rollback copy.  A rollback, which
\* is only reached after a failure, may leave the compacted file in its place
\* when it fails itself.
Held(e) ==
    \/ e["blk"] \in Complete /\ e["backup"] = "none"
    \/ /\ e["blk"] = "none" \/ (e["blk"] = "stripped" /\ MaxFaults > 1)
       /\ e["backup"] \in Complete

\* The hand-off of the file e = dir[pending.file], by the step it has come to.
PreparedOK(e) ==
    /\ ~mem[pending.file]
    /\ pc \in {"idle", "install", "handoff", "rollback", "cleanup"}
    /\ e["temp"] \in {"stripped", "none"}
    /\ e["temp"] = "none" \/ pc \in {"rollback", "cleanup"} => faults >= 1
    /\ pc \in {"idle", "install", "cleanup"} => Held(e)
    /\ pc = "handoff" => e["blk"] = "none" /\ e["backup"] \in Complete
    /\ pc = "rollback" => e["blk"] \in {"none", "stripped"} /\ e["backup"] \in Complete

InstalledOK ==
    /\ mem[pending.file]
    /\ pc \in {"idle", "install", "index", "finalize"}
    /\ \A d \in dirs : d[pending.file]["blk"] = "stripped" /\ d[pending.file]["temp"] = "none"

PendingOK ==
    /\ pc = "startup" => pending.stage = "none"
    /\ pc \in {"handoff", "rollback", "cleanup"} => pending.stage = "prepared"
    /\ pc = "prepare" => /\ pending.stage = "none" /\ pending.file \in DataFiles
                         /\ ~mem[pending.file]
                         /\ dir[pending.file]["temp"] = "writing"
    /\ pending.stage # "none" => pending.file \in DataFiles
    /\ pending.stage = "prepared" => PreparedOK(dir[pending.file])
    /\ pending.stage = "installed" => InstalledOK

IInv ==
    /\ TypeOK
    /\ StartupSucceeds
    /\ \A d \in dirs : DirOK(d, index)
    /\ IndexOK /\ FlagOK /\ WatermarkSound
    /\ OthersOK /\ PendingOK

LEMMA CompleteFacts ==
    /\ "full" \in Complete
    /\ \A c \in Complete : c \in {"full", "stripped"} /\ c # "none" /\ c # "writing"
    /\ MaxFaults > 1 => "stripped" \in Complete
    /\ MaxFaults <= 1 => Complete = {"full"}
BY FileAssumption DEF Complete

\* A hand-off leaves a file to start from at each of its steps.
LEMMA HandoffOnDisk ==
    ASSUME NEW e, PreparedOK(e)
    PROVE  OnDisk(e, FALSE)
BY DEF PreparedOK, Held, OnDisk

-----------------------------------------------------------------------------
(* What the operations do to a directory.                                  *)

LEMMA RenamedType ==
    ASSUME NEW d \in Directories, NEW f \in Files, NEW from \in Names, NEW to \in Names, from # to
    PROVE  /\ Renamed(d, f, from, to) \in Directories
           /\ Renamed(d, f, from, to)[f][to] = d[f][from]
           /\ Renamed(d, f, from, to)[f][from] = "none"
           /\ \A n \in Names \ {from, to} : Renamed(d, f, from, to)[f][n] = d[f][n]
           /\ \A g \in Files \ {f} : Renamed(d, f, from, to)[g] = d[g]
BY DEF Renamed, Directories, Contents

LEMMA RemovedType ==
    ASSUME NEW d \in Directories, NEW f \in Files, NEW name \in Names
    PROVE  /\ Removed(d, f, name) \in Directories
           /\ Removed(d, f, name)[f][name] = "none"
           /\ \A n \in Names \ {name} : Removed(d, f, name)[f][n] = d[f][n]
           /\ \A g \in Files \ {f} : Removed(d, f, name)[g] = d[g]
BY DEF Removed, Directories, Contents

LEMMA SettledType ==
    ASSUME NEW d \in Directories, NEW c \in Contents
    PROVE  /\ Settled(d, c) \in Directories
           /\ \A f \in Files, n \in Names :
                 Settled(d, c)[f][n] = IF d[f][n] = "writing" THEN c ELSE d[f][n]
BY DEF Settled, Directories

LEMMA OpenedType ==
    ASSUME NEW d \in Directories, NEW f \in Files
    PROVE  /\ [d EXCEPT ![f]["temp"] = "writing"] \in Directories
           /\ [d EXCEPT ![f]["temp"] = "writing"][f]["temp"] = "writing"
           /\ \A n \in Names \ {"temp"} : [d EXCEPT ![f]["temp"] = "writing"][f][n] = d[f][n]
           /\ \A g \in Files \ {f} : [d EXCEPT ![f]["temp"] = "writing"][g] = d[g]
BY DEF Directories, Contents, Names

\* Settling the content of a file that was being written leaves a directory
\* to start from: the canonical files and the rollback copies are not written to.
LEMMA SettledOK ==
    ASSUME NEW d \in Directories, NEW c \in Contents, NEW idx, DirOK(d, idx)
    PROVE  DirOK(Settled(d, c), idx)
<1>1. \A f \in Files, n \in Names :
         Settled(d, c)[f][n] = IF d[f][n] = "writing" THEN c ELSE d[f][n]
  BY SettledType
<1>2. EmptyFiles \subseteq Files /\ DataFiles \subseteq Files
  BY FileAssumption DEF DataFiles
<1>3. ASSUME NEW f \in DataFiles PROVE OnDisk(Settled(d, c)[f], idx[f])
  <2>1. f \in Files /\ OnDisk(d[f], idx[f])
    BY <1>2 DEF DirOK
  <2> QED BY <1>1, <2>1, CompleteFacts DEF OnDisk, Names
<1> QED BY <1>1, <1>2, <1>3 DEF DirOK

\* A directory that differs in one data file is one to start from if that file is.
LEMMA OneFileOK ==
    ASSUME NEW d, NEW e, NEW f \in DataFiles, NEW idx, DirOK(d, idx),
           \A g \in Files \ {f} : e[g] = d[g], OnDisk(e[f], idx[f])
    PROVE  DirOK(e, idx)
<1>1. EmptyFiles \subseteq Files \ {f} /\ DataFiles \subseteq Files
  BY FileAssumption DEF DataFiles
<1> QED BY <1>1 DEF DirOK

\* A set of naturals that is not empty has a least element.
LEMMA LeastNatural ==
    ASSUME NEW T, T \subseteq Nat, T # {}
    PROVE  \E x \in T : \A y \in T : x <= y
<1>1. PICK x \in T : \A y \in T : ~(<<y, x>> \in OpToRel(<, Nat))
  BY NatLessThanWellFounded, WFMin
<1>2. \A y \in T : ~(y < x)
  BY <1>1 DEF OpToRel
<1> QED BY <1>2

\* The file that is selected.
LEMMA TargetType ==
    ASSUME watermark \in -1..MaxFile, Candidates # {}
    PROVE  Target \in DataFiles /\ Target \in Files /\ ~mem[Target]
<1>1. Candidates \subseteq Nat
  BY FileAssumption DEF Candidates
<1>2. \E f \in Candidates : \A g \in Candidates : f <= g
  BY <1>1, LeastNatural
<1>3. Target \in Candidates
  BY <1>2 DEF Target
<1> QED BY <1>3 DEF Candidates, Eligible, DataFiles

\* Every file the watermark moves over can be passed.
LEMMA AdvancedType ==
    ASSUME watermark \in -1..MaxFile
    PROVE  /\ Advanced \in -1..MaxFile /\ watermark <= Advanced
           /\ \A f \in (watermark + 1)..Advanced : Passable(f)
<1> DEFINE T == {x \in 0..(MaxFile + 1) :
                   x >= watermark + 1 /\ (x - 1 < MaxFile => ~Passable(x))}
<1>0. MaxFile \in Nat
  BY FileAssumption
<1>1. T \subseteq Nat /\ MaxFile + 1 \in T
  BY <1>0
<1>2. PICK x \in T : \A y \in T : x <= y
  BY <1>1, LeastNatural
<1>3. x - 1 \in watermark..MaxFile /\ (x - 1 < MaxFile => ~Passable((x - 1) + 1))
  BY <1>0, <1>2
<1>4. \A f \in (watermark + 1)..(x - 1) : Passable(f)
  <2> SUFFICES ASSUME NEW f \in (watermark + 1)..(x - 1), ~Passable(f) PROVE FALSE
    OBVIOUS
  <2>1. f \in T
    BY <1>0, <1>2
  <2> HIDE DEF T
  <2> QED BY <1>0, <1>2, <1>3, <2>1
<1> HIDE DEF T
<1> DEFINE P(w) == /\ \A f \in (watermark + 1)..w : Passable(f)
                   /\ w < MaxFile => ~Passable(w + 1)
<1>5. \E w \in watermark..MaxFile : P(w)
  BY <1>3, <1>4
<1>6. /\ Advanced \in watermark..MaxFile
      /\ \A f \in (watermark + 1)..Advanced : Passable(f)
  <2>1. Advanced = CHOOSE w \in watermark..MaxFile : P(w)
    BY DEF Advanced
  <2> HIDE DEF P
  <2>2. Advanced \in watermark..MaxFile /\ P(Advanced)
    BY <1>5, <2>1
  <2> QED BY <2>2 DEF P
<1> QED BY <1>0, <1>6

LEMMA AdvancedSound ==
    ASSUME watermark \in -1..MaxFile, WatermarkSound
    PROVE  Advanced \in -1..MaxFile /\ \A f \in DataFiles : f <= Advanced => mem[f]
<1>1. ASSUME NEW f \in DataFiles, f <= Advanced PROVE mem[f]
  <2>1. MaxFile \in Nat /\ f \in 0..MaxFile /\ Advanced \in -1..MaxFile
    BY FileAssumption, AdvancedType DEF DataFiles, Files
  <2>2. CASE f <= watermark
    BY <2>2 DEF WatermarkSound
  <2>3. CASE ~(f <= watermark)
    <3>1. f \in (watermark + 1)..Advanced
      BY <1>1, <2>1, <2>3
    <3>2. Passable(f)
      BY <3>1, AdvancedType
    <3> QED BY <3>2 DEF Passable, DataFiles
  <2> QED BY <2>2, <2>3
<1> QED BY <1>1, AdvancedType
-----------------------------------------------------------------------------
(* The steps that do not touch the directory.                              *)

LEMMA InitIInv == Init => IInv
<1> SUFFICES ASSUME Init PROVE IInv
  OBVIOUS
<1> USE DEF Init
<1>0. MaxFile \in Nat /\ MaxHeight \in Nat /\ MaxFaults \in Nat
      /\ EmptyFiles \subseteq Files /\ DataFiles \subseteq Files /\ 0 \in Files
  BY FileAssumption DEF Files, DataFiles
<1>1. /\ dir \in Directories
      /\ \A f \in Files, n \in Names :
            dir[f][n] = IF n = "blk" /\ f \in DataFiles THEN "full" ELSE "none"
  BY DEF Directories, Contents
<1>2. TypeOK
  <2>1. dirs \subseteq Directories /\ dir \in dirs
    BY <1>1
  <2>2. /\ index \in [Files -> BOOLEAN] /\ mem \in [Files -> BOOLEAN]
        /\ flag \in BOOLEAN /\ have \in BOOLEAN /\ write_flag \in BOOLEAN /\ check \in BOOLEAN
    OBVIOUS
  <2>3. pending \in [file : Files, stage : Stages]
    BY <1>0 DEF NoPending, Stages
  <2>4. watermark \in -1..MaxFile /\ height \in 0..MaxHeight /\ faults \in 0..MaxFaults
    BY <1>0
  <2>5. pc \in PCs
    BY DEF PCs
  <2> QED BY <1>1, <2>1, <2>2, <2>3, <2>4, <2>5 DEF TypeOK
<1>3. \A d \in dirs : DirOK(d, index)
  BY <1>0, <1>1, CompleteFacts DEF DirOK, OnDisk, Names, DataFiles
<1>4. OthersOK
  BY <1>0, <1>1, CompleteFacts DEF OthersOK, Plain, Names
<1>5. WatermarkSound
  BY <1>0 DEF WatermarkSound, Files
<1> QED
  BY <1>2, <1>3, <1>4, <1>5
     DEF IInv, StartupSucceeds, IndexOK, FlagOK, PendingOK, NoPending

\* A step within a flush that only moves on, or a new block.
LEMMA QuietStep ==
    ASSUME IInv, UNCHANGED <<diskvars, dbvars, memvars, pending, faults>>,
           TypeOK', WatermarkSound', pc = "idle" \/ (pc = "install" /\ pending.stage # "prepared"),
           pc' \in {"idle", "install"} \/ (pc' = "index" /\ pending.stage # "prepared")
    PROVE  IInv'
<1> USE DEF IInv, diskvars, dbvars, memvars
<1>1. (\A d \in dirs : DirOK(d, index))'
  BY DEF DirOK, OnDisk
<1>2. StartupSucceeds' /\ IndexOK' /\ FlagOK'
  BY DEF StartupSucceeds, IndexOK, FlagOK
<1>3. OthersOK'
  BY DEF OthersOK, Plain
<1>4. PendingOK'
  BY DEF PendingOK, PreparedOK, InstalledOK
<1> QED BY <1>1, <1>2, <1>3, <1>4

LEMMA PrepareNothingIInv == IInv /\ PrepareNothing => IInv'
<1> SUFFICES ASSUME IInv, PrepareNothing PROVE IInv'
  OBVIOUS
<1>1. /\ pc = "idle" /\ check' = FALSE
      /\ pc' \in {"idle", "install"}
      /\ watermark' = watermark \/ watermark' = Advanced
      /\ UNCHANGED <<diskvars, dbvars, memvars, pending, height, faults>>
  BY DEF PrepareNothing, WriteOrNot
<1>2. watermark \in -1..MaxFile /\ WatermarkSound
  BY DEF IInv, TypeOK
<1>3. watermark' \in -1..MaxFile /\ \A f \in DataFiles : f <= watermark' => mem[f]
  BY <1>1, <1>2, AdvancedSound DEF WatermarkSound
<1>4. WatermarkSound'
  BY <1>1, <1>3 DEF WatermarkSound, memvars
<1>5. TypeOK'
  BY <1>1, <1>3 DEF IInv, TypeOK, PCs, diskvars, dbvars, memvars
<1> QED BY <1>1, <1>4, <1>5, QuietStep

LEMMA FlushSteps == IInv /\ (FlushOnly \/ InstallSkip \/ ConnectTip) => IInv'
<1> SUFFICES ASSUME IInv, FlushOnly \/ InstallSkip \/ ConnectTip PROVE IInv'
  OBVIOUS
<1>1. /\ pc = "idle" \/ (pc = "install" /\ pending.stage # "prepared")
      /\ pc' \in {"idle", "install"} \/ (pc' = "index" /\ pending.stage # "prepared")
      /\ check' \in {check, TRUE}
      /\ height' = height \/ (height < MaxHeight /\ height' = height + 1)
      /\ UNCHANGED <<diskvars, dbvars, memvars, pending, watermark, faults>>
  BY DEF FlushOnly, InstallSkip, ConnectTip, taskvars
<1>2. MaxHeight \in Nat
  BY FileAssumption
<1>3. TypeOK'
  <2>1. height' \in 0..MaxHeight
    BY <1>1, <1>2 DEF IInv, TypeOK
  <2>2. check' \in BOOLEAN
    BY <1>1 DEF IInv, TypeOK
  <2> QED BY <1>1, <2>1, <2>2 DEF IInv, TypeOK, PCs, diskvars, dbvars, memvars
<1>4. WatermarkSound'
  BY <1>1 DEF IInv, WatermarkSound, memvars
<1> QED BY <1>1, <1>3, <1>4, QuietStep

\* WriteBlockIndexDB: what it adds to the index is the installed file, whose
\* rename has been synced.
LEMMA WriteBlockIndexDBIInv == IInv /\ WriteBlockIndexDB => IInv'
<1> SUFFICES ASSUME IInv, WriteBlockIndexDB PROVE IInv'
  OBVIOUS
<1> USE DEF IInv
<1> DEFINE Committed == index' = mem /\ flag' = (flag \/ write_flag)
<1>00. \/ Committed /\ pc' = "finalize"
       \/ (Committed \/ UNCHANGED dbvars) /\ pc' = "idle" /\ UNCHANGED <<have, write_flag>>
  BY Zenon DEF WriteBlockIndexDB
<1>0. /\ pc = "index" /\ pc' \in {"idle", "finalize"}
      /\ Committed \/ (UNCHANGED <<dbvars, have, write_flag>> /\ index' = index)
      /\ pc' = "finalize" => index' = mem
      /\ UNCHANGED <<diskvars, mem, taskvars, height>>
  <2>1. pc = "index" /\ UNCHANGED <<diskvars, mem, taskvars, height>>
    BY DEF WriteBlockIndexDB
  <2> HIDE DEF Committed
  <2>2. Committed \/ (UNCHANGED <<dbvars, have, write_flag>> /\ index' = index)
    BY <1>00 DEF dbvars
  <2>3. pc' \in {"idle", "finalize"} /\ (pc' = "finalize" => Committed)
    BY <1>00
  <2> QED BY <2>1, <2>2, <2>3 DEF Committed
<1>1. have' \in BOOLEAN /\ write_flag' \in BOOLEAN /\ flag' \in BOOLEAN
  BY DEF WriteBlockIndexDB, TypeOK, dbvars
<1>2. faults' \in 0..MaxFaults
  BY FileAssumption DEF WriteBlockIndexDB, Fault, TypeOK
<1>3. TypeOK'
  BY <1>0, <1>1, <1>2 DEF TypeOK, PCs, diskvars, taskvars
<1>4. (\A d \in dirs : DirOK(d, index))'
  <2> SUFFICES ASSUME NEW d \in dirs, index' = mem PROVE DirOK(d, mem)
    BY <1>0 DEF diskvars
  <2>1. DirOK(d, index)
    OBVIOUS
  <2>2. ASSUME NEW f \in DataFiles PROVE OnDisk(d[f], mem[f])
    <3>1. f \in Files /\ OnDisk(d[f], index[f])
      BY <2>1 DEF DirOK, DataFiles
    <3>2. mem \in [Files -> BOOLEAN] /\ index \in [Files -> BOOLEAN]
      BY DEF TypeOK
    <3>3. CASE mem[f] = index[f]
      BY <3>1, <3>3
    <3>4. CASE mem[f] # index[f]
      <4>1. mem[f] /\ ~index[f] /\ pending.stage = "installed" /\ pending.file = f
        BY <3>1, <3>2, <3>4 DEF IndexOK
      <4>2. d[f]["blk"] = "stripped" /\ d[f]["temp"] = "none"
        BY <4>1 DEF PendingOK, InstalledOK
      <4> QED BY <3>1, <4>1, <4>2, CompleteFacts DEF OnDisk
    <3> QED BY <3>3, <3>4
  <2> QED BY <2>1, <2>2 DEF DirOK
<1>5. IndexOK'
  BY <1>0 DEF IndexOK, TypeOK, taskvars
<1>6. FlagOK'
  BY <1>0 DEF FlagOK, IndexOK, TypeOK, WriteBlockIndexDB, dbvars
<1>7. StartupSucceeds' /\ WatermarkSound' /\ OthersOK'
  BY <1>0 DEF StartupSucceeds, WatermarkSound, OthersOK, Plain, diskvars, taskvars
<1>8. PendingOK'
  BY <1>0 DEF PendingOK, PreparedOK, InstalledOK, diskvars, taskvars
<1> QED BY <1>3, <1>4, <1>5, <1>6, <1>7, <1>8
-----------------------------------------------------------------------------
(* The steps that do.                                                      *)

LEMMA TypeFacts ==
    ASSUME TypeOK
    PROVE  /\ dir \in Directories /\ dirs \subseteq Directories /\ dir \in dirs
           /\ pending \in [file : Files, stage : Stages] /\ pending.file \in Files
           /\ index \in [Files -> BOOLEAN] /\ mem \in [Files -> BOOLEAN]
           /\ watermark \in -1..MaxFile /\ faults \in 0..MaxFaults /\ MaxFaults \in Nat
           /\ DataFiles \subseteq Files /\ EmptyFiles \subseteq Files
BY FileAssumption DEF TypeOK, DataFiles

\* A failing call is counted.
LEMMA FaultType ==
    ASSUME faults \in 0..MaxFaults, MaxFaults \in Nat, Fault
    PROVE  faults' \in 0..MaxFaults /\ faults' >= 1
BY DEF Fault

\* Whatever is in a temp file, a file that is not pruned can be started from.
LEMMA TempOK ==
    ASSUME NEW d, NEW e, NEW f \in DataFiles, DirOK(d, index), ~index[f],
           \A g \in Files \ {f} : e[g] = d[g],
           \A n \in Names \ {"temp"} : e[f][n] = d[f][n]
    PROVE  DirOK(e, index)
<1>1. OnDisk(d[f], index[f]) /\ e[f]["blk"] = d[f]["blk"] /\ e[f]["backup"] = d[f]["backup"]
  BY DEF DirOK, Names
<1>2. OnDisk(e[f], index[f])
  BY <1>1 DEF OnDisk
<1> QED BY <1>2, OneFileOK

\* A name is removed and the directory not synced.
LEMMA UnsyncedRemoved ==
    ASSUME dir \in Directories, NEW f \in Files, NEW name \in Names, Unsynced(Removed(dir, f, name))
    PROVE  /\ dir' \in Directories /\ dirs' = dirs \cup {dir'}
           /\ dir'[f][name] = "none"
           /\ \A n \in Names \ {name} : dir'[f][n] = dir[f][n]
           /\ \A g \in Files \ {f} : dir'[g] = dir[g]
<1>1. dir' = Removed(dir, f, name) /\ dirs' = dirs \cup {dir'}
  BY DEF Unsynced
<1> QED BY <1>1, RemovedType, Zenon

LEMMA PrepareOpenIInv == IInv /\ PrepareOpen => IInv'
<1> SUFFICES ASSUME IInv, PrepareOpen PROVE IInv'
  OBVIOUS
<1> DEFINE t == Target
           opened == [dir EXCEPT ![t]["temp"] = "writing"]
           e == dir'
<1>0. TypeOK /\ pc = "idle" /\ pending.stage = "none" /\ Candidates # {} /\ watermark' = Advanced
      /\ UNCHANGED <<dbvars, memvars, check, height>>
  BY DEF PrepareOpen, IInv
<1>00. /\ dir \in Directories /\ dirs \subseteq Directories /\ dir \in dirs
       /\ pending \in [file : Files, stage : Stages] /\ pending.file \in Files
       /\ faults \in 0..MaxFaults /\ MaxFaults \in Nat /\ watermark \in -1..MaxFile
       /\ DataFiles \subseteq Files
  BY <1>0, TypeFacts
<1>1. t \in DataFiles /\ t \in Files /\ ~mem[t] /\ ~index[t]
  BY <1>0, <1>00, TargetType DEF IInv, IndexOK
<1>2. watermark' \in -1..MaxFile /\ WatermarkSound'
  BY <1>0, <1>00, AdvancedSound DEF IInv, WatermarkSound, memvars
<1> HIDE DEF t
<1>3. \/ /\ Unsynced(opened) /\ pending' = [file |-> t, stage |-> "none"]
         /\ pc' = "prepare" /\ UNCHANGED faults
      \/ /\ Fault /\ (Unsynced(dir) \/ Unsynced(Removed(dir, t, "temp")))
         /\ pc' \in {"idle", "install"} /\ UNCHANGED pending
  BY DEF PrepareOpen, WriteOrNot, t
<1>4. /\ e \in Directories
      /\ \A n \in Names \ {"temp"} : e[t][n] = dir[t][n]
      /\ \A g \in Files \ {t} : e[g] = dir[g]
      /\ dirs' = dirs \cup {e}
      /\ pc' = "prepare" => e[t]["temp"] = "writing"
  <2>1. CASE Unsynced(opened)
    <3>1. e = opened /\ dirs' = dirs \cup {e}
      BY <2>1 DEF Unsynced
    <3>2. /\ opened \in Directories /\ opened[t]["temp"] = "writing"
          /\ \A n \in Names \ {"temp"} : opened[t][n] = dir[t][n]
          /\ \A g \in Files \ {t} : opened[g] = dir[g]
      BY <1>00, <1>1, OpenedType
    <3> HIDE DEF e, opened
    <3> QED BY <3>1, <3>2
  <2>2. CASE Unsynced(Removed(dir, t, "temp")) /\ pc' # "prepare"
    <3>1. "temp" \in Names
      BY DEF Names
    <3> QED BY <1>00, <1>1, <2>2, <3>1, UnsyncedRemoved
  <2>3. CASE Unsynced(dir) /\ pc' # "prepare"
    BY <1>00, <2>3 DEF Unsynced
  <2> QED BY <1>3, <2>1, <2>2, <2>3
<1>5. faults' \in 0..MaxFaults
  BY <1>00, <1>3, FaultType
<1>6. pending' \in [file : Files, stage : Stages] /\ pending'.stage = "none"
  BY <1>0, <1>00, <1>1, <1>3 DEF Stages
<1>7. TypeOK'
  BY <1>0, <1>00, <1>2, <1>3, <1>4, <1>5, <1>6 DEF TypeOK, PCs, dbvars, memvars
<1>8. (\A d \in dirs : DirOK(d, index))'
  <2>1. DirOK(e, index)
    BY <1>00, <1>1, <1>4, TempOK DEF IInv
  <2> QED BY <1>0, <1>4, <2>1 DEF IInv, dbvars
<1>9. IndexOK' /\ FlagOK' /\ StartupSucceeds'
  BY <1>0, <1>3, <1>6 DEF IInv, IndexOK, FlagOK, StartupSucceeds, dbvars, memvars
<1>10. OthersOK'
  <2>1. \A f \in DataFiles : Plain(f)
    BY <1>0 DEF IInv, OthersOK
  <2>2. \A f \in DataFiles : e[f]["blk"] = dir[f]["blk"] /\ e[f]["backup"] = dir[f]["backup"]
    BY <1>00, <1>4 DEF Names
  <2> QED BY <1>0, <2>1, <2>2 DEF OthersOK, Plain, memvars
<1>11. PendingOK'
  BY <1>0, <1>1, <1>3, <1>4, <1>6 DEF PendingOK, memvars
<1> QED BY <1>2, <1>7, <1>8, <1>9, <1>10, <1>11 DEF IInv

LEMMA PrepareWriteIInv == IInv /\ PrepareWrite => IInv'
<1> SUFFICES ASSUME IInv, PrepareWrite PROVE IInv'
  OBVIOUS
<1> DEFINE f == pending.file
           Finished(c) == dir' = Settled(dir, c) /\ dirs' = {Settled(d, c) : d \in dirs}
<1>0. TypeOK /\ pc = "prepare" /\ UNCHANGED <<dbvars, memvars, watermark, height>>
  BY DEF PrepareWrite, IInv
<1>00. /\ dir \in Directories /\ dirs \subseteq Directories /\ dir \in dirs
       /\ pending \in [file : Files, stage : Stages] /\ f \in Files
       /\ faults \in 0..MaxFaults /\ MaxFaults \in Nat
       /\ DataFiles \subseteq Files
  BY <1>0, TypeFacts
<1>1. /\ f \in DataFiles /\ ~mem[f] /\ ~index[f] /\ pending.stage = "none"
      /\ dir[f]["temp"] = "writing" /\ \A g \in DataFiles : Plain(g)
  BY <1>0, <1>00 DEF IInv, PendingOK, OthersOK, IndexOK
<1>2. \/ /\ Finished("stripped") /\ pending' = [pending EXCEPT !.stage = "prepared"]
         /\ pc' = "install" /\ UNCHANGED faults /\ check' = FALSE
      \/ /\ Fault \/ UNCHANGED faults
         /\ Unsynced(Removed(dir, f, "temp")) \/ Finished("torn")
         /\ pending' = NoPending /\ pc' \in {"idle", "install"} /\ UNCHANGED check
  BY DEF PrepareWrite, WriteOrNot
<1>3. ASSUME NEW c \in {"stripped", "torn"}, Finished(c)
      PROVE  /\ dirs' \subseteq Directories /\ dir' \in dirs' /\ \A d \in dirs' : DirOK(d, index)
             /\ \A g \in DataFiles, n \in {"blk", "backup"} : dir'[g][n] = dir[g][n]
             /\ dir'[f]["temp"] = c
  <2>1. c \in Contents
    BY DEF Contents
  <2>2. dirs' \subseteq Directories /\ dir' \in dirs'
    BY <1>00, <1>3, <2>1, SettledType
  <2>3. \A d \in dirs' : DirOK(d, index)
    <3> SUFFICES ASSUME NEW d \in dirs PROVE DirOK(Settled(d, c), index)
      BY <1>3
    <3> QED BY <1>00, <2>1, SettledOK DEF IInv
  <2>4. \A g \in DataFiles, n \in {"blk", "backup"} : dir'[g][n] = dir[g][n]
    <3> SUFFICES ASSUME NEW g \in DataFiles, NEW n \in {"blk", "backup"} PROVE dir'[g][n] = dir[g][n]
      OBVIOUS
    <3>1. dir[g][n] # "writing"
      BY <1>1, CompleteFacts DEF Plain
    <3>2. g \in Files /\ n \in Names
      BY <1>00 DEF Names
    <3> QED BY <1>00, <1>3, <2>1, <3>1, <3>2, SettledType
  <2>5. dir'[f]["temp"] = c
    BY <1>00, <1>1, <1>3, <2>1, SettledType DEF Names
  <2> QED BY <2>2, <2>3, <2>4, <2>5
<1>4. ASSUME Unsynced(Removed(dir, f, "temp"))
      PROVE  /\ dirs' \subseteq Directories /\ dir' \in dirs' /\ \A d \in dirs' : DirOK(d, index)
             /\ \A g \in DataFiles, n \in {"blk", "backup"} : dir'[g][n] = dir[g][n]
  <2>1. /\ dir' \in Directories /\ dirs' = dirs \cup {dir'}
        /\ \A n \in Names \ {"temp"} : dir'[f][n] = dir[f][n]
        /\ \A g \in Files \ {f} : dir'[g] = dir[g]
    <3>1. "temp" \in Names
      BY DEF Names
    <3> QED BY <1>00, <1>4, <3>1, UnsyncedRemoved
  <2>2. DirOK(dir', index)
    BY <1>00, <1>1, <2>1, TempOK DEF IInv
  <2>3. \A g \in DataFiles, n \in {"blk", "backup"} : dir'[g][n] = dir[g][n]
    BY <1>00, <2>1 DEF Names
  <2> QED BY <1>00, <2>1, <2>2, <2>3 DEF IInv
<1> HIDE DEF Finished
<1>5. /\ dirs' \subseteq Directories /\ dir' \in dirs' /\ \A d \in dirs' : DirOK(d, index)
      /\ \A g \in DataFiles, n \in {"blk", "backup"} : dir'[g][n] = dir[g][n]
  BY <1>2, <1>3, <1>4
<1>6. \/ /\ pending' = [pending EXCEPT !.stage = "prepared"] /\ dir'[f]["temp"] = "stripped"
         /\ pc' = "install" /\ UNCHANGED faults
      \/ pending' = NoPending /\ pc' \in {"idle", "install"} /\ (Fault \/ UNCHANGED faults)
  BY <1>2, <1>3
<1>7. faults' \in 0..MaxFaults
  BY <1>00, <1>6, FaultType
<1>8. pending' \in [file : Files, stage : Stages]
  BY <1>00, <1>6, FileAssumption DEF Stages, NoPending, Files
<1>9. TypeOK'
  <2>1. check' \in BOOLEAN
    BY <1>0, <1>2 DEF TypeOK
  <2>2. pc' \in PCs
    BY <1>6 DEF PCs
  <2> QED BY <1>0, <1>5, <1>7, <1>8, <2>1, <2>2 DEF TypeOK, dbvars, memvars
<1>10. IndexOK' /\ FlagOK' /\ StartupSucceeds' /\ WatermarkSound'
  BY <1>0, <1>1, <1>6 DEF IInv, IndexOK, FlagOK, StartupSucceeds, WatermarkSound, dbvars, memvars
<1>11. OthersOK'
  BY <1>0, <1>1, <1>5 DEF OthersOK, Plain, memvars
<1>12. PendingOK'
  <2>1. CASE pending' = NoPending /\ pc' \in {"idle", "install"}
    <3>1. pending'.stage = "none"
      BY <2>1 DEF NoPending
    <3> QED BY <2>1, <3>1 DEF PendingOK
  <2>2. CASE /\ pending' = [pending EXCEPT !.stage = "prepared"] /\ dir'[f]["temp"] = "stripped"
             /\ pc' = "install"
    <3>1. pending'.stage = "prepared" /\ pending'.file = f
      BY <1>00, <2>2
    <3>2. dir'[f]["blk"] \in Complete /\ dir'[f]["backup"] = "none" /\ ~mem'[f]
      BY <1>0, <1>1, <1>5 DEF Plain, memvars
    <3> QED BY <1>1, <2>2, <3>1, <3>2 DEF PendingOK, PreparedOK, Held
  <2> QED BY <1>6, <2>1, <2>2
<1> QED BY <1>0, <1>5, <1>9, <1>10, <1>11, <1>12 DEF IInv, dbvars
\* The name from of the file f has become the name to.
Moved(f, from, to) ==
    /\ dir' \in Directories
    /\ dir[f][from] # "none"
    /\ dir'[f][to] = dir[f][from] /\ dir'[f][from] = "none"
    /\ \A n \in Names \ {from, to} : dir'[f][n] = dir[f][n]
    /\ \A g \in Files \ {f} : dir'[g] = dir[g]

LEMMA RenamedMoved ==
    ASSUME dir \in Directories, NEW f \in Files, NEW from \in Names, NEW to \in Names, from # to,
           dir' = Renamed(dir, f, from, to), dir[f][from] # "none"
    PROVE  Moved(f, from, to)
<1> DEFINE r == Renamed(dir, f, from, to)
<1>1. /\ r \in Directories
      /\ r[f][to] = dir[f][from] /\ r[f][from] = "none"
      /\ \A n \in Names \ {from, to} : r[f][n] = dir[f][n]
      /\ \A g \in Files \ {f} : r[g] = dir[g]
  BY RenamedType
<1>2. dir' = r
  OBVIOUS
<1> HIDE DEF r
<1> QED BY <1>1, <1>2 DEF Moved

LEMMA RenameOkFacts ==
    ASSUME dir \in Directories, NEW f \in Files, NEW from \in Names, NEW to \in Names, from # to,
           RenameOk(f, from, to)
    PROVE  Moved(f, from, to) /\ dirs' = {dir'} /\ faults' = faults
<1>1. /\ dir' = Renamed(dir, f, from, to) /\ dirs' = {dir'} /\ faults' = faults
      /\ dir[f][from] # "none"
  BY DEF RenameOk, Synced
<1> QED BY <1>1, RenamedMoved

LEMMA RenameFailsFacts ==
    ASSUME dir \in Directories, NEW f \in Files, NEW from \in Names, NEW to \in Names, from # to,
           RenameFails(f, from, to)
    PROVE  \/ dir[f][from] = "none" /\ dir' = dir /\ dirs' = dirs /\ faults' = faults
           \/ Fault /\ dir' = dir /\ dirs' = dirs
           \/ Fault /\ Moved(f, from, to) /\ dirs' = dirs \cup {dir'}
<1>1. CASE Fault /\ Unsynced(Renamed(dir, f, from, to)) /\ dir[f][from] # "none"
  <2>1. dir' = Renamed(dir, f, from, to) /\ dirs' = dirs \cup {dir'} /\ dir[f][from] # "none"
    BY <1>1 DEF Unsynced
  <2>2. Moved(f, from, to)
    BY <2>1, RenamedMoved
  <2> QED BY <1>1, <2>1, <2>2
<1> QED BY <1>1 DEF RenameFails, diskvars

\* A step of the hand-off of a file whose index entries have not changed.
LEMMA HandoffStep ==
    ASSUME IInv, pending.stage = "prepared",
           UNCHANGED <<dbvars, memvars, taskvars, height>>,
           dir' \in Directories, dir' \in dirs', \A d \in dirs' : d \in dirs \/ d = dir',
           \A g \in Files \ {pending.file} : dir'[g] = dir[g],
           OnDisk(dir'[pending.file], FALSE),
           faults' \in 0..MaxFaults, PreparedOK(dir[pending.file])'
    PROVE  IInv'
<1>0. /\ TypeOK /\ dirs \subseteq Directories /\ pending.file \in DataFiles /\ ~mem[pending.file]
      /\ index \in [Files -> BOOLEAN] /\ DataFiles \subseteq Files /\ dir \in dirs
  BY TypeFacts DEF IInv, PendingOK, PreparedOK
<1>1. pc' \in {"idle", "install", "handoff", "rollback", "cleanup"}
  BY DEF PreparedOK
<1>2. ~index[pending.file]
  BY <1>0 DEF IInv, IndexOK
<1>3. TypeOK'
  BY <1>0, <1>1 DEF TypeOK, PCs, dbvars, memvars, taskvars
<1>4. (\A d \in dirs : DirOK(d, index))'
  <2>1. DirOK(dir, index)
    BY <1>0 DEF IInv
  <2>2. index[pending.file] = FALSE
    BY <1>0, <1>2
  <2>3. OnDisk(dir'[pending.file], index[pending.file])
    BY <2>2
  <2>4. DirOK(dir', index)
    BY <1>0, <2>1, <2>3, OneFileOK
  <2> QED BY <2>4 DEF IInv, dbvars
<1>5. IndexOK' /\ FlagOK' /\ StartupSucceeds' /\ WatermarkSound'
  BY <1>1 DEF IInv, IndexOK, FlagOK, StartupSucceeds, WatermarkSound, dbvars, memvars, taskvars
<1>6. OthersOK'
  <2> SUFFICES ASSUME NEW f \in DataFiles, pending.file # f PROVE Plain(f)'
    BY DEF OthersOK, taskvars
  <2>1. pc # "startup"
    BY DEF IInv, PendingOK
  <2>2. Plain(f)
    BY <2>1 DEF IInv, OthersOK
  <2>3. dir'[f] = dir[f]
    BY <1>0
  <2> QED BY <2>2, <2>3 DEF Plain, memvars
<1>7. PendingOK'
  BY <1>0, <1>1 DEF PendingOK, taskvars
<1> QED BY <1>3, <1>4, <1>5, <1>6, <1>7 DEF IInv

LEMMA InstallBackupIInv == IInv /\ InstallBackup => IInv'
<1> SUFFICES ASSUME IInv, InstallBackup PROVE IInv'
  OBVIOUS
<1> DEFINE f == pending.file
<1>0. /\ pc = "install" /\ pending.stage = "prepared"
      /\ UNCHANGED <<dbvars, memvars, taskvars, height>>
  BY DEF InstallBackup
<1>1. /\ dir \in Directories /\ dir \in dirs /\ f \in Files
      /\ faults \in 0..MaxFaults /\ MaxFaults \in Nat
  BY TypeFacts DEF IInv
<1>2. PreparedOK(dir[f])
  BY <1>0 DEF IInv, PendingOK
<1>3. mem' = mem /\ pending' = pending
  BY <1>0 DEF memvars, taskvars
<1>4. {"blk", "temp", "backup"} = Names
  BY DEF Names
<1>5. CASE RenameOk(f, "blk", "backup") /\ pc' = "handoff"
  <2>1. Moved(f, "blk", "backup") /\ dirs' = {dir'} /\ faults' = faults
    BY <1>1, <1>4, <1>5, RenameOkFacts
  <2>2. dir'[f]["blk"] = "none" /\ dir'[f]["backup"] \in Complete /\ dir'[f]["temp"] = dir[f]["temp"]
    BY <1>0, <1>2, <1>4, <2>1, CompleteFacts DEF Moved, PreparedOK, Held
  <2>3. PreparedOK(dir[f])'
    BY <1>0, <1>2, <1>3, <1>5, <2>1, <2>2 DEF PreparedOK
  <2> QED BY <1>0, <1>1, <2>1, <2>2, <2>3, HandoffStep DEF Moved, OnDisk
<1>6. CASE RenameFails(f, "blk", "backup") /\ pc' = "idle"
  <2>1. \/ dir' = dir /\ dirs' = dirs /\ faults' = faults
        \/ Fault /\ dir' = dir /\ dirs' = dirs
        \/ Fault /\ Moved(f, "blk", "backup") /\ dirs' = dirs \cup {dir'}
    BY <1>1, <1>4, <1>6, RenameFailsFacts
  <2>2. faults' \in 0..MaxFaults /\ faults' >= faults
    BY <1>1, <2>1 DEF Fault
  <2>3. CASE dir' = dir /\ dirs' = dirs
    <3>1. PreparedOK(dir[f])'
      BY <1>0, <1>1, <1>2, <1>3, <1>6, <2>2, <2>3 DEF PreparedOK
    <3>2. OnDisk(dir'[f], FALSE)
      BY <1>2, <2>3, HandoffOnDisk
    <3> QED BY <1>0, <1>1, <2>2, <2>3, <3>1, <3>2, HandoffStep
  <2>4. CASE Moved(f, "blk", "backup") /\ dirs' = dirs \cup {dir'}
    <3>1. dir'[f]["blk"] = "none" /\ dir'[f]["backup"] \in Complete /\ dir'[f]["temp"] = dir[f]["temp"]
      BY <1>0, <1>2, <1>4, <2>4, CompleteFacts DEF Moved, PreparedOK, Held
    <3>2. PreparedOK(dir[f])'
      <4>1. pc' = "idle" /\ ~mem'[pending'.file] /\ pending' = pending
        BY <1>2, <1>3, <1>6 DEF PreparedOK
      <4>2. dir[f]["temp"] \in {"stripped", "none"} /\ (dir[f]["temp"] = "none" => faults >= 1)
        BY <1>2 DEF PreparedOK
      <4>3. dir'[f]["temp"] = "none" => faults' >= 1
        BY <1>1, <2>2, <3>1, <4>2
      <4> QED BY <3>1, <4>1, <4>2, <4>3 DEF PreparedOK, Held
    <3> QED BY <1>0, <1>1, <2>2, <2>4, <3>1, <3>2, HandoffStep DEF Moved, OnDisk
  <2> QED BY <2>1, <2>3, <2>4
<1> QED BY <1>5, <1>6 DEF InstallBackup

\* The file is installed: its entries are pruned in memory, and the directory
\* is synced, so every directory that may be found has the compacted file.
LEMMA Installed ==
    ASSUME IInv, pc = "handoff", RenameOk(pending.file, "temp", "blk"),
           mem' = [mem EXCEPT ![pending.file] = TRUE],
           write_flag' = (write_flag \/ ~have),
           pending' = [pending EXCEPT !.stage = "installed"], pc' = "index",
           UNCHANGED <<dbvars, have, watermark, check, height>>
    PROVE  IInv'
<1> DEFINE f == pending.file
<1>0. /\ TypeOK /\ dir \in Directories /\ dir \in dirs /\ f \in Files /\ DataFiles \subseteq Files
      /\ pending \in [file : Files, stage : Stages]
      /\ faults \in 0..MaxFaults /\ mem \in [Files -> BOOLEAN] /\ index \in [Files -> BOOLEAN]
  BY TypeFacts DEF IInv
<1>1. pending.stage = "prepared" /\ f \in DataFiles /\ PreparedOK(dir[f])
  BY DEF IInv, PendingOK
<1>2. Moved(f, "temp", "blk") /\ dirs' = {dir'} /\ faults' = faults
  BY <1>0, RenameOkFacts DEF Names
<1>3. /\ dir'[f]["blk"] = "stripped" /\ dir'[f]["temp"] = "none" /\ dir'[f]["backup"] \in Complete
      /\ dir' \in Directories /\ \A g \in Files \ {f} : dir'[g] = dir[g]
  BY <1>1, <1>2 DEF Moved, PreparedOK, Names
<1>4. pending'.stage = "installed" /\ pending'.file = f /\ pending' \in [file : Files, stage : Stages]
  BY <1>0 DEF Stages
<1>5. /\ mem' \in [Files -> BOOLEAN] /\ mem'[f]
      /\ \A g \in Files \ {f} : mem'[g] = mem[g]
      /\ ~mem[f] /\ ~index[f]
  BY <1>0, <1>1 DEF PreparedOK, IInv, IndexOK
<1>6. write_flag' \in BOOLEAN
  BY <1>0
<1>7. TypeOK'
  BY <1>0, <1>2, <1>3, <1>4, <1>5, <1>6 DEF TypeOK, PCs, dbvars
<1>8. (\A d \in dirs : DirOK(d, index))'
  <2>1. DirOK(dir, index)
    BY <1>0 DEF IInv
  <2>2. OnDisk(dir'[f], index[f])
    BY <1>3, <1>5 DEF OnDisk
  <2>3. DirOK(dir', index)
    BY <1>1, <1>3, <2>1, <2>2, OneFileOK
  <2> QED BY <1>2, <2>3 DEF dbvars
<1>9. IndexOK' /\ WatermarkSound' /\ StartupSucceeds'
  BY <1>0, <1>4, <1>5 DEF IInv, IndexOK, WatermarkSound, StartupSucceeds, dbvars
<1>10. FlagOK'
  <2>1. flag' = flag /\ index' = index /\ have' = have
    BY DEF dbvars
  <2>2. flag \/ write_flag'
    BY <1>0 DEF IInv, FlagOK
  <2> QED BY <2>1, <2>2 DEF IInv, FlagOK
<1>11. OthersOK'
  <2> SUFFICES ASSUME NEW g \in DataFiles, f # g PROVE Plain(g)'
    BY <1>4 DEF OthersOK
  <2>1. Plain(g) /\ g \in Files
    BY <1>0 DEF IInv, OthersOK
  <2> QED BY <1>3, <1>5, <2>1 DEF Plain
<1>12. PendingOK'
  BY <1>1, <1>2, <1>3, <1>4, <1>5 DEF PendingOK, InstalledOK
<1> QED BY <1>7, <1>8, <1>9, <1>10, <1>11, <1>12 DEF IInv

LEMMA InstallRenameIInv == IInv /\ InstallRename => IInv'
<1> SUFFICES ASSUME IInv, InstallRename PROVE IInv'
  OBVIOUS
<1> DEFINE f == pending.file
<1>1. CASE RenameFails(f, "temp", "blk") /\ pc' = "rollback" /\ UNCHANGED <<mem, write_flag, pending>>
  <2>0. /\ pc = "handoff" /\ pending.stage = "prepared" /\ PreparedOK(dir[f])
        /\ UNCHANGED <<dbvars, memvars, taskvars, height>>
    BY <1>1 DEF InstallRename, IInv, PendingOK, memvars, taskvars
  <2>1. /\ dir \in Directories /\ dir \in dirs /\ f \in Files
        /\ faults \in 0..MaxFaults /\ MaxFaults \in Nat
    BY TypeFacts DEF IInv
  <2>2. \/ dir[f]["temp"] = "none" /\ dir' = dir /\ dirs' = dirs /\ faults' = faults
        \/ Fault /\ dir' = dir /\ dirs' = dirs
        \/ Fault /\ Moved(f, "temp", "blk") /\ dirs' = dirs \cup {dir'}
    BY <1>1, <2>1, RenameFailsFacts DEF Names
  <2>3. faults' \in 0..MaxFaults /\ faults' >= 1
    BY <2>0, <2>1, <2>2, FaultType DEF PreparedOK
  <2>4. CASE dir' = dir /\ dirs' = dirs
    <3>1. PreparedOK(dir[f])'
      BY <1>1, <2>0, <2>3, <2>4 DEF PreparedOK
    <3>2. OnDisk(dir'[f], FALSE)
      BY <2>0, <2>4 DEF OnDisk, PreparedOK
    <3> QED BY <2>0, <2>1, <2>3, <2>4, <3>1, <3>2, HandoffStep
  <2>5. CASE Moved(f, "temp", "blk") /\ dirs' = dirs \cup {dir'}
    <3>1. dir'[f]["blk"] = "stripped" /\ dir'[f]["backup"] \in Complete /\ dir'[f]["temp"] = "none"
      BY <2>0, <2>5 DEF Moved, PreparedOK, Names
    <3>2. PreparedOK(dir[f])'
      BY <1>1, <2>0, <2>3, <3>1 DEF PreparedOK
    <3> QED BY <2>0, <2>1, <2>3, <2>5, <3>1, <3>2, HandoffStep DEF Moved, OnDisk
  <2> QED BY <2>2, <2>4, <2>5
<1> QED BY <1>1, Installed DEF InstallRename

\* The rollback puts the complete file back, or leaves it in the rollback copy;
\* with at most one failing call it does not fail, since one has failed already.
LEMMA RollbackRenameIInv == IInv /\ RollbackRename => IInv'
<1> SUFFICES ASSUME IInv, RollbackRename PROVE IInv'
  OBVIOUS
<1> DEFINE f == pending.file
<1>0. /\ pc = "rollback" /\ pc' = "cleanup" /\ pending.stage = "prepared" /\ PreparedOK(dir[f])
      /\ UNCHANGED <<dbvars, memvars, taskvars, height>>
  BY DEF RollbackRename, IInv, PendingOK
<1>1. /\ dir \in Directories /\ dir \in dirs /\ f \in Files
      /\ faults \in 0..MaxFaults /\ MaxFaults \in Nat
  BY TypeFacts DEF IInv
<1>2. /\ dir[f]["backup"] \in Complete /\ dir[f]["blk"] \in {"none", "stripped"}
      /\ dir[f]["temp"] \in {"stripped", "none"} /\ ~mem[f] /\ faults >= 1
  BY <1>0 DEF PreparedOK
<1>3. mem' = mem /\ pending' = pending
  BY <1>0 DEF memvars, taskvars
<1>4. \/ Moved(f, "backup", "blk") /\ dirs' = {dir'} /\ faults' = faults
      \/ Fault /\ dir' = dir /\ dirs' = dirs
      \/ Fault /\ Moved(f, "backup", "blk") /\ dirs' = dirs \cup {dir'}
  <2>1. dir[f]["backup"] # "none"
    BY <1>2, CompleteFacts
  <2> QED BY <1>1, <2>1, RenameOkFacts, RenameFailsFacts DEF RollbackRename, Names
<1>5. faults' \in 0..MaxFaults /\ faults' >= 1
  BY <1>1, <1>2, <1>4 DEF Fault
<1>6. CASE Moved(f, "backup", "blk") /\ (dirs' = {dir'} \/ dirs' = dirs \cup {dir'})
  <2>1. dir'[f]["blk"] \in Complete /\ dir'[f]["backup"] = "none" /\ dir'[f]["temp"] = dir[f]["temp"]
    BY <1>2, <1>6 DEF Moved, Names
  <2>2. PreparedOK(dir[f])'
    BY <1>0, <1>2, <1>3, <1>5, <2>1 DEF PreparedOK, Held
  <2>3. OnDisk(dir'[f], FALSE)
    BY <2>1 DEF OnDisk
  <2> QED BY <1>0, <1>1, <1>5, <1>6, <2>2, <2>3, HandoffStep DEF Moved
<1>7. CASE Fault /\ dir' = dir /\ dirs' = dirs
  <2>1. MaxFaults > 1
    BY <1>1, <1>2, <1>7 DEF Fault
  <2>2. PreparedOK(dir[f])'
    BY <1>0, <1>2, <1>3, <1>5, <1>7, <2>1 DEF PreparedOK, Held
  <2>3. OnDisk(dir'[f], FALSE)
    BY <1>2, <1>7 DEF OnDisk
  <2> QED BY <1>0, <1>1, <1>5, <1>7, <2>2, <2>3, HandoffStep
<1> QED BY <1>4, <1>6, <1>7

LEMMA RollbackRemoveIInv == IInv /\ RollbackRemove => IInv'
<1> SUFFICES ASSUME IInv, RollbackRemove PROVE IInv'
  OBVIOUS
<1> DEFINE f == pending.file
<1>0. /\ pc = "cleanup" /\ pc' = "idle" /\ pending.stage = "prepared" /\ PreparedOK(dir[f])
      /\ UNCHANGED <<dbvars, memvars, taskvars, height>>
  BY DEF RollbackRemove, IInv, PendingOK
<1>1. /\ dir \in Directories /\ dir \in dirs /\ f \in Files
      /\ faults \in 0..MaxFaults /\ MaxFaults \in Nat
  BY TypeFacts DEF IInv
<1>2. mem' = mem /\ pending' = pending
  BY <1>0 DEF memvars, taskvars
<1>3. faults' \in 0..MaxFaults /\ faults' >= 1
  BY <1>0, <1>1, FaultType DEF RollbackRemove, PreparedOK
<1>4. CASE Unsynced(Removed(dir, f, "temp"))
  <2>1. /\ dir' \in Directories /\ dirs' = dirs \cup {dir'} /\ dir'[f]["temp"] = "none"
        /\ \A n \in Names \ {"temp"} : dir'[f][n] = dir[f][n]
        /\ \A g \in Files \ {f} : dir'[g] = dir[g]
    BY <1>1, <1>4, UnsyncedRemoved DEF Names
  <2>2. Held(dir'[f])
    BY <1>0, <2>1 DEF PreparedOK, Names, Held
  <2>3. PreparedOK(dir[f])'
    BY <1>0, <1>2, <1>3, <2>1, <2>2 DEF PreparedOK, Held
  <2>4. OnDisk(dir'[f], FALSE)
    BY <2>2 DEF Held, OnDisk
  <2> QED BY <1>0, <1>1, <1>3, <2>1, <2>3, <2>4, HandoffStep
<1>5. CASE UNCHANGED diskvars
  <2>1. PreparedOK(dir[f])'
    BY <1>0, <1>2, <1>3, <1>5 DEF PreparedOK, Held, diskvars
  <2>2. OnDisk(dir'[f], FALSE)
    BY <1>0, <1>5, HandoffOnDisk DEF diskvars
  <2> QED BY <1>0, <1>1, <1>3, <1>5, <2>1, <2>2, HandoffStep DEF diskvars
<1> QED BY <1>4, <1>5 DEF RollbackRemove
\* FinalizeWitnessCompaction removes the rollback copy of a file the index on
\* disk has as pruned.
LEMMA FinalizeIInv == IInv /\ FinalizeWitnessCompaction => IInv'
<1> SUFFICES ASSUME IInv, FinalizeWitnessCompaction PROVE IInv'
  OBVIOUS
<1> DEFINE f == pending.file
           e == Removed(dir, f, "backup")
<1>0. /\ TypeOK /\ pc = "finalize" /\ pc' = "idle" /\ index = mem
      /\ UNCHANGED <<dbvars, memvars, check, height>>
  BY DEF FinalizeWitnessCompaction, IInv, IndexOK
<1>1. /\ dir \in Directories /\ dirs \subseteq Directories /\ dir \in dirs /\ f \in Files
      /\ pending \in [file : Files, stage : Stages] /\ DataFiles \subseteq Files
      /\ faults \in 0..MaxFaults /\ MaxFaults \in Nat /\ watermark \in -1..MaxFile
      /\ index \in [Files -> BOOLEAN]
  BY <1>0, TypeFacts
<1>2. CASE pending.stage = "none" /\ UNCHANGED <<diskvars, faults, watermark, pending>>
  <2>1. TypeOK'
    BY <1>0, <1>2 DEF TypeOK, PCs, diskvars, dbvars, memvars
  <2>2. (\A d \in dirs : DirOK(d, index))' /\ WatermarkSound' /\ StartupSucceeds'
    BY <1>0, <1>2 DEF IInv, WatermarkSound, StartupSucceeds, diskvars, dbvars, memvars
  <2>3. IndexOK' /\ FlagOK' /\ OthersOK'
    BY <1>0, <1>2 DEF IInv, IndexOK, FlagOK, OthersOK, Plain, diskvars, dbvars, memvars
  <2>4. PendingOK'
    BY <1>0, <1>2 DEF PendingOK
  <2> QED BY <2>1, <2>2, <2>3, <2>4 DEF IInv
<1>3. CASE pending.stage = "installed"
  <2>1. /\ f \in DataFiles /\ mem[f] /\ index[f] /\ InstalledOK
    BY <1>0, <1>3 DEF IInv, PendingOK, InstalledOK
  <2>2. /\ e \in Directories /\ e[f]["backup"] = "none"
        /\ \A n \in Names \ {"backup"} : e[f][n] = dir[f][n]
        /\ \A g \in Files \ {f} : e[g] = dir[g]
    BY <1>1, RemovedType DEF Names
  <2>3. e[f]["blk"] = "stripped" /\ e[f]["temp"] = "none"
    BY <1>1, <2>1, <2>2 DEF InstalledOK, Names
  <2>4. DirOK(e, index)
    <3>1. OnDisk(e[f], index[f])
      BY <2>1, <2>2, <2>3 DEF OnDisk
    <3>2. DirOK(dir, index)
      BY <1>1 DEF IInv
    <3>3. f \in DataFiles /\ \A g \in Files \ {f} : e[g] = dir[g]
      BY <2>1, <2>2
    <3> HIDE DEF e, f
    <3> QED BY <3>1, <3>2, <3>3, OneFileOK
  <2>5. \A g \in DataFiles \ {f} : Plain(g)
    BY <1>0 DEF IInv, OthersOK
  <2> HIDE DEF e
  <2>6. CASE /\ Synced(e) /\ UNCHANGED faults /\ pending' = NoPending
             /\ watermark' = IF f = watermark + 1 THEN f ELSE watermark
    <3>1. dir' = e /\ dirs' = {e} /\ pending'.stage = "none"
          /\ pending' \in [file : Files, stage : Stages]
      BY <2>6, FileAssumption DEF Synced, NoPending, Stages, Files
    <3>2. watermark' \in -1..MaxFile /\ WatermarkSound'
      <4>1. f \in 0..MaxFile /\ MaxFile \in Nat
        BY <1>1, FileAssumption DEF Files
      <4>2. ASSUME NEW g \in DataFiles, g <= watermark' PROVE mem[g]
        <5>1. g \in 0..MaxFile
          BY <1>1 DEF Files
        <5>2. g <= watermark \/ g = f
          BY <1>1, <2>6, <4>1, <4>2, <5>1
        <5> QED BY <2>1, <5>2 DEF IInv, WatermarkSound
      <4>3. watermark' \in -1..MaxFile
        BY <1>1, <2>6, <4>1
      <4> QED BY <1>0, <4>2, <4>3 DEF WatermarkSound, memvars
    <3>3. TypeOK'
      BY <1>0, <1>1, <2>2, <2>6, <3>1, <3>2 DEF TypeOK, PCs, dbvars, memvars
    <3>4. (\A d \in dirs : DirOK(d, index))' /\ IndexOK' /\ FlagOK' /\ StartupSucceeds'
      BY <1>0, <2>4, <3>1 DEF IInv, IndexOK, FlagOK, StartupSucceeds, dbvars, memvars
    <3>5. OthersOK'
      <4>1. ASSUME NEW g \in DataFiles PROVE Plain(g)'
        <5>1. CASE g = f
          BY <1>0, <2>1, <2>2, <2>3, <3>1, <5>1 DEF Plain, memvars
        <5>2. CASE g # f
          BY <1>0, <1>1, <2>2, <2>5, <3>1, <5>2 DEF Plain, memvars
        <5> QED BY <5>1, <5>2
      <4> QED BY <4>1 DEF OthersOK
    <3>6. PendingOK'
      BY <1>0, <3>1 DEF PendingOK
    <3> QED BY <3>2, <3>3, <3>4, <3>5, <3>6 DEF IInv
  <2>7. CASE Fault /\ (UNCHANGED diskvars \/ Unsynced(e)) /\ UNCHANGED <<watermark, pending>>
    <3>1. /\ dir' \in Directories /\ dir' \in dirs' /\ \A d \in dirs' : d \in dirs \/ d = e
          /\ \A g \in Files \ {f} : dir'[g] = dir[g]
      BY <1>1, <2>2, <2>7 DEF Unsynced, diskvars
    <3>2. faults' \in 0..MaxFaults
      BY <1>1, <2>7, FaultType
    <3>3. TypeOK'
      BY <1>0, <1>1, <2>2, <2>7, <3>1, <3>2 DEF TypeOK, PCs, dbvars, memvars
    <3>4. (\A d \in dirs : DirOK(d, index))'
      BY <1>0, <2>4, <3>1 DEF IInv, dbvars
    <3>5. IndexOK' /\ FlagOK' /\ StartupSucceeds' /\ WatermarkSound'
      BY <1>0, <2>7 DEF IInv, IndexOK, FlagOK, StartupSucceeds, WatermarkSound, dbvars, memvars
    <3>6. OthersOK'
      BY <1>0, <1>1, <1>3, <2>5, <2>7, <3>1 DEF OthersOK, Plain, memvars
    <3>7. PendingOK'
      <4>1. InstalledOK'
        BY <1>0, <2>1, <2>3, <2>7, <3>1 DEF InstalledOK, memvars
      <4> QED BY <1>0, <1>3, <2>1, <2>7, <4>1 DEF PendingOK
    <3> QED BY <3>3, <3>4, <3>5, <3>6, <3>7 DEF IInv
  <2> QED BY <1>3, <2>6, <2>7 DEF FinalizeWitnessCompaction, e
<1> QED BY <1>2, <1>3 DEF FinalizeWitnessCompaction

-----------------------------------------------------------------------------
(* Crashes and the startup.                                                *)

\* After a crash only the directory and the database count.
LEMMA Crashed ==
    ASSUME IInv, LoseMemory, dir' \in dirs', dirs' \subseteq Directories,
           \A d \in dirs' : DirOK(d, index)
    PROVE  IInv'
<1>0. /\ mem' = index /\ have' = flag /\ write_flag' = FALSE /\ pending' = NoPending
      /\ watermark' = -1 /\ check' = TRUE /\ pc' = "startup" /\ UNCHANGED <<dbvars, height, faults>>
  BY DEF LoseMemory
<1>1. pending'.stage = "none" /\ pending' \in [file : Files, stage : Stages] /\ MaxFile \in Nat
  BY <1>0, FileAssumption DEF NoPending, Stages, Files
<1>2. TypeOK'
  <2>1. /\ index' \in [Files -> BOOLEAN] /\ mem' \in [Files -> BOOLEAN]
        /\ flag' \in BOOLEAN /\ have' \in BOOLEAN /\ write_flag' \in BOOLEAN /\ check' \in BOOLEAN
    BY <1>0 DEF IInv, TypeOK, dbvars
  <2>2. watermark' \in -1..MaxFile /\ pc' \in PCs
    BY <1>0, <1>1 DEF PCs
  <2> QED BY <1>0, <1>1, <2>1, <2>2 DEF IInv, TypeOK
<1>3. (\A d \in dirs : DirOK(d, index))' /\ IndexOK' /\ FlagOK' /\ StartupSucceeds'
  BY <1>0 DEF IInv, IndexOK, FlagOK, StartupSucceeds, dbvars
<1>4. WatermarkSound'
  BY <1>0, <1>1 DEF WatermarkSound, DataFiles, Files
<1>5. OthersOK' /\ PendingOK'
  BY <1>0, <1>1 DEF OthersOK, PendingOK
<1> QED BY <1>2, <1>3, <1>4, <1>5 DEF IInv

LEMMA KillIInv == IInv /\ (Kill \/ PowerLoss) => IInv'
<1> SUFFICES ASSUME IInv, Kill \/ PowerLoss PROVE IInv'
  OBVIOUS
<1>0. dir \in dirs /\ dirs \subseteq Directories /\ "torn" \in Contents
  BY TypeFacts DEF IInv, Contents
<1>1. \A d \in dirs : Settled(d, "torn") \in Directories /\ DirOK(Settled(d, "torn"), index)
  BY <1>0, SettledType, SettledOK DEF IInv
<1>2. /\ LoseMemory
      /\ \/ dir' = Settled(dir, "torn") /\ dirs' = {Settled(d, "torn") : d \in dirs}
         \/ \E d \in dirs : dir' = Settled(d, "torn") /\ dirs' = {dir'}
  BY DEF Kill, PowerLoss, Synced
<1>3. dir' \in dirs' /\ \A d \in dirs' : \E b \in dirs : d = Settled(b, "torn")
  BY <1>0, <1>2
<1>4. dirs' \subseteq Directories /\ \A d \in dirs' : DirOK(d, index)
  BY <1>1, <1>3
<1> QED BY <1>2, <1>3, <1>4, Crashed

\* A file the startup can proceed from is not given up, the recovery makes
\* another such file of it, and so does one that an error cuts short.
LEMMA RecoveryOK ==
    ASSUME NEW e \in [Names -> Contents], NEW pruned \in BOOLEAN, OnDisk(e, pruned)
    PROVE  /\ ~RecoveryThrows(e, pruned)
           /\ Recovered(e, pruned)["backup"] = "none" /\ Recovered(e, pruned)["temp"] = "none"
           /\ e["temp"] # "none" \/ e["backup"] # "none" => OnDisk(Recovered(e, pruned), pruned)
           /\ Recovered(e, pruned) \in [Names -> Contents]
<1>1. Recovered(e, pruned) \in [Names -> Contents]
  BY DEF Recovered, Names, Contents
<1>2. /\ Recovered(e, pruned)["backup"] = "none" /\ Recovered(e, pruned)["temp"] = "none"
      /\ Recovered(e, pruned)["blk"] =
            IF e["backup"] # "none" THEN (IF pruned THEN e["blk"] ELSE e["backup"])
            ELSE IF pruned THEN e["temp"] ELSE e["blk"]
  BY DEF Recovered, Names
<1>3. ~RecoveryThrows(e, pruned)
  BY DEF RecoveryThrows, OnDisk
<1>4. e["temp"] # "none" \/ e["backup"] # "none" => OnDisk(Recovered(e, pruned), pruned)
  BY <1>2 DEF OnDisk
<1> QED BY <1>1, <1>2, <1>3, <1>4

LEMMA RecoverFileIInv ==
    ASSUME IInv, NEW f \in Files, RecoverFile(f)
    PROVE  IInv'
<1> DEFINE r == Recovered(dir[f], index[f])
           new == [dir EXCEPT ![f] = r]
           partial == Removed(dir, f, "temp")
<1>0. /\ TypeOK /\ pc = "startup" /\ Leftover(f)
      /\ UNCHANGED <<dbvars, memvars, taskvars, height, pc>>
  BY DEF IInv, RecoverFile
<1>1. /\ dir \in Directories /\ dirs \subseteq Directories /\ dir \in dirs
      /\ faults \in 0..MaxFaults /\ MaxFaults \in Nat /\ index \in [Files -> BOOLEAN]
  BY <1>0, TypeFacts
<1>2. f \in DataFiles /\ DirOK(dir, index) /\ OnDisk(dir[f], index[f])
  BY <1>0, <1>1 DEF IInv, DirOK, Leftover, DataFiles, Names
<1>3. dir[f] \in [Names -> Contents] /\ index[f] \in BOOLEAN
  BY <1>1 DEF Directories
<1>4. r \in [Names -> Contents] /\ OnDisk(r, index[f])
  BY <1>0, <1>2, <1>3, RecoveryOK DEF Leftover
<1>5. new \in Directories /\ DirOK(new, index)
  <2> HIDE DEF r
  <2>1. new \in Directories /\ new[f] = r /\ \A g \in Files \ {f} : new[g] = dir[g]
    BY <1>1, <1>4 DEF Directories
  <2>2. OnDisk(new[f], index[f])
    BY <1>4, <2>1
  <2> HIDE DEF new
  <2> QED BY <1>2, <2>1, <2>2, OneFileOK
<1>6. ~index[f] => partial \in Directories /\ DirOK(partial, index)
  <2>1. /\ partial \in Directories
        /\ \A n \in Names \ {"temp"} : partial[f][n] = dir[f][n]
        /\ \A g \in Files \ {f} : partial[g] = dir[g]
    BY <1>1, RemovedType DEF Names
  <2> HIDE DEF partial
  <2> QED BY <1>2, <2>1, TempOK
<1>7. \/ UNCHANGED faults /\ (Synced(new) \/ Unsynced(new))
      \/ Fault /\ \E d \in {dir, IF index[f] THEN dir ELSE partial, new} : Unsynced(d)
  BY DEF RecoverFile
<1> HIDE DEF new, partial
<1>8. dir' \in {dir, new} \/ (~index[f] /\ dir' = partial)
  BY <1>7 DEF Synced, Unsynced
<1>9. dirs' = {dir'} \/ dirs' = dirs \cup {dir'}
  BY <1>7 DEF Synced, Unsynced
<1>10. faults' \in 0..MaxFaults
  BY <1>1, <1>7, FaultType
<1>11. dir' \in Directories /\ DirOK(dir', index)
  BY <1>1, <1>2, <1>5, <1>6, <1>8
<1>12. TypeOK'
  BY <1>0, <1>1, <1>9, <1>10, <1>11 DEF TypeOK, dbvars, memvars, taskvars
<1>13. (\A d \in dirs : DirOK(d, index))'
  BY <1>0, <1>9, <1>11 DEF IInv, dbvars
<1>14. IndexOK' /\ FlagOK' /\ StartupSucceeds' /\ WatermarkSound'
  BY <1>0 DEF IInv, IndexOK, FlagOK, StartupSucceeds, WatermarkSound, dbvars, memvars, taskvars
<1>15. OthersOK' /\ PendingOK'
  BY <1>0 DEF IInv, OthersOK, PendingOK, taskvars
<1> QED BY <1>12, <1>13, <1>14, <1>15 DEF IInv

LEMMA StartupEndsIInv == IInv /\ StartupEnds => IInv'
<1> SUFFICES ASSUME IInv, StartupEnds PROVE IInv'
  OBVIOUS
<1>0. /\ TypeOK /\ pc = "startup" /\ UNCHANGED <<diskvars, dbvars, memvars, taskvars, height, faults>>
      /\ index = mem /\ pending.stage = "none"
  BY DEF IInv, StartupEnds, IndexOK, PendingOK
<1>1. /\ dir \in Directories /\ dir \in dirs /\ index \in [Files -> BOOLEAN]
      /\ DataFiles \subseteq Files /\ DirOK(dir, index)
  BY <1>0, TypeFacts DEF IInv
<1>2. ASSUME NEW f \in Files PROVE ~RecoveryThrows(dir[f], index[f])
  <2>1. CASE f \in EmptyFiles
    BY <1>1, <2>1 DEF DirOK, RecoveryThrows, Names
  <2>2. CASE f \notin EmptyFiles
    <3>1. OnDisk(dir[f], index[f]) /\ dir[f] \in [Names -> Contents] /\ index[f] \in BOOLEAN
      BY <1>1, <2>2 DEF DirOK, DataFiles, Directories
    <3> QED BY <3>1, RecoveryOK
  <2> QED BY <2>1, <2>2
<1>3. \A f \in Files : ~Leftover(f)
  BY <1>2 DEF StartupEnds
<1>4. \A f \in DataFiles : Plain(f)
  BY <1>0, <1>1, <1>3, CompleteFacts DEF DirOK, OnDisk, Plain, Leftover, diskvars
<1>5. ~MissingFile
  BY <1>4, CompleteFacts DEF MissingFile, Plain
<1>6. pc' = "idle"
  BY <1>2, <1>5 DEF StartupEnds
<1>7. TypeOK'
  BY <1>0, <1>6 DEF TypeOK, PCs, diskvars, dbvars, memvars, taskvars
<1>8. (\A d \in dirs : DirOK(d, index))' /\ IndexOK' /\ FlagOK' /\ StartupSucceeds' /\ WatermarkSound'
  BY <1>0, <1>6 DEF IInv, IndexOK, FlagOK, StartupSucceeds, WatermarkSound, diskvars, dbvars, memvars, taskvars
<1>9. OthersOK'
  BY <1>0, <1>4 DEF OthersOK, Plain, diskvars, memvars
<1>10. PendingOK'
  BY <1>0, <1>6 DEF PendingOK, taskvars
<1> QED BY <1>7, <1>8, <1>9, <1>10 DEF IInv

LEMMA NextIInv == IInv /\ [Next]_vars => IInv'
<1> SUFFICES ASSUME IInv, [Next]_vars PROVE IInv'
  OBVIOUS
<1>1. CASE UNCHANGED vars
  <2>1. UNCHANGED <<dir, dirs, index, flag, mem, have, write_flag, pending, watermark, check, height, pc, faults>>
    BY <1>1 DEF vars, diskvars, dbvars, memvars, taskvars
  <2>2. TypeOK' /\ StartupSucceeds' /\ WatermarkSound' /\ (\A d \in dirs : DirOK(d, index))'
    BY <2>1 DEF IInv, TypeOK, StartupSucceeds, WatermarkSound
  <2>3. IndexOK' /\ FlagOK' /\ OthersOK'
    BY <2>1 DEF IInv, IndexOK, FlagOK, OthersOK, Plain
  <2>4. PendingOK'
    BY <2>1 DEF IInv, PendingOK, PreparedOK, InstalledOK
  <2> QED BY <2>2, <2>3, <2>4 DEF IInv
<1>2. CASE Next
  BY <1>2, PrepareNothingIInv, PrepareOpenIInv, PrepareWriteIInv, FlushSteps, InstallBackupIInv,
     InstallRenameIInv, RollbackRenameIInv, RollbackRemoveIInv, WriteBlockIndexDBIInv,
     FinalizeIInv, KillIInv, RecoverFileIInv, StartupEndsIInv DEF Next
<1> QED BY <1>1, <1>2

-----------------------------------------------------------------------------
(* The theorems.                                                           *)

\* The invariant holds in every reachable state.
THEOREM Invariance == Spec => []IInv
BY InitIInv, NextIInv, PTL DEF Spec

\* Every variable has its type.
THEOREM TypeCorrect == Spec => []TypeOK
BY Invariance, PTL DEF IInv

\* RecoverPendingWitnessCompactions never gives up and never finds a block file
\* missing, wherever the crashes fell and however many calls failed.
THEOREM RecoverySucceeds == Spec => []StartupSucceeds
BY Invariance, PTL DEF IInv

\* With at most one failing call, between flushes each canonical file is the one
\* the index in memory describes (InstallWitnessCompaction and its rollback).
THEOREM FilesMatchIndex == ASSUME MaxFaults <= 1 PROVE Spec => []IndexMatchesFiles
<1>1. IInv => IndexMatchesFiles
  BY CompleteFacts DEF IInv, IndexMatchesFiles, OthersOK, Plain
<1> QED BY <1>1, Invariance, PTL

\* With at most one failing call, as long as the index on disk has a file as
\* complete, every directory a power loss may leave has a complete copy of it.
THEOREM WitnessesSurvive == ASSUME MaxFaults <= 1 PROVE Spec => []WitnessesKept
<1>1. IInv => WitnessesKept
  BY CompleteFacts DEF IInv, WitnessesKept, DirOK, OnDisk
<1> QED BY <1>1, Invariance, PTL

\* With at most one failing call, the -reindex guard refuses a node that has a
\* stripped file and was stopped between flushes (WriteBlockIndexDB, which
\* writes the flag with the first pruned entries).
THEOREM FlagIsInTime == ASSUME MaxFaults <= 1 PROVE Spec => []FlagInTime
<1>1. IInv => FlagInTime
  <2> SUFFICES ASSUME IInv, pc = "idle", pending.stage = "none",
                      NEW f \in DataFiles, dir[f]["blk"] = "stripped"
               PROVE  flag
    BY DEF FlagInTime, HasStripped, ReindexRefused
  <2>1. Plain(f)
    BY DEF IInv, OthersOK
  <2>2. mem[f]
    BY <2>1, CompleteFacts DEF Plain
  <2>3. index[f]
    BY <2>2 DEF IInv, IndexOK, DataFiles
  <2> QED BY <2>3 DEF IInv, FlagOK, DataFiles
<1> QED BY <1>1, Invariance, PTL

\* No file that still has witnesses is behind the watermark, however many calls
\* of the compaction failed.
THEOREM WatermarkIsSound == Spec => []WatermarkSound
BY Invariance, PTL DEF IInv

\* PrepareWitnessCompaction finds no backup in its way, however many calls of
\* earlier compactions failed.
THEOREM PreparationNotRefused == Spec => []NeverRefuses
<1>1. IInv => NeverRefuses
  BY DEF IInv, NeverRefuses, OthersOK, Plain
<1> QED BY <1>1, Invariance, PTL
=============================================================================
