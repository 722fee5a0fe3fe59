--------------------------- MODULE KernelUpgradeProofs ---------------------------
(***************************************************************************)
(* Theorems about KernelUpgrade, for every value of its constants.  The    *)
(* invariant says, for each place of the upgrade, where the old executable *)
(* is, what the version reported stands for, and who may run xray.         *)
(***************************************************************************)
EXTENDS KernelUpgrade, XrayProcProofs

\* Where each goroutine can be, and who may hold p.mu there.
PlacesInv ==
    /\ alive \in BOOLEAN
    /\ main = "boot" => up = "boot" /\ geo = "off"
    /\ mu = "up" => up \in {"start", "startBack"} \/ (up = "revive" /\ job.wasRunning)
    /\ mu = "geo" => geo = "start"

\* Both upgrades hold upgrading from their acceptance to their end.
FlagsInv ==
    /\ up \notin {"boot", "off"} => upgrading /\ self = "off"
    /\ self # "off" => upgrading

BeforeReplace == {"probe", "compare", "download", "verify", "look", "stop", "backup"}
Replaced == {"reprobe", "undo", "reset", "start", "rollback"}

\* The old executable is at binPath, in .prev, or lost to a roll-back that failed.
OldKernelInv ==
    /\ up \in BeforeReplace \cup {"rename", "resetBack", "startBack"} => bin = before
    /\ up \in Replaced \cup {"rename"} => prev = before
    /\ up = "revive" => bin = before \/ astray

\* The version that is reported is that of the executable the last probe saw.
VersionInv ==
    /\ up = "boot" => version = None
    /\ ~astray => version \in {None, IF up \in {"reprobe", "undo"} THEN VersionOf(prev)
                                      ELSE VersionOf(bin)}

\* What Verify saw is what is installed, and until Start nobody runs anything else.
TargetInv ==
    /\ up \in {"look", "stop", "backup", "rename"} \cup Replaced => job.data = job.target
    /\ up \in Replaced => bin = job.target
    /\ up \in {"backup", "rename", "reprobe", "reset", "start"} /\ ~raced /\ main # "gone"
         => ~alive \/ (up = "start" /\ mu = "up" /\ image = bin)

KernelInv ==
    KernelTypeOK /\ PlacesInv /\ FlagsInv /\ OldKernelInv /\ FailureKeepsKernel /\ VersionInv
    /\ TargetInv

-------------------------------------------------------------------------------
(* The supervisor's own steps.                                               *)

\* What a step of the supervisor may do to the process while another goroutine holds p.mu,
\* and that nobody but a new process of the agent comes back to "boot".
SupMove ==
    /\ alive' \in BOOLEAN
    /\ main' = "boot" => main = "boot"
    /\ main = "gone" => main' = "gone"
    /\ mu' \in {"free", "main", "dog", mu}
    /\ mu \in {"up", "geo"} => alive' = alive /\ (mu' = mu \/ main' = "gone")

SupNext == Main \/ Watchdog \/ Death \/ Mature \/ TimerFires \/ CooldownEnds \/ Command

LEMMA SupMoves ==
    ASSUME alive \in BOOLEAN, main = "boot" => mu \notin {"up", "geo"}, SupNext
    PROVE  SupMove
  <1> USE Tables DEF SupMove, files, process, fields, dogVars, mainVars
  <1>1. CASE Boot
    BY <1>1 DEF Boot
  <1>2. CASE StartWatchdog
    BY <1>2 DEF StartWatchdog
  <1>3. CASE MainStart
    BY <1>3 DEF MainStart, StartWorks, StartFails, StartsNothing, Survives, CannotSpawn,
       CannotLog, Dies, DiesSoon, Spawns
  <1>4. CASE MainStop
    BY <1>4 DEF MainStop, Stops
  <1>5. CASE MainReset
    BY <1>5 DEF MainReset, Resets
  <1>6. CASE Backup \/ Replace \/ Commit \/ Judge \/ Restore \/ HotGood
    BY <1>6 DEF Backup, Replace, Commit, Judge, Restore, HotGood
  <1>7. CASE Leave
    BY <1>7 DEF Leave
  <1>8. CASE Command
    BY <1>8 DEF Command, Push, Hot, RestartXray, Exit
  <1>9. CASE DogCheck \/ DogHealthy \/ DogDecide \/ DogMarks \/ DogNotifies
    BY <1>9 DEF DogCheck, DogHealthy, DogDecide, DogMarks, DogNotifies
  <1>10. CASE DogReadsGood \/ DogWritesGood \/ DogReset
    BY <1>10 DEF DogReadsGood, DogWritesGood, DogReset, Resets
  <1>11. CASE DogStart
    BY <1>11 DEF DogStart, StartWorks, StartFails, StartsNothing, Survives, CannotSpawn,
       CannotLog, Dies, DiesSoon, Spawns
  <1>12. CASE Death \/ Mature \/ TimerFires \/ CooldownEnds
    BY <1>12 DEF Death, Mature, TimerFires, CooldownEnds
  <1> QED
    BY <1>1, <1>2, <1>3, <1>4, <1>5, <1>6, <1>7, <1>8, <1>9, <1>10, <1>11, <1>12
       DEF SupNext, Main, Watchdog

\* Whoever creates a process between the Stop and the Start of the upgrade leaves a trace.
Runs ==
    /\ raced' \in BOOLEAN /\ (raced => raced')
    /\ \/ ~(alive' /\ ~alive) /\ image' = image
       \/ alive' /\ ~alive /\ image' = bin /\ (up \in {"off", "boot"} \/ raced')

LEMMA SuperviseMoves ==
    ASSUME KernelInv, Supervise \/ KernelDies \/ UNCHANGED allVars
    PROVE  UNCHANGED kernelVars /\ SupMove /\ Runs
  <1>0. /\ alive \in BOOLEAN /\ raced \in BOOLEAN /\ mu \in {"free", "main", "dog", "up", "geo"}
        /\ main = "boot" => mu \notin {"up", "geo"}
    BY DEF KernelInv, KernelTypeOK, PlacesInv
  <1>1. CASE Supervise
    <2>1. SupNext
      BY <1>1, Zenon DEF Supervise, SupNext
    <2>2. SupMove
      BY <1>0, <2>1, SupMoves
    <2>3. Runs
      BY <1>0, <1>1, <2>2 DEF Supervise, Executes, Races, Runs, SupMove
    <2> QED BY <1>1, <2>2, <2>3 DEF Supervise
  <1>2. CASE KernelDies
    <2>1. SupMove
      BY <1>0, <1>2, Tables DEF KernelDies, DiesSoon, SupMove, dogVars, mainVars
    <2>2. alive' = FALSE
      BY <1>2 DEF KernelDies, DiesSoon
    <2> QED BY <1>0, <1>2, <2>1, <2>2 DEF KernelDies, Runs
  <1>3. CASE UNCHANGED allVars
    BY <1>0, <1>3 DEF allVars, vars, process, Runs, SupMove
  <1> QED BY <1>1, <1>2, <1>3

LEMMA KernelOthersStep ==
    ASSUME KernelInv, UNCHANGED kernelVars, SupMove, Runs
    PROVE  KernelInv'
  <1> USE DEF KernelInv, kernelVars, flags, SupMove, Runs
  <1>1. KernelTypeOK'
    BY DEF KernelTypeOK, Image, Job
  <1>2. PlacesInv'
    BY DEF PlacesInv, KernelTypeOK
  <1>3. FlagsInv'
    BY DEF FlagsInv
  <1>4. OldKernelInv'
    BY DEF OldKernelInv, BeforeReplace, Replaced
  <1>5. FailureKeepsKernel'
    BY DEF FailureKeepsKernel
  <1>6. VersionInv'
    BY DEF VersionInv, VersionOf
  <1>7. TargetInv'
    BY DEF TargetInv, Replaced, KernelTypeOK, PlacesInv
  <1> QED BY <1>1, <1>2, <1>3, <1>4, <1>5, <1>6, <1>7

-------------------------------------------------------------------------------
(* The steps of the upgrade and of the goroutines beside it.                 *)

LEMMA KernelInitInv == KernelInit => KernelInv
  <1> SUFFICES ASSUME KernelInit PROVE KernelInv
    OBVIOUS
  <1>1. NoJob \in Job
    BY KernelAssumption DEF NoJob, Job
  <1> QED BY <1>1 DEF KernelInit, Init, KernelInv, KernelTypeOK, PlacesInv, FlagsInv, OldKernelInv,
       BeforeReplace, Replaced, FailureKeepsKernel, VersionInv, TargetInv

KernelFlags == /\ upgrading \in BOOLEAN /\ upgradingXray \in BOOLEAN
               /\ raced \in BOOLEAN /\ astray \in BOOLEAN

KernelRest ==
    /\ bin \in Image /\ prev \in Image \cup {None} /\ image \in Image
    /\ version \in Release \cup {None}
    /\ up \in {"boot", "off", "probe", "compare", "download", "verify", "look", "stop",
               "backup", "rename", "reprobe", "undo", "revive", "reset", "start",
               "rollback", "resetBack", "startBack", "release", "unlock"}
    /\ result \in {"none", "noop", "success", "restored", "failed"}
    /\ before \in Image
    /\ self \in {"off", "work", "restart", "exit"}
    /\ geo \in {"off", "stop", "start"}
    /\ mu \in {"free", "main", "dog", "up", "geo"}
    /\ mu \in {"up", "geo"} => alive

LEMMA KernelTypeParts == KernelTypeOK <=> KernelFlags /\ KernelRest /\ job \in Job
  BY DEF KernelTypeOK, KernelFlags, KernelRest

LEMMA KernelTypeNext == KernelFlags' /\ KernelRest' /\ job' \in Job => KernelTypeOK'
  BY DEF KernelTypeOK, KernelFlags, KernelRest, Image, Job

LEMMA JobMoves ==
    ASSUME NEW j \in Job
    PROVE  /\ \A v \in Release \cup {None} : [j EXCEPT !.from = v] \in Job
           /\ \A v \in Image \cup {None} : [j EXCEPT !.data = v] \in Job
           /\ \A v \in BOOLEAN : [j EXCEPT !.wasRunning = v] \in Job
  BY Zenon DEF Job

LEMMA KernelStep == KernelInv /\ [KernelNext]_allVars => KernelInv'
  <1> SUFFICES ASSUME KernelInv, [KernelNext]_allVars PROVE KernelInv'
    OBVIOUS
  <1>0. KernelFlags /\ KernelRest /\ job \in Job
    BY KernelTypeParts DEF KernelInv
  <1>j. NoJob \in Job /\ alive \in BOOLEAN
    BY KernelAssumption DEF NoJob, Job, KernelInv, PlacesInv
  <1> USE KernelAssumption DEF KernelInv, quiet, flags, history, unconcerned, vars, files,
          process, fields, dogVars, mainVars, Event, Going
  <1>1. CASE AgentCrash \/ NextProcess
    <2>1. KernelFlags'
      BY <1>0, <1>1, Zenon DEF KernelFlags, AgentCrash, Crash, Ends, NextProcess
    <2>2. KernelRest'
      BY <1>0, <1>1 DEF KernelRest, PlacesInv, Image, VersionOf, AgentCrash, Crash, Ends,
         NextProcess
    <2>3. job' \in Job
      BY <1>j, <1>1, Zenon DEF AgentCrash, Crash, Ends, NextProcess
    <2>4. PlacesInv' /\ FlagsInv' /\ OldKernelInv'
      BY <1>1 DEF PlacesInv, FlagsInv, OldKernelInv, BeforeReplace, Replaced, Job,
         KernelTypeOK, AgentCrash, Crash, Ends, NextProcess
    <2>5. FailureKeepsKernel'
      BY <1>1 DEF FailureKeepsKernel, OldKernelInv, BeforeReplace, AgentCrash, Crash, Ends,
         NextProcess
    <2>6. VersionInv'
      BY <1>1 DEF VersionInv, VersionOf, KernelTypeOK, OldKernelInv, AgentCrash, Crash, Ends,
         NextProcess
    <2>7. TargetInv'
      BY <1>1 DEF TargetInv, Replaced, KernelTypeOK, PlacesInv, Job, AgentCrash, Crash, Ends,
         NextProcess
    <2> QED BY <2>1, <2>2, <2>3, <2>4, <2>5, <2>6, <2>7, KernelTypeNext
  <1>2. CASE ProbeAtStart
    <2>1. KernelFlags'
      BY <1>0, <1>2, Zenon DEF KernelFlags, ProbeAtStart
    <2>2. KernelRest'
      BY <1>0, <1>2 DEF KernelRest, PlacesInv, Image, VersionOf, ProbeAtStart
    <2>3. job' \in Job
      BY <1>0, <1>2 DEF ProbeAtStart
    <2>4. PlacesInv' /\ FlagsInv' /\ OldKernelInv'
      BY <1>2 DEF PlacesInv, FlagsInv, OldKernelInv, BeforeReplace, Replaced, KernelTypeOK,
         ProbeAtStart
    <2>5. FailureKeepsKernel'
      BY <1>2 DEF FailureKeepsKernel, OldKernelInv, BeforeReplace, ProbeAtStart
    <2>6. VersionInv'
      BY <1>2 DEF VersionInv, VersionOf, KernelTypeOK, OldKernelInv, ProbeAtStart
    <2>7. TargetInv'
      BY <1>2 DEF TargetInv, Replaced, KernelTypeOK, PlacesInv, ProbeAtStart
    <2> QED BY <2>1, <2>2, <2>3, <2>4, <2>5, <2>6, <2>7, KernelTypeNext
  <1>3. ASSUME NEW t \in Release, NEW f \in BOOLEAN, Accept(t, f) PROVE KernelInv'
    <2>1. KernelFlags'
      BY <1>0, <1>3, Zenon DEF KernelFlags, Accept
    <2>2. KernelRest'
      BY <1>0, <1>3 DEF KernelRest, PlacesInv, Image, VersionOf, Accept
    <2>3. job' \in Job
      <3>1. job' = [NoJob EXCEPT !.target = t, !.force = f]
        BY <1>3, Zenon DEF Accept
      <3> QED BY <1>j, <3>1, Zenon DEF Job
    <2>4. PlacesInv' /\ FlagsInv' /\ OldKernelInv'
      BY <1>3 DEF PlacesInv, FlagsInv, OldKernelInv, BeforeReplace, Replaced, Job,
         KernelTypeOK, Accept
    <2>5. FailureKeepsKernel'
      BY <1>3 DEF FailureKeepsKernel, OldKernelInv, BeforeReplace, Accept
    <2>6. VersionInv'
      BY <1>3 DEF VersionInv, VersionOf, KernelTypeOK, OldKernelInv, Accept
    <2>7. TargetInv'
      BY <1>3 DEF TargetInv, Replaced, KernelTypeOK, PlacesInv, Job, Accept
    <2> QED BY <2>1, <2>2, <2>3, <2>4, <2>5, <2>6, <2>7, KernelTypeNext
  <1>4. CASE ProbeFrom \/ LookIfRunning
    <2>1. KernelFlags'
      BY <1>0, <1>4, Zenon DEF KernelFlags, ProbeFrom, LookIfRunning
    <2>2. KernelRest'
      BY <1>0, <1>4 DEF KernelRest, PlacesInv, Image, VersionOf, ProbeFrom, LookIfRunning
    <2>3. job' \in Job
      <3>1. VersionOf(bin) \in Release \cup {None}
        BY DEF VersionOf
      <3>2. \/ job' = job \/ job' = [job EXCEPT !.from = VersionOf(bin)]
            \/ job' = [job EXCEPT !.wasRunning = alive]
        BY <1>4, Zenon DEF ProbeFrom, LookIfRunning
      <3> QED BY <1>0, <1>j, <3>1, <3>2, JobMoves, Zenon
    <2>4. PlacesInv' /\ FlagsInv' /\ OldKernelInv'
      BY <1>4 DEF PlacesInv, FlagsInv, OldKernelInv, BeforeReplace, Replaced, Job,
         KernelTypeOK, ProbeFrom, LookIfRunning
    <2>5. FailureKeepsKernel'
      BY <1>4 DEF FailureKeepsKernel, OldKernelInv, BeforeReplace, ProbeFrom, LookIfRunning
    <2>6. VersionInv'
      BY <1>4 DEF VersionInv, VersionOf, KernelTypeOK, OldKernelInv, ProbeFrom, LookIfRunning
    <2>7. TargetInv'
      BY <1>4 DEF TargetInv, Replaced, KernelTypeOK, PlacesInv, Job, ProbeFrom, LookIfRunning
    <2> QED BY <2>1, <2>2, <2>3, <2>4, <2>5, <2>6, <2>7, KernelTypeNext
  <1>5. CASE CompareVersions \/ DownloadBundle \/ Verify
    <2>1. KernelFlags'
      BY <1>0, <1>5, Zenon DEF KernelFlags, CompareVersions, Finish, DownloadBundle, Verify,
         VerifyXrayBinary
    <2>2. KernelRest'
      BY <1>0, <1>5 DEF KernelRest, PlacesInv, Image, VersionOf, CompareVersions, Finish,
         DownloadBundle, Verify, VerifyXrayBinary
    <2>3. job' \in Job
      <3>1. job.target \in Image
        BY <1>0 DEF Job, Image
      <3>2. job' = job \/ \E k \in Image \cup {None} : job' = [job EXCEPT !.data = k]
        BY <1>5, <3>1 DEF CompareVersions, DownloadBundle, Verify, Finish
      <3> QED BY <1>0, <3>2, JobMoves, Zenon
    <2>4. PlacesInv' /\ FlagsInv' /\ OldKernelInv'
      BY <1>5 DEF PlacesInv, FlagsInv, OldKernelInv, BeforeReplace, Replaced, Job,
         KernelTypeOK, CompareVersions, Finish, DownloadBundle, Verify, VerifyXrayBinary
    <2>5. FailureKeepsKernel'
      BY <1>5 DEF FailureKeepsKernel, OldKernelInv, BeforeReplace, CompareVersions, Finish,
         DownloadBundle, Verify, VerifyXrayBinary
    <2>6. VersionInv'
      BY <1>5 DEF VersionInv, VersionOf, KernelTypeOK, OldKernelInv, CompareVersions, Finish,
         DownloadBundle, Verify, VerifyXrayBinary
    <2>7. TargetInv'
      BY <1>5 DEF TargetInv, Replaced, KernelTypeOK, PlacesInv, VersionOf, Job,
         CompareVersions, Finish, DownloadBundle, Verify, VerifyXrayBinary
    <2> QED BY <2>1, <2>2, <2>3, <2>4, <2>5, <2>6, <2>7, KernelTypeNext
  <1>6. CASE StopXray \/ BackupBin \/ RenameBin
    <2>1. KernelFlags'
      BY <1>0, <1>6, Zenon DEF KernelFlags, StopXray, Stops, BackupBin, RenameBin
    <2>2. KernelRest'
      BY <1>0, <1>6 DEF KernelRest, PlacesInv, Image, VersionOf, TargetInv, Replaced, Job,
         StopXray, Stops, BackupBin, RenameBin
    <2>3. job' \in Job
      BY <1>0, <1>6 DEF StopXray, Stops, BackupBin, RenameBin
    <2>4. PlacesInv' /\ FlagsInv' /\ OldKernelInv'
      BY <1>6 DEF PlacesInv, FlagsInv, OldKernelInv, BeforeReplace, Replaced, KernelTypeOK,
         StopXray, Stops, BackupBin, RenameBin
    <2>5. FailureKeepsKernel'
      BY <1>6 DEF FailureKeepsKernel, OldKernelInv, BeforeReplace, StopXray, Stops, BackupBin,
         RenameBin
    <2>6. VersionInv'
      BY <1>6 DEF VersionInv, VersionOf, KernelTypeOK, OldKernelInv, StopXray, Stops,
         BackupBin, RenameBin
    <2>7. TargetInv'
      BY <1>6 DEF TargetInv, Replaced, KernelTypeOK, PlacesInv, StopXray, Stops, BackupBin,
         RenameBin
    <2> QED BY <2>1, <2>2, <2>3, <2>4, <2>5, <2>6, <2>7, KernelTypeNext
  <1>7. CASE Reprobe \/ UndoUnprobed
    <2>1. KernelFlags'
      BY <1>0, <1>7, Zenon DEF KernelFlags, Reprobe, UndoUnprobed, RollsBack
    <2>2. KernelRest'
      BY <1>0, <1>7 DEF KernelRest, PlacesInv, Image, VersionOf, OldKernelInv, Replaced,
         Reprobe, UndoUnprobed, RollsBack
    <2>3. job' \in Job
      BY <1>0, <1>7 DEF Reprobe, UndoUnprobed, RollsBack
    <2>4. PlacesInv' /\ FlagsInv' /\ OldKernelInv'
      BY <1>7 DEF PlacesInv, FlagsInv, OldKernelInv, BeforeReplace, Replaced, KernelTypeOK,
         Reprobe, UndoUnprobed, RollsBack
    <2>5. FailureKeepsKernel'
      BY <1>7 DEF FailureKeepsKernel, OldKernelInv, BeforeReplace, Reprobe, UndoUnprobed,
         RollsBack
    <2>6. VersionInv'
      BY <1>7 DEF VersionInv, VersionOf, KernelTypeOK, OldKernelInv, Reprobe, UndoUnprobed,
         RollsBack
    <2>7. TargetInv'
      BY <1>7 DEF TargetInv, Replaced, KernelTypeOK, PlacesInv, Reprobe, UndoUnprobed,
         RollsBack
    <2> QED BY <2>1, <2>2, <2>3, <2>4, <2>5, <2>6, <2>7, KernelTypeNext
  <1>8. CASE UpReset \/ NothingToRevive \/ ReleaseFlags
    <2>1. KernelFlags'
      BY <1>0, <1>8, Zenon DEF KernelFlags, UpReset, Resets, NothingToRevive, Finish,
         ReleaseFlags
    <2>2. KernelRest'
      BY <1>0, <1>8 DEF KernelRest, PlacesInv, Image, VersionOf, UpReset, Resets,
         NothingToRevive, Finish, ReleaseFlags
    <2>3. job' \in Job
      BY <1>0, <1>8 DEF UpReset, Resets, NothingToRevive, Finish, ReleaseFlags
    <2>4. PlacesInv' /\ FlagsInv' /\ OldKernelInv'
      BY <1>8 DEF PlacesInv, FlagsInv, OldKernelInv, BeforeReplace, Replaced, KernelTypeOK,
         UpReset, Resets, NothingToRevive, Finish, ReleaseFlags
    <2>5. FailureKeepsKernel'
      BY <1>8 DEF FailureKeepsKernel, OldKernelInv, BeforeReplace, UpReset, Resets,
         NothingToRevive, Finish, ReleaseFlags
    <2>6. VersionInv'
      BY <1>8 DEF VersionInv, VersionOf, KernelTypeOK, OldKernelInv, UpReset, Resets,
         NothingToRevive, Finish, ReleaseFlags
    <2>7. TargetInv'
      BY <1>8 DEF TargetInv, Replaced, KernelTypeOK, PlacesInv, UpReset, Resets,
         NothingToRevive, Finish, ReleaseFlags
    <2> QED BY <2>1, <2>2, <2>3, <2>4, <2>5, <2>6, <2>7, KernelTypeNext
  <1>9. CASE Rollback
    <2>1. KernelFlags'
      BY <1>0, <1>9, Zenon DEF KernelFlags, Rollback, Finish
    <2>2. KernelRest'
      BY <1>0, <1>9 DEF KernelRest, PlacesInv, Image, VersionOf, OldKernelInv, Replaced,
         Rollback, Finish
    <2>3. job' \in Job
      BY <1>0, <1>9 DEF Rollback, Finish
    <2>4. PlacesInv' /\ FlagsInv' /\ OldKernelInv'
      BY <1>9 DEF PlacesInv, FlagsInv, OldKernelInv, BeforeReplace, Replaced, KernelTypeOK,
         Rollback, Finish
    <2>5. FailureKeepsKernel'
      BY <1>9 DEF FailureKeepsKernel, OldKernelInv, BeforeReplace, Rollback, Finish
    <2>6. VersionInv'
      BY <1>9 DEF VersionInv, VersionOf, KernelTypeOK, OldKernelInv, Rollback, Finish
    <2>7. TargetInv'
      BY <1>9 DEF TargetInv, Replaced, KernelTypeOK, PlacesInv, Rollback, Finish
    <2> QED BY <2>1, <2>2, <2>3, <2>4, <2>5, <2>6, <2>7, KernelTypeNext
  <1>10. CASE UpStart
    <2>1. KernelFlags'
      BY <1>0, <1>10, Zenon DEF KernelFlags, UpStart, UpStartReturns, Finish, Spawns,
         StartsNothing, Survives, StartFails, CannotSpawn, CannotLog, Dies, DiesSoon
    <2>2. KernelRest'
      <3>0. /\ up' \in {up, "release", "rollback"} /\ image' \in {image, bin}
            /\ result' \in {result, "success", "restored", "failed"}
            /\ mu' \in {mu, "free", "up"}
        BY <1>10 DEF UpStart, UpStartReturns, Finish, Spawns, StartsNothing, Survives, StartFails,
           CannotSpawn, CannotLog, Dies, DiesSoon
      <3>1. mu' \in {"up", "geo"} => alive'
        BY <1>0, <1>10 DEF KernelRest, UpStart, Spawns, StartsNothing, Survives, StartFails,
           CannotSpawn, CannotLog, Dies, DiesSoon
      <3> QED BY <1>0, <1>10, <3>0, <3>1 DEF KernelRest, UpStart
    <2>3. job' \in Job
      BY <1>0, <1>10 DEF UpStart, UpStartReturns, Finish, Spawns, StartsNothing, Survives,
         StartFails, CannotSpawn, CannotLog, Dies, DiesSoon
    <2>4. PlacesInv' /\ FlagsInv' /\ OldKernelInv'
      BY <1>10 DEF PlacesInv, FlagsInv, OldKernelInv, BeforeReplace, Replaced, Job,
         KernelTypeOK, UpStart, UpStartReturns, Finish, Spawns, StartsNothing, Survives,
         StartFails, CannotSpawn, CannotLog, Dies, DiesSoon
    <2>5. FailureKeepsKernel'
      BY <1>10 DEF FailureKeepsKernel, OldKernelInv, BeforeReplace, UpStart, UpStartReturns,
         Finish, Spawns, StartsNothing, Survives, StartFails, CannotSpawn, CannotLog, Dies,
         DiesSoon
    <2>6. VersionInv'
      BY <1>10 DEF VersionInv, VersionOf, KernelTypeOK, OldKernelInv, UpStart, UpStartReturns,
         Finish, Spawns, StartsNothing, Survives, StartFails, CannotSpawn, CannotLog, Dies,
         DiesSoon
    <2>7. TargetInv'
      BY <1>10 DEF TargetInv, Replaced, KernelTypeOK, PlacesInv, Job, UpStart, UpStartReturns,
         Finish, Spawns, StartsNothing, Survives, StartFails, CannotSpawn, CannotLog, Dies,
         DiesSoon
    <2> QED BY <2>1, <2>2, <2>3, <2>4, <2>5, <2>6, <2>7, KernelTypeNext
  <1>11. CASE AcceptSelf \/ SelfEnds \/ SelfReplaced \/ SelfRestart
    <2>1. KernelFlags'
      BY <1>0, <1>11, Zenon DEF KernelFlags, AcceptSelf, SelfEnds, SelfReplaced, SelfRestart
    <2>2. KernelRest'
      BY <1>0, <1>11 DEF KernelRest, PlacesInv, Image, VersionOf, AcceptSelf, SelfEnds,
         SelfReplaced, SelfRestart
    <2>3. job' \in Job
      BY <1>0, <1>11 DEF AcceptSelf, SelfEnds, SelfReplaced, SelfRestart
    <2>4. PlacesInv' /\ FlagsInv' /\ OldKernelInv'
      BY <1>11 DEF PlacesInv, FlagsInv, OldKernelInv, BeforeReplace, Replaced, KernelTypeOK,
         AcceptSelf, SelfEnds, SelfReplaced, SelfRestart
    <2>5. FailureKeepsKernel'
      BY <1>11 DEF FailureKeepsKernel, OldKernelInv, BeforeReplace, AcceptSelf, SelfEnds,
         SelfReplaced, SelfRestart
    <2>6. VersionInv'
      BY <1>11 DEF VersionInv, VersionOf, KernelTypeOK, OldKernelInv, AcceptSelf, SelfEnds,
         SelfReplaced, SelfRestart
    <2>7. TargetInv'
      BY <1>11 DEF TargetInv, Replaced, KernelTypeOK, PlacesInv, AcceptSelf, SelfEnds,
         SelfReplaced, SelfRestart
    <2> QED BY <2>1, <2>2, <2>3, <2>4, <2>5, <2>6, <2>7, KernelTypeNext
  <1>12. CASE GeoReload \/ GeoStop
    <2>1. KernelFlags'
      BY <1>0, <1>12, Zenon DEF KernelFlags, GeoReload, GeoVars, GeoStop, Stops
    <2>2. KernelRest'
      BY <1>0, <1>12 DEF KernelRest, PlacesInv, Image, VersionOf, GeoReload, GeoVars, GeoStop,
         Stops
    <2>3. job' \in Job
      BY <1>0, <1>12 DEF GeoReload, GeoVars, GeoStop, Stops
    <2>4. PlacesInv' /\ FlagsInv' /\ OldKernelInv'
      BY <1>12 DEF PlacesInv, FlagsInv, OldKernelInv, BeforeReplace, Replaced, KernelTypeOK,
         GeoReload, GeoVars, GeoStop, Stops
    <2>5. FailureKeepsKernel'
      BY <1>12 DEF FailureKeepsKernel, OldKernelInv, BeforeReplace, GeoReload, GeoVars,
         GeoStop, Stops
    <2>6. VersionInv'
      BY <1>12 DEF VersionInv, VersionOf, KernelTypeOK, OldKernelInv, GeoReload, GeoVars,
         GeoStop, Stops
    <2>7. TargetInv'
      BY <1>12 DEF TargetInv, Replaced, KernelTypeOK, PlacesInv, GeoReload, GeoVars, GeoStop,
         Stops
    <2> QED BY <2>1, <2>2, <2>3, <2>4, <2>5, <2>6, <2>7, KernelTypeNext
  <1>13. CASE GeoStart
    <2>1. KernelFlags'
      BY <1>0, <1>13, Zenon DEF KernelFlags, GeoStart, GeoVars, Executes, Races, Spawns,
         StartsNothing, Survives, StartFails, CannotSpawn, CannotLog, Dies, DiesSoon
    <2>2. KernelRest'
      BY <1>0, <1>13 DEF KernelRest, PlacesInv, Image, VersionOf, GeoStart, GeoVars, Executes,
         Races, Spawns, StartsNothing, Survives, StartFails, CannotSpawn, CannotLog, Dies,
         DiesSoon
    <2>3. job' \in Job
      BY <1>0, <1>13 DEF GeoStart, GeoVars, Executes, Races, Spawns, StartsNothing, Survives,
         StartFails, CannotSpawn, CannotLog, Dies, DiesSoon
    <2>4. PlacesInv' /\ FlagsInv' /\ OldKernelInv'
      BY <1>13 DEF PlacesInv, FlagsInv, OldKernelInv, BeforeReplace, Replaced, KernelTypeOK,
         GeoStart, GeoVars, Executes, Races, Spawns, StartsNothing, Survives, StartFails,
         CannotSpawn, CannotLog, Dies, DiesSoon
    <2>5. FailureKeepsKernel'
      BY <1>13 DEF FailureKeepsKernel, OldKernelInv, BeforeReplace, GeoStart, GeoVars,
         Executes, Races, Spawns, StartsNothing, Survives, StartFails, CannotSpawn, CannotLog,
         Dies, DiesSoon
    <2>6. VersionInv'
      BY <1>13 DEF VersionInv, VersionOf, KernelTypeOK, OldKernelInv, GeoStart, GeoVars,
         Executes, Races, Spawns, StartsNothing, Survives, StartFails, CannotSpawn, CannotLog,
         Dies, DiesSoon
    <2>7. TargetInv'
      BY <1>13 DEF TargetInv, Replaced, KernelTypeOK, PlacesInv, GeoStart, GeoVars, Executes,
         Races, Spawns, StartsNothing, Survives, StartFails, CannotSpawn, CannotLog, Dies,
         DiesSoon
    <2> QED BY <2>1, <2>2, <2>3, <2>4, <2>5, <2>6, <2>7, KernelTypeNext
  <1>14. CASE Supervise \/ KernelDies \/ UNCHANGED allVars
    BY <1>14, SuperviseMoves, KernelOthersStep
  <1> QED BY <1>1, <1>2, <1>3, <1>4, <1>5, <1>6, <1>7, <1>8, <1>9, <1>10, <1>11, <1>12, <1>13, <1>14
     DEF KernelNext, Upgrade, SelfUpgrade

-------------------------------------------------------------------------------
(* The theorems.                                                             *)

LEMMA KernelAlways == KernelSpec => []KernelInv
  BY KernelInitInv, KernelStep, PTL DEF KernelSpec

\* Every variable of the upgrade keeps its type, and whoever holds p.mu through a
\* readiness window, upgrade and updater included, has a process to wait for.
THEOREM KernelTyping == KernelSpec => []KernelTypeOK
  <1>1. KernelInv => KernelTypeOK
    BY DEF KernelInv
  <1> QED BY <1>1, KernelAlways, PTL

\* File, reported version and answer agree, at whatever step the upgrade failed, was
\* undone or crashed, for any releases and any executables that do not work.
THEOREM KernelAgreement == KernelSpec => []KernelAgrees
  <1>1. KernelInv => KernelAgrees
    BY DEF KernelInv, KernelAgrees, VersionInv, VersionIsTrue
  <1> QED BY <1>1, KernelAlways, PTL

\* The two upgrades exclude each other: the agent never restarts itself while one of
\* xray is under way.
THEOREM KernelNoRestart == KernelSpec => []NoRestartMidUpgrade
  <1>1. KernelInv => NoRestartMidUpgrade
    BY DEF KernelInv, FlagsInv, NoRestartMidUpgrade
  <1> QED BY <1>1, KernelAlways, PTL

LEMMA SuccessStep ==
    ASSUME KernelInv, [KernelNext]_allVars,
           up = "start", result' = "success", up' = "release", ~raced
    PROVE  alive /\ image = job.target /\ bin = job.target
  <1>0. /\ bin = job.target
        /\ main # "gone" => ~alive \/ (mu = "up" /\ image = bin)
        /\ mu = "up" => alive
    BY DEF KernelInv, TargetInv, Replaced, KernelTypeOK
  <1>1. UpStart /\ main # "gone"
    <2>1. ~(Supervise \/ KernelDies \/ UNCHANGED allVars)
      BY SuperviseMoves DEF kernelVars
    <2>2. ~(AgentCrash \/ NextProcess)
      BY DEF AgentCrash, NextProcess, Ends
    <2>3. ~(\E t \in Release, f \in BOOLEAN : Accept(t, f))
      BY DEF Accept
    <2>4. ~(\/ ProbeAtStart \/ ProbeFrom \/ CompareVersions \/ DownloadBundle \/ Verify
            \/ LookIfRunning \/ StopXray \/ BackupBin \/ RenameBin \/ Reprobe \/ UndoUnprobed
            \/ UpReset \/ Rollback \/ NothingToRevive \/ ReleaseFlags)
      BY DEF ProbeAtStart, ProbeFrom, CompareVersions, DownloadBundle, Verify, LookIfRunning,
         StopXray, BackupBin, RenameBin, Reprobe, UndoUnprobed, UpReset, Rollback,
         NothingToRevive, ReleaseFlags, Going
    <2>5. ~(AcceptSelf \/ SelfEnds \/ SelfReplaced \/ SelfRestart \/ GeoReload \/ GeoStop \/ GeoStart)
      BY DEF AcceptSelf, SelfEnds, SelfReplaced, SelfRestart, unconcerned, GeoReload, GeoStop,
         GeoStart, GeoVars
    <2>6. UpStart
      BY <2>1, <2>2, <2>3, <2>4, <2>5 DEF KernelNext, Upgrade, SelfUpgrade
    <2> QED BY <2>6 DEF UpStart, Going
  <1>2. mu = "up" \/ (mu = "free" /\ alive)
    BY <1>1 DEF UpStart, UpStartReturns, Finish, StartsNothing, Survives, StartFails, Spawns,
       CannotSpawn, CannotLog, Dies, DiesSoon
  <1> QED BY <1>0, <1>1, <1>2

\* An upgrade answers with success only while the release it was asked for runs, unless
\* another goroutine came between its Stop and its Start.
THEOREM KernelSuccessRuns == KernelSpec => SuccessRuns
  <1>1. KernelInv /\ [KernelNext]_allVars
          => [up = "start" /\ result' = "success" /\ up' = "release" /\ ~raced
                => alive /\ image = job.target /\ bin = job.target]_allVars
    BY SuccessStep
  <1> QED BY <1>1, KernelAlways, PTL DEF KernelSpec, SuccessRuns
==================================================================================
