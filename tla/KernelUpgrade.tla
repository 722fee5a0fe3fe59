---------------------------- MODULE KernelUpgrade ----------------------------
(***************************************************************************)
(* The replacement of the xray executable on a command of the master:      *)
(* internal/agent/client/xrayupgrade.go and internal/agent/upgrade/xray.go *)
(* on top of the supervisor (XrayProc).                                    *)
(*                                                                         *)
(* Three more goroutines work beside main and the watchdog: the upgrade    *)
(* (up), the agent's own upgrade (self), of which only the flag they share *)
(* and the restart matter here, and the updater of the rule files (geo),   *)
(* of which only its Reload does.                                          *)
(*                                                                         *)
(* An executable is the number of its release; Broken is one that does not *)
(* answer `xray version` (damaged, of another architecture).               *)
(***************************************************************************)
EXTENDS XrayProc

CONSTANTS
    Release,      \* releases, ordered by version
    Working,      \* those whose process outlives the window with a good configuration
    Broken        \* an executable that cannot be executed

ASSUME KernelAssumption ==
    /\ Release \subseteq Nat /\ Release # {}
    /\ Working \subseteq Release
    /\ Broken \notin Release
    /\ None \notin Release
    /\ Broken # None

VARIABLES
    bin, prev,         \* xray.bin and xray.bin.prev
    image,             \* the executable the last process was started from
    version,           \* c.xrayVersion, what heartbeats report
    upgrading,         \* c.upgrading
    upgradingXray,     \* c.upgradingXray
    up,                \* where the upgrade is
    job,               \* what it was asked for and has found, see Job
    result,            \* the last answer: "none", "noop", "success", "failed"
    before,            \* history: the executable when the command arrived
    raced,             \* history: another goroutine started xray after its Stop
    astray,            \* history: a rollback or a probe of it failed
    self, geo          \* where the two other goroutines are

Image == Release \cup {Broken}
Job == [target : Release, force : BOOLEAN, from : Release \cup {None},
        data : Image \cup {None}, wasRunning : BOOLEAN]

flags == <<upgrading, upgradingXray>>
history == <<before, raced, astray>>
kernelVars == <<bin, prev, version, flags, up, job, result, before, astray, self, geo>>
allVars == <<vars, kernelVars, image, raced>>

NoJob == [target |-> CHOOSE t \in Release : TRUE, force |-> FALSE, from |-> None,
          data |-> None, wasRunning |-> FALSE]

\* Mutant of VersionOf: any output is taken for a version.
AnyOutput(k) == k

\* What `xray version` answers; None is an error.
VersionOf(k) == IF k \in Release THEN k ELSE None

KernelInit ==
    /\ Init
    /\ bin \in Image /\ prev = None /\ image = bin /\ version = None
    /\ upgrading = FALSE /\ upgradingXray = FALSE
    /\ up = "boot" /\ job = NoJob /\ result = "none"
    /\ before = bin /\ raced = FALSE /\ astray = FALSE
    /\ self = "off" /\ geo = "off"

-------------------------------------------------------------------------------
(* The steps of the supervisor's two goroutines and of its environment.    *)

\* A process runs the executable that was at binPath when it was created.
Executes == image' = IF alive' /\ ~alive THEN bin ELSE image

\* An executable that does not work does not outlive the window.
WindowNeedsKernel == mu \in {"main", "dog"} /\ mu' = "free" /\ alive' => image \in Working

\* Someone else's start, between the Stop and the Start of the upgrade
Races == raced' = (raced \/ (alive' /\ ~alive /\ up \notin {"off", "boot"}))

Supervise ==
    /\ \/ Main \/ Watchdog \/ Death \/ Mature \/ TimerFires \/ CooldownEnds
       \/ up # "boot" /\ Command
    /\ WindowNeedsKernel \/ main = "leaving"
    /\ Executes /\ Races
    /\ UNCHANGED kernelVars

\* main or the watchdog started an executable that does not work.
KernelDies ==
    /\ image \notin Working
    /\ \/ /\ main \in DOMAIN AfterStart
          /\ DiesSoon("main", FALSE)
          /\ main' = AfterStart[main].fail
          /\ UNCHANGED <<arg, dogVars>>
       \/ /\ dog \in DOMAIN AfterDogFails /\ main # "gone"
          /\ DiesSoon("dog", dog = "probe")
          /\ dog' = AfterDogFails[dog]
          /\ UNCHANGED <<mainVars, saw, copy, alerts>>
    /\ UNCHANGED <<events, kernelVars, image, raced>>

\* A crash of the agent, or its restart by SelfRestart, ends every goroutine.
Ends ==
    /\ upgrading' = FALSE /\ upgradingXray' = FALSE
    /\ up' = "boot" /\ job' = NoJob /\ self' = "off" /\ geo' = "off"
    /\ version' = None /\ result' = "none" /\ raced' = FALSE /\ astray' = FALSE
    /\ before' = bin
    /\ UNCHANGED <<bin, prev, image>>

AgentCrash == Crash /\ Ends

\* initXrayVersion, before the connection loop
ProbeAtStart ==
    /\ up = "boot" /\ main = "idle" /\ dog # "off"
    /\ \/ version' = VersionOf(bin) /\ UNCHANGED events
       \/ "exec" \in Faults /\ Event /\ UNCHANGED version
    /\ up' = "off"
    /\ UNCHANGED <<files, process, fields, mu, mainVars, dogVars, bin, prev, image,
                   flags, job, result, history, self, geo>>

-------------------------------------------------------------------------------
(* The upgrade.  Each step leaves the supervisor's state alone but for     *)
(* what Stop, Start and ResetFailures do.                                  *)

quiet == <<files, process, fields, mu, mainVars, dogVars, image, self, geo>>

\* The process runs this goroutine.
Going(step) == up = step /\ main # "gone"

Finish(r) ==
    /\ up' = "release"
    /\ result' = r

\* Mutant of Accept: the flag of the agent's own upgrade is not asked.
AcceptAnyway(t, f) ==
    /\ main = "idle" /\ up = "off" /\ dog # "off"
    /\ Event
    /\ ~upgradingXray
    /\ upgrading' = TRUE /\ upgradingXray' = TRUE
    /\ up' = "probe"
    /\ job' = [NoJob EXCEPT !.target = t, !.force = f]
    /\ before' = bin /\ raced' = FALSE
    /\ UNCHANGED <<files, process, fields, mu, mainVars, dogVars, image, self, geo,
                   bin, prev, version, result, astray>>

\* handleUpgradeXray: the message loop takes both flags, or refuses.
Accept(t, f) ==
    /\ main = "idle" /\ up = "off" /\ dog # "off"
    /\ Event
    /\ ~upgrading /\ ~upgradingXray
    /\ upgrading' = TRUE /\ upgradingXray' = TRUE
    /\ up' = "probe"
    /\ job' = [NoJob EXCEPT !.target = t, !.force = f]
    /\ before' = bin /\ raced' = FALSE
    /\ UNCHANGED <<files, process, fields, mu, mainVars, dogVars, image, self, geo,
                   bin, prev, version, result, astray>>

\* A failure of the probe does not keep the upgrade from going on.
ProbeFrom ==
    /\ Going("probe")
    /\ \/ job' = [job EXCEPT !.from = VersionOf(bin)] /\ UNCHANGED events
       \/ "exec" \in Faults /\ Event /\ UNCHANGED job
    /\ up' = "compare"
    /\ UNCHANGED <<quiet, bin, prev, version, flags, result, history>>

UpToDate == ~job.force /\ IF job.from = None THEN FALSE ELSE job.from >= job.target

\* The target is given, or the first entry of releases.atom; both may be unusable.
CompareVersions ==
    /\ Going("compare")
    /\ \/ UpToDate /\ Finish("noop") /\ UNCHANGED events
       \/ ~UpToDate /\ up' = "download" /\ UNCHANGED <<result, events>>
       \/ "net" \in Faults /\ Event /\ Finish("failed")
    /\ UNCHANGED <<quiet, bin, prev, version, flags, job, history>>

\* The archive agrees with the digest of the same mirror, whatever it contains.
DownloadBundle ==
    /\ Going("download")
    /\ \/ job' = [job EXCEPT !.data = job.target] /\ up' = "verify" /\ UNCHANGED <<result, events>>
       \/ /\ "net" \in Faults /\ Event
          /\ \E k \in Image \ {job.target} : job' = [job EXCEPT !.data = k]
          /\ up' = "verify" /\ UNCHANGED result
       \/ "net" \in Faults /\ Event /\ Finish("failed") /\ UNCHANGED job
    /\ UNCHANGED <<quiet, bin, prev, version, flags, history>>

\* A copy of it has to answer with the version of the target.
VerifyXrayBinary(k) == VersionOf(k) = job.target

Verify ==
    /\ Going("verify")
    /\ \/ VerifyXrayBinary(job.data) /\ up' = "look" /\ UNCHANGED <<result, events>>
       \/ ~VerifyXrayBinary(job.data) /\ Finish("failed") /\ UNCHANGED events
       \/ "exec" \in Faults /\ Event /\ Finish("failed")
    /\ UNCHANGED <<quiet, bin, prev, version, flags, job, history>>

\* IsRunning, and only then Stop, which waits for p.mu
LookIfRunning ==
    /\ Going("look")
    /\ job' = [job EXCEPT !.wasRunning = alive]
    /\ up' = "stop"
    /\ UNCHANGED <<quiet, events, bin, prev, version, flags, result, history>>

\* Mutant of StopXray: the process is left running.
StopsNothing ==
    /\ Going("stop")
    /\ mu = "free"
    /\ up' = "backup"
    /\ raced' = FALSE
    /\ UNCHANGED <<files, process, fields, mu, events, mainVars, dogVars, image, self, geo,
                   bin, prev, version, flags, job, result, before, astray>>

StopXray ==
    /\ Going("stop")
    /\ Stops
    /\ up' = "backup"
    /\ UNCHANGED <<mainVars, dogVars, image, self, geo, bin, prev, version, flags, job,
                   result, before, astray>>
    /\ raced' = FALSE

\* ReplaceXrayBinary: a copy to .prev, then a rename of the verified file
BackupBin ==
    /\ Going("backup")
    /\ \/ prev' = bin /\ up' = "rename" /\ UNCHANGED events
       \/ "write" \in Faults /\ Event /\ up' = "revive" /\ UNCHANGED prev
    /\ UNCHANGED <<quiet, bin, version, flags, job, result, history>>

RenameBin ==
    /\ Going("rename")
    /\ \/ bin' = job.data /\ up' = "reprobe" /\ UNCHANGED events
       \/ "write" \in Faults /\ Event /\ up' = "revive" /\ UNCHANGED bin
    /\ UNCHANGED <<quiet, prev, version, flags, job, result, history>>

\* The new file is probed where it lies, and its version reported from now on; the
\* rule files of the archive follow (syncGeoFiles, module GeoUpdate).
Reprobe ==
    /\ Going("reprobe")
    /\ \/ version' = VersionOf(bin) /\ up' = "reset" /\ UNCHANGED events
       \/ "exec" \in Faults /\ Event /\ up' = "undo" /\ UNCHANGED version
    /\ UNCHANGED <<quiet, bin, prev, flags, job, result, history>>

\* RollbackXrayBinary
RollsBack ==
    \/ bin' = prev /\ UNCHANGED events
    \/ "write" \in Faults /\ Event /\ UNCHANGED bin

\* Mutant of UndoUnprobed: the new executable stays.
UndoesNothing ==
    /\ Going("undo")
    /\ up' = "revive"
    /\ UNCHANGED <<quiet, events, bin, prev, version, flags, job, result, history>>

\* Its error is ignored here.
UndoUnprobed ==
    /\ Going("undo")
    /\ RollsBack
    /\ astray' = (astray \/ bin' # prev)
    /\ up' = "revive"
    /\ UNCHANGED <<quiet, prev, version, flags, job, result, before, raced>>

UpReset ==
    /\ \/ Going("reset") /\ up' = "start"
       \/ Going("resetBack") /\ up' = "startBack"
    /\ Resets(Cleared(book))
    /\ UNCHANGED <<files, mainVars, dogVars, image, self, geo, bin, prev, version, flags,
                   job, result, history>>

\* The new executable did not start: the old one is put back and probed.
Rollback ==
    /\ Going("rollback")
    /\ \/ /\ bin' = prev /\ up' = "resetBack" /\ UNCHANGED result
          /\ \/ prev \in Release /\ version' = prev /\ UNCHANGED <<events, astray>>
             \/ prev \notin Release /\ astray' = TRUE /\ UNCHANGED <<version, events>>
             \/ "exec" \in Faults /\ Event /\ astray' = TRUE /\ UNCHANGED version
       \/ "write" \in Faults /\ Event /\ Finish("failed")
          /\ astray' = TRUE /\ UNCHANGED <<bin, version>>
    /\ UNCHANGED <<quiet, prev, flags, job, before, raced>>

\* Start.  Revive only brings back what was running; startBack is the Start after
\* the rollback.  A start that finds a process running succeeds.
UpStartReturns(ok) ==
    CASE up = "start"     -> IF ok THEN Finish("success")
                             ELSE up' = "rollback" /\ UNCHANGED result
      [] up = "startBack" -> Finish(IF ok THEN "restored" ELSE "failed")
      [] up = "revive"    -> Finish("failed")

UpStart ==
    /\ Going("start") \/ Going("startBack") \/ (Going("revive") /\ job.wasRunning)
    /\ \/ Spawns("up") /\ image' = bin /\ UNCHANGED <<up, result>>
       \/ /\ StartsNothing \/ (image \in Working /\ Survives("up"))
          /\ UpStartReturns(TRUE) /\ UNCHANGED image
       \/ /\ \/ StartFails("up", FALSE)
             \/ image \notin Working /\ DiesSoon("up", FALSE) /\ UNCHANGED events
          /\ UpStartReturns(FALSE) /\ UNCHANGED image
    /\ UNCHANGED <<mainVars, dogVars, self, geo, bin, prev, version, flags, job, history>>

NothingToRevive ==
    /\ Going("revive") /\ ~job.wasRunning
    /\ Finish("failed")
    /\ UNCHANGED <<quiet, events, bin, prev, version, flags, job, history>>

\* Mutant of ReleaseFlags: the flag of the upgrade of xray is never given back.
ReleasesOne ==
    /\ Going("release") /\ up' = "off" /\ upgrading' = FALSE /\ UNCHANGED upgradingXray
    /\ UNCHANGED <<quiet, events, bin, prev, version, job, result, history>>

\* The deferred calls run last in, first out.
ReleaseFlags ==
    /\ \/ Going("release") /\ up' = "unlock" /\ upgradingXray' = FALSE /\ UNCHANGED upgrading
       \/ Going("unlock") /\ up' = "off" /\ upgrading' = FALSE /\ UNCHANGED upgradingXray
    /\ UNCHANGED <<quiet, events, bin, prev, version, job, result, history>>

Upgrade ==
    \/ ProbeAtStart \/ ProbeFrom \/ CompareVersions \/ DownloadBundle \/ Verify
    \/ LookIfRunning \/ StopXray \/ BackupBin \/ RenameBin \/ Reprobe \/ UndoUnprobed
    \/ UpReset \/ UpStart \/ Rollback \/ NothingToRevive \/ ReleaseFlags

-------------------------------------------------------------------------------
(* The agent's own upgrade (runUpgrade): it fails or has nothing to do, or *)
(* it has replaced the agent's file and restarts the service.              *)

unconcerned == <<bin, prev, version, image, upgradingXray, up, job, result, history, geo>>

AcceptSelf ==
    /\ main = "idle" /\ dog # "off" /\ up # "boot" /\ self = "off"
    /\ Event
    /\ ~upgrading
    /\ upgrading' = TRUE
    /\ self' = "work"
    /\ UNCHANGED <<files, process, fields, mu, mainVars, dogVars, unconcerned>>

SelfEnds ==
    /\ self \in {"work", "restart"} /\ main # "gone"
    /\ upgrading' = FALSE
    /\ self' = "off"
    /\ UNCHANGED <<vars, unconcerned>>

SelfReplaced ==
    /\ self = "work" /\ main # "gone"
    /\ self' = "restart"
    /\ UNCHANGED <<vars, unconcerned, upgrading>>

\* SelfRestart: the service manager ends this process, which stops xray, and
\* starts the next.
SelfRestart ==
    /\ self = "restart" /\ main = "idle"
    /\ main' = "exitStop"
    /\ self' = "exit"
    /\ UNCHANGED <<files, process, fields, mu, arg, dogVars, events, unconcerned, upgrading>>

NextProcess ==
    /\ self = "exit" /\ main = "gone"
    /\ main' = "boot" /\ arg' = None
    /\ run' = "none" /\ started' = FALSE /\ runHash' = None
    /\ book' = NoFailures /\ rejected' = None /\ mu' = "free"
    /\ dog' = "off" /\ saw' = [gaveUp |-> FALSE, due |-> FALSE] /\ copy' = None
    /\ Ends
    /\ UNCHANGED <<files, alive, loaded, young, alerts, events>>

SelfUpgrade == SelfEnds \/ SelfReplaced \/ SelfRestart \/ NextProcess

-------------------------------------------------------------------------------
(* geoUpdater.Reload, after new rule files (module GeoUpdate)               *)

GeoVars == <<mainVars, dogVars, bin, prev, version, flags, up, job, result, before, astray, self>>

GeoReload ==
    /\ geo = "off" /\ up # "boot" /\ dog # "off" /\ main # "gone"
    /\ Event
    /\ alive
    /\ geo' = "stop"
    /\ UNCHANGED <<files, process, fields, mu, GeoVars, image, raced>>

GeoStop ==
    /\ geo = "stop" /\ main # "gone"
    /\ Stops
    /\ geo' = "start"
    /\ UNCHANGED <<GeoVars, image, raced>>

GeoStart ==
    /\ geo = "start" /\ main # "gone"
    /\ \/ Spawns("geo") /\ UNCHANGED geo
       \/ (StartsNothing \/ (image \in Working /\ Survives("geo"))) /\ geo' = "off"
       \/ StartFails("geo", FALSE) /\ geo' = "off"
       \/ image \notin Working /\ DiesSoon("geo", FALSE) /\ UNCHANGED events /\ geo' = "off"
    /\ Executes /\ Races
    /\ UNCHANGED GeoVars

-------------------------------------------------------------------------------
KernelNext ==
    \/ Supervise \/ KernelDies \/ AgentCrash
    \/ \E t \in Release, f \in BOOLEAN : Accept(t, f)
    \/ Upgrade
    \/ AcceptSelf \/ SelfUpgrade
    \/ GeoReload \/ GeoStop \/ GeoStart

KernelSpec == KernelInit /\ [][KernelNext]_allVars

\* The goroutines run, whoever holds p.mu gives it back, and sync.Mutex starves
\* nobody.
KernelFairness ==
    WF_allVars(Supervise \/ KernelDies \/ GeoStop \/ GeoStart) /\ SF_allVars(Upgrade)

FairKernelSpec == KernelSpec /\ KernelFairness

-------------------------------------------------------------------------------
(* Every variable has its type.                                            *)
KernelTypeOK ==
    /\ bin \in Image /\ prev \in Image \cup {None} /\ image \in Image
    /\ version \in Release \cup {None}
    /\ upgrading \in BOOLEAN /\ upgradingXray \in BOOLEAN
    /\ up \in {"boot", "off", "probe", "compare", "download", "verify", "look", "stop",
               "backup", "rename", "reprobe", "undo", "revive", "reset", "start",
               "rollback", "resetBack", "startBack", "release", "unlock"}
    /\ job \in Job
    /\ result \in {"none", "noop", "success", "restored", "failed"}
    /\ before \in Image /\ raced \in BOOLEAN /\ astray \in BOOLEAN
    /\ self \in {"off", "work", "restart", "exit"}
    /\ geo \in {"off", "stop", "start"}
    /\ mu \in {"free", "main", "dog", "up", "geo"}
    /\ mu \in {"up", "geo"} => alive

\* An upgrade that answers with a failure has left or put back the old executable,
\* unless the file could not be written back.
FailureKeepsKernel ==
    up = "release" /\ result \in {"failed", "restored"} /\ ~astray => bin = before

\* What heartbeats report is the version of the file, or nothing, once the upgrade
\* is over, unless the rollback or the probe after it failed.
VersionIsTrue == up = "off" /\ ~astray => version \in {None, VersionOf(bin)}

\* An upgrade that answers with success runs the release it was asked for, unless
\* another goroutine started xray between its Stop and its Start.
SuccessRuns ==
    [][up = "start" /\ result' = "success" /\ up' = "release" /\ ~raced
         => alive /\ image = job.target /\ bin = job.target]_allVars

\* The agent does not restart itself in the middle of an upgrade of xray, between
\* the Stop and the Start (the two upgrades exclude each other).
NoRestartMidUpgrade == self \in {"restart", "exit"} => up \in {"boot", "off"}

\* Every upgrade of xray ends and gives its flag back, whatever the watchdog and the
\* other goroutines do with p.mu meanwhile.
UpgradeEnds == upgradingXray ~> (~upgradingXray \/ main = "gone")

\* The file, the version that heartbeats report and the answer agree, at whatever step
\* the upgrade failed or was undone.
KernelAgrees == FailureKeepsKernel /\ VersionIsTrue

===============================================================================
