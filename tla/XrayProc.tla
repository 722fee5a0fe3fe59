------------------------------- MODULE XrayProc -------------------------------
(***************************************************************************)
(* The supervisor of the xray child process:                               *)
(* internal/agent/xrayproc/xrayproc.go, with the boot and exit sequences   *)
(* of cmd/agent/main.go.                                                   *)
(*                                                                         *)
(* Two goroutines of the agent interleave: the one that boots, serves the  *)
(* master's commands and exits (main), and the watchdog (dog).  p.mu is    *)
(* held across the readiness window of a start; configuration files are    *)
(* read and replaced without it.                                           *)
(*                                                                         *)
(* Time is abstract: a run is young until it outlives startFailureGrace,   *)
(* a wait is over when its timer fires, and a crash that leaves the        *)
(* sliding window does so before the next crash is counted.                *)
(***************************************************************************)
EXTENDS Integers, FiniteSets

CONSTANTS
    Config,            \* configurations, by content
    Valid,             \* those that xray -test accepts
    Surviving,         \* those whose process can outlive the readiness window
    Bootstrap,         \* the minimal configuration the agent ships
    None,              \* no file, no configuration
    MaxStartFailures,  \* maxStartFailures
    CrashWindowCount,  \* crashWindowCount
    Commands,          \* what the master sends: subset of {"push", "hot", "restart"}
    Faults,            \* subset of {"exec", "log", "write", "exit", "crash"}
    MaxEvents          \* bound on commands, deaths after the window and faults

ASSUME XrayProcAssumption ==
    /\ Bootstrap \in Valid
    /\ Valid \subseteq Config
    /\ Surviving \subseteq Config
    /\ None \notin Config
    /\ MaxStartFailures \in Nat \ {0}
    /\ CrashWindowCount \in Nat \ {0}
    /\ MaxEvents \in Nat

VARIABLES
    disk, bak, good,  \* the configuration file, its .bak and its .good
    unsaved,          \* history: a rename of Boot or Backup failed
    alive,            \* IsRunning()
    loaded,           \* the configuration the last process was started with
    young,            \* the process has not outlived startFailureGrace
    run,              \* p.run: "none", "live", "dead" (not absorbed), "done"
    started,          \* p.started
    runHash,          \* p.runningHash
    book,             \* the failure account, see Book
    rejected,         \* p.rejectedHash while its cooldown lasts
    mu,               \* who holds p.mu during a readiness window, or "free"
    main, arg,        \* where the main goroutine is, and the content it was sent
    dog, saw, copy,   \* where the watchdog is, and what it read before
    events,           \* events so far
    alerts            \* history: OnGiveUp was called

files == <<disk, bak, good, unsaved>>
process == <<alive, loaded, young, run>>
fields == <<started, runHash, book, rejected>>
vars == <<files, process, fields, mu, main, arg, dog, saw, copy, events, alerts>>

\* failures saturates at MaxStartFailures and crashes at CrashCap: nothing in
\* the code tells larger values apart.
CrashCap == MaxStartFailures + CrashWindowCount
Book == [failures : 0..MaxStartFailures, gaveUp : BOOLEAN, notice : BOOLEAN,
         crashes : 0..CrashCap, goodTried : BOOLEAN, goodPending : BOOLEAN,
         wait : {"none", "backoff", "probe"}]

NoFailures == [failures |-> 0, gaveUp |-> FALSE, notice |-> FALSE, crashes |-> 0,
               goodTried |-> FALSE, goodPending |-> FALSE, wait |-> "none"]

AtMost(n, cap) == IF n <= cap THEN n ELSE cap

Event == events < MaxEvents /\ events' = events + 1

-------------------------------------------------------------------------------
(* The failure account: pure functions of Book.                            *)

\* giveUpLocked
GiveUp(b) == [b EXCEPT !.gaveUp = TRUE, !.notice = @ \/ ~b.gaveUp, !.wait = "probe"]

\* noteStartFailureLocked, once the count is known
Count(b, n) ==
    IF n < MaxStartFailures
      THEN [b EXCEPT !.failures = n, !.wait = IF n <= 1 THEN "none" ELSE "backoff"]
    ELSE IF ~b.goodTried /\ ~b.gaveUp
      THEN [b EXCEPT !.failures = MaxStartFailures, !.goodTried = TRUE,
                     !.goodPending = TRUE, !.wait = "none"]
    ELSE GiveUp([b EXCEPT !.failures = MaxStartFailures])

QuickFailure(b) == Count(b, b.failures + 1)

\* A death outside the grace period; inWindow crashes are still in crashWindow.
SlowFailure(b, inWindow) ==
    Count([b EXCEPT !.crashes = AtMost(inWindow, CrashCap)],
          IF inWindow >= CrashWindowCount THEN inWindow - CrashWindowCount + 2 ELSE 1)

\* Mutant of ProbeFailure: a failed probe counts like any failed start.
ProbeCounts(b) == [b EXCEPT !.failures = @ + 1, !.wait = "probe"]

ProbeFailure(b) == [b EXCEPT !.wait = "probe"]

\* startLocked, when the process outlived the readiness window
Started(b) == [b EXCEPT !.wait = "none", !.failures = 0, !.gaveUp = FALSE,
                        !.goodTried = FALSE, !.goodPending = FALSE]

\* ResetFailures; the notice stays to be delivered.
Cleared(b) == [NoFailures EXCEPT !.notice = b.notice]

\* markGaveUp
MarkedGaveUp(b) == GiveUp([b EXCEPT !.failures = MaxStartFailures])

\* absorbExitLocked: what the account may become when a run ended.
Absorbed(b) ==
    IF young THEN {QuickFailure(b)}
    ELSE {SlowFailure(b, n) : n \in 1..(b.crashes + 1)}

-------------------------------------------------------------------------------
Init ==
    /\ disk \in Config \cup {None} /\ good \in Valid \cup {None} /\ bak = None
    /\ unsaved = FALSE
    /\ alive = FALSE /\ loaded = None /\ young = FALSE /\ run = "none"
    /\ started = FALSE /\ runHash = None /\ book = NoFailures /\ rejected = None
    /\ mu = "free"
    /\ main = "boot" /\ arg = None
    /\ dog = "off" /\ saw = [gaveUp |-> FALSE, due |-> FALSE] /\ copy = None
    /\ events = 0 /\ alerts = FALSE

-------------------------------------------------------------------------------
(* startLocked and Stop, as they appear to whoever calls them.             *)

\* It is running already.
StartsNothing ==
    /\ mu = "free"
    /\ alive
    /\ started' = TRUE
    /\ runHash' = IF runHash = None THEN disk ELSE runHash
    /\ UNCHANGED <<files, process, book, rejected, mu, events>>

\* No configuration, or the process cannot be created: counted, but p.started
\* keeps its value.
CannotSpawn(probe) ==
    /\ mu = "free"
    /\ ~alive
    /\ \/ disk = None /\ UNCHANGED events
       \/ disk # None /\ "exec" \in Faults /\ Event
    /\ book' = IF probe THEN ProbeFailure(book) ELSE QuickFailure(book)
    /\ UNCHANGED <<files, process, started, runHash, rejected, mu>>

\* The log directory or file cannot be opened: not counted.
CannotLog ==
    /\ mu = "free"
    /\ ~alive
    /\ disk # None
    /\ "log" \in Faults /\ Event
    /\ UNCHANGED <<files, process, fields, mu>>

\* The process is created and p.mu stays locked for the readiness window.
Spawns(who) ==
    /\ mu = "free"
    /\ ~alive
    /\ disk # None
    /\ mu' = who
    /\ alive' = TRUE /\ loaded' = disk /\ young' = TRUE /\ run' = "live"
    /\ started' = TRUE
    /\ UNCHANGED <<files, runHash, book, rejected, events>>

\* The file is read again for the hash.
Survives(who) ==
    /\ mu = who
    /\ loaded \in Surviving
    /\ mu' = "free"
    /\ book' = Started(book)
    /\ runHash' = IF disk = None THEN runHash ELSE disk
    /\ UNCHANGED <<files, process, started, rejected, events>>

DiesSoon(who, probe) ==
    /\ mu = who
    /\ mu' = "free"
    /\ alive' = FALSE
    /\ run' = "done"
    /\ book' = IF probe THEN ProbeFailure(book) ELSE QuickFailure(book)
    /\ UNCHANGED <<files, loaded, young, started, runHash, rejected>>

Dies(who, probe) ==
    /\ DiesSoon(who, probe)
    /\ IF loaded \in Surviving THEN Event ELSE UNCHANGED events

StartFails(who, probe) == CannotSpawn(probe) \/ CannotLog \/ Dies(who, probe)
StartWorks(who) == StartsNothing \/ Survives(who)

\* A death that was not absorbed yet is no failure any more.
Stops ==
    /\ mu = "free"
    /\ started' = FALSE
    /\ runHash' = None
    /\ alive' = FALSE
    /\ run' = IF run = "none" THEN "none" ELSE "done"
    /\ UNCHANGED <<files, loaded, young, book, rejected, mu, events>>

\* ResetFailures
Resets(b) ==
    /\ mu = "free"
    /\ book' = b
    /\ rejected' = None
    /\ UNCHANGED <<process, started, runHash, mu, events>>

-------------------------------------------------------------------------------
(* The main goroutine.  Start and Stop return to these places.             *)

AfterStart ==
    [bootStart  |-> [ok |-> "idle",   fail |-> "idle"],
     pushStart  |-> [ok |-> "commit", fail |-> "reject"],
     backStart  |-> [ok |-> "idle",   fail |-> "idle"],
     againStart |-> [ok |-> "idle",   fail |-> "idle"]]

AfterStop ==
    [pushStop |-> "pushStart", backStop |-> "backStart",
     againStop |-> "againStart", exitStop |-> "leaving"]

dogVars == <<dog, saw, copy, alerts>>

MainStart ==
    /\ main \in DOMAIN AfterStart
    /\ \/ StartWorks("main") /\ main' = AfterStart[main].ok
       \/ StartFails("main", FALSE) /\ main' = AfterStart[main].fail
       \/ Spawns("main") /\ UNCHANGED main
    /\ UNCHANGED <<arg, dogVars>>

MainStop ==
    /\ main \in DOMAIN AfterStop
    /\ Stops
    /\ main' = AfterStop[main]
    /\ UNCHANGED <<arg, dogVars>>

\* CleanupStale, which an orphan may outlast, and EnsureUsableConfig; then Start,
\* if there is a configuration at all.
Boot ==
    /\ main = "boot"
    /\ alive' \in {FALSE, alive}
    /\ \/ /\ disk' = (IF disk = None THEN Bootstrap
                     ELSE IF disk \notin Valid /\ good # None THEN good ELSE disk)
          /\ unsaved' = FALSE /\ UNCHANGED events
       \/ "write" \in Faults /\ Event /\ unsaved' = TRUE /\ UNCHANGED disk
    /\ main' = IF disk' = None THEN "idle" ELSE "bootStart"
    /\ UNCHANGED <<bak, good, loaded, young, run, fields, mu, arg, dogVars>>

\* The watchdog is started last.
StartWatchdog ==
    /\ dog = "off"
    /\ main = "idle"
    /\ dog' = "idle"
    /\ UNCHANGED <<files, process, fields, mu, main, arg, saw, copy, events, alerts>>

\* Mutant of Push: the configuration is not tested.
PushUntested(c) ==
    /\ main = "idle" /\ dog # "off" /\ mu = "free"
    /\ "push" \in Commands /\ Event
    /\ c # rejected
    /\ arg' = c
    /\ main' = "backup"
    /\ UNCHANGED <<files, process, fields, mu, dogVars>>

\* RestartWithConfig: a content in its cooldown or one that -test refuses changes
\* nothing, any other is written next.
Push(c) ==
    /\ main = "idle" /\ dog # "off" /\ mu = "free"
    /\ "push" \in Commands /\ Event
    /\ c # rejected
    /\ c \in Valid
    /\ arg' = c
    /\ main' = "backup"
    /\ UNCHANGED <<files, process, fields, mu, dogVars>>

\* Rename to .bak; an error is ignored.
Backup ==
    /\ main = "backup"
    /\ \/ /\ bak' = IF disk = None THEN bak ELSE disk
          /\ disk' = None
          /\ UNCHANGED <<unsaved, events>>
       \/ "write" \in Faults /\ Event /\ unsaved' = TRUE /\ UNCHANGED <<disk, bak>>
    /\ main' = "replace"
    /\ UNCHANGED <<good, process, fields, mu, arg, dogVars>>

Replace ==
    /\ main = "replace"
    /\ \/ disk' = arg /\ main' = "pushReset" /\ UNCHANGED events
       \/ "write" \in Faults /\ Event /\ main' = "idle" /\ UNCHANGED disk
    /\ UNCHANGED <<bak, good, unsaved, process, fields, mu, arg, dogVars>>

\* ResetFailures of a push and of restart_xray
MainReset ==
    /\ \/ main = "pushReset" /\ main' = "pushStop"
       \/ main = "againReset" /\ main' = "againStop"
    /\ Resets(Cleared(book))
    /\ UNCHANGED <<files, arg, dogVars>>

\* CopyFile to .good; an error is ignored.
CopiesToGood ==
    \/ good' = (IF disk = None THEN good ELSE disk) /\ UNCHANGED events
    \/ "write" \in Faults /\ Event /\ UNCHANGED good

\* The new configuration is kept: no .bak, and a .good.
Commit ==
    /\ main = "commit"
    /\ bak' = None
    /\ CopiesToGood
    /\ main' = "clear"
    /\ UNCHANGED <<disk, unsaved, process, fields, mu, arg, dogVars>>

\* clearRejected; or noteRejected, when the new configuration did not start
Judge ==
    /\ mu = "free"
    /\ \/ main = "clear" /\ rejected' = None /\ main' = "idle"
       \/ main = "reject" /\ rejected' = arg /\ main' = "restore"
    /\ UNCHANGED <<files, process, started, runHash, book, mu, arg, dogVars,
                   events>>

\* The rollback to .bak, when there is one; an error of the rename is ignored.
Restore ==
    /\ main = "restore"
    /\ main' = IF bak = None THEN "idle" ELSE "backStop"
    /\ \/ bak = None /\ UNCHANGED <<disk, bak, events>>
       \/ bak # None /\ disk' = bak /\ bak' = None /\ UNCHANGED events
       \/ bak # None /\ "write" \in Faults /\ Event /\ UNCHANGED <<disk, bak>>
    /\ UNCHANGED <<good, unsaved, process, fields, mu, arg, dogVars>>

\* WriteConfigIfValid, after the users were changed over gRPC
Hot(c) ==
    /\ main = "idle" /\ dog # "off"
    /\ "hot" \in Commands /\ Event
    /\ c \in Valid
    /\ disk' = c
    /\ main' = "hotGood"
    /\ UNCHANGED <<bak, good, unsaved, process, fields, mu, arg, dogVars>>

HotGood ==
    /\ main = "hotGood"
    /\ CopiesToGood
    /\ main' = "idle"
    /\ UNCHANGED <<disk, bak, unsaved, process, fields, mu, arg, dogVars>>

\* restart_xray
RestartXray ==
    /\ main = "idle" /\ dog # "off"
    /\ "restart" \in Commands /\ Event
    /\ main' = "againReset"
    /\ UNCHANGED <<files, process, fields, mu, arg, dogVars>>

\* Run returns: close(wdStop), then Stop and the process ends.
Exit ==
    /\ main = "idle" /\ dog # "off"
    /\ "exit" \in Faults /\ Event
    /\ main' = "exitStop"
    /\ UNCHANGED <<files, process, fields, mu, arg, dogVars>>

\* main returns, and with it every goroutine ends.
Leave ==
    /\ main = "leaving"
    /\ main' = "gone"
    /\ mu' = "free"
    /\ UNCHANGED <<files, process, fields, arg, dogVars, events>>

-------------------------------------------------------------------------------
(* The watchdog: check.                                                    *)

mainVars == <<main, arg>>

Notified(b) == [b EXCEPT !.notice = FALSE]

\* The notice is delivered, a death is absorbed, and the state is read.
DogCheck ==
    /\ dog = "idle" /\ mu = "free"
    /\ alerts' = (alerts \/ book.notice)
    /\ \E b \in (IF started /\ run = "dead" THEN Absorbed(Notified(book))
                  ELSE {Notified(book)}) :
         /\ book' = b
         /\ saw' = [gaveUp |-> b.gaveUp, due |-> b.wait = "none"]
    /\ run' = IF started /\ run = "dead" THEN "done" ELSE run
    /\ dog' = IF ~started THEN "idle" ELSE IF alive THEN "healthy" ELSE "decide"
    /\ UNCHANGED <<files, alive, loaded, young, started, runHash, rejected, mu,
                   mainVars, copy, events>>

DogHealthy ==
    /\ dog = "healthy" /\ mu = "free"
    /\ book' = IF book.failures > 0 /\ ~young /\ book.crashes < CrashWindowCount
                 THEN [book EXCEPT !.failures = 0, !.gaveUp = FALSE,
                                   !.goodTried = FALSE, !.goodPending = FALSE]
                 ELSE book
    /\ dog' = "idle"
    /\ UNCHANGED <<files, process, started, runHash, rejected, mu, mainVars, saw,
                   copy, events, alerts>>

\* Mutant of DogDecide: no slow probe after giving up.
DogNeverProbes ==
    /\ dog = "decide" /\ mu = "free"
    /\ book' = [book EXCEPT !.goodPending = FALSE]
    /\ dog' = IF book.goodPending THEN "readGood"
              ELSE IF ~saw.due \/ saw.gaveUp THEN "idle" ELSE "start"
    /\ UNCHANGED <<files, process, started, runHash, rejected, mu, mainVars, saw,
                   copy, events, alerts>>

\* takeGoodRollback, then what was read before the lock was released decides.
DogDecide ==
    /\ dog = "decide" /\ mu = "free"
    /\ book' = [book EXCEPT !.goodPending = FALSE]
    /\ dog' = IF book.goodPending THEN "readGood"
              ELSE IF ~saw.due THEN "idle"
              ELSE IF saw.gaveUp THEN "probe" ELSE "start"
    /\ UNCHANGED <<files, process, started, runHash, rejected, mu, mainVars, saw,
                   copy, events, alerts>>

\* tryGoodRollback, without p.mu up to its ResetFailures
DogReadsGood ==
    /\ dog = "readGood"
    /\ copy' = good
    /\ dog' = IF good = None THEN "mark" ELSE "writeGood"
    /\ UNCHANGED <<files, process, fields, mu, mainVars, saw, events, alerts>>

DogWritesGood ==
    /\ dog = "writeGood"
    /\ \/ disk' = copy /\ dog' = "dogReset" /\ UNCHANGED events
       \/ "write" \in Faults /\ Event /\ dog' = "mark" /\ UNCHANGED disk
    /\ UNCHANGED <<bak, good, unsaved, process, fields, mu, mainVars, saw, copy, alerts>>

\* ResetFailures and markGoodTried
DogReset ==
    /\ dog = "dogReset"
    /\ Resets([Cleared(book) EXCEPT !.goodTried = TRUE])
    /\ dog' = "goodStart"
    /\ UNCHANGED <<files, mainVars, saw, copy, alerts>>

\* markGaveUp
DogMarks ==
    /\ dog = "mark" /\ mu = "free"
    /\ book' = MarkedGaveUp(book)
    /\ dog' = "notify"
    /\ UNCHANGED <<files, process, started, runHash, rejected, mu, mainVars, saw,
                   copy, events, alerts>>

AfterDogFails == [start |-> "notify", probe |-> "idle", goodStart |-> "mark"]

DogStart ==
    /\ dog \in DOMAIN AfterDogFails
    /\ \/ StartWorks("dog") /\ dog' = "idle"
       \/ StartFails("dog", dog = "probe") /\ dog' = AfterDogFails[dog]
       \/ Spawns("dog") /\ UNCHANGED dog
    /\ UNCHANGED <<mainVars, saw, copy, alerts>>

\* dispatchGiveUpNotice, at the end of a check that failed
DogNotifies ==
    /\ dog = "notify" /\ mu = "free"
    /\ alerts' = (alerts \/ book.notice)
    /\ book' = Notified(book)
    /\ dog' = "idle"
    /\ UNCHANGED <<files, process, started, runHash, rejected, mu, mainVars, saw,
                   copy, events>>

-------------------------------------------------------------------------------
(* The environment.                                                        *)

\* The process ends by itself after the readiness window.
Death ==
    /\ alive /\ mu = "free"
    /\ Event
    /\ alive' = FALSE
    /\ run' = IF run = "live" THEN "dead" ELSE run
    /\ UNCHANGED <<files, loaded, young, fields, mu, mainVars, dogVars>>

Mature ==
    /\ alive /\ young /\ mu = "free"
    /\ young' = FALSE
    /\ UNCHANGED <<files, alive, loaded, run, fields, mu, mainVars, dogVars,
                   events>>

TimerFires ==
    /\ book.wait # "none" /\ mu = "free"
    /\ book' = [book EXCEPT !.wait = "none"]
    /\ UNCHANGED <<files, process, started, runHash, rejected, mu, mainVars,
                   dogVars, events>>

CooldownEnds ==
    /\ rejected # None /\ mu = "free"
    /\ rejected' = None
    /\ UNCHANGED <<files, process, started, runHash, book, mu, mainVars, dogVars,
                   events>>

\* The agent is killed and started again; xray is in a process group of its own.
Crash ==
    /\ "crash" \in Faults /\ Event
    /\ main # "gone"
    /\ run' = "none" /\ started' = FALSE /\ runHash' = None
    /\ book' = NoFailures /\ rejected' = None /\ mu' = "free"
    /\ main' = "boot" /\ arg' = None
    /\ dog' = "off" /\ saw' = [gaveUp |-> FALSE, due |-> FALSE] /\ copy' = None
    /\ UNCHANGED <<files, alive, loaded, young, alerts>>

-------------------------------------------------------------------------------
Main ==
    \/ Boot \/ StartWatchdog \/ MainStart \/ MainStop \/ MainReset
    \/ Backup \/ Replace \/ Commit \/ Judge \/ Restore \/ HotGood \/ Leave

Command ==
    \/ \E c \in Config : Push(c) \/ Hot(c)
    \/ RestartXray \/ Exit

\* The watchdog's goroutine ends with the process.
Watchdog ==
    /\ main # "gone"
    /\ \/ DogCheck \/ DogHealthy \/ DogDecide \/ DogReadsGood \/ DogWritesGood
       \/ DogReset \/ DogMarks \/ DogStart \/ DogNotifies

Next == Main \/ Command \/ Watchdog \/ Death \/ Mature \/ TimerFires
            \/ CooldownEnds \/ Crash

Spec == Init /\ [][Next]_vars

\* Both goroutines run, and timers fire.
Fairness == WF_vars(Main) /\ WF_vars(Watchdog) /\ WF_vars(TimerFires)

FairSpec == Spec /\ Fairness

-------------------------------------------------------------------------------
(* Every variable has its type.                                            *)
TypeOK ==
    /\ disk \in Config \cup {None} /\ bak \in Config \cup {None}
    /\ good \in Config \cup {None} /\ unsaved \in BOOLEAN
    /\ alive \in BOOLEAN /\ loaded \in Config \cup {None} /\ young \in BOOLEAN
    /\ run \in {"none", "live", "dead", "done"}
    /\ started \in BOOLEAN /\ runHash \in Config \cup {None}
    /\ book \in Book
    /\ rejected \in Config \cup {None}
    /\ mu \in {"free", "main", "dog"}
    /\ main \in {"boot", "idle", "backup", "replace", "pushReset", "againReset",
                 "commit", "clear", "reject", "restore", "hotGood", "leaving",
                 "gone"}
                \cup DOMAIN AfterStart \cup DOMAIN AfterStop
    /\ arg \in Config \cup {None}
    /\ dog \in {"off", "idle", "healthy", "decide", "readGood", "writeGood",
                "dogReset", "mark", "notify"} \cup DOMAIN AfterDogFails
    /\ saw \in [gaveUp : BOOLEAN, due : BOOLEAN]
    /\ copy \in Config \cup {None}
    /\ events \in 0..MaxEvents
    /\ alerts \in BOOLEAN

\* Once there is a .good to fall back to, no sequence of pushes, hot updates,
\* rollbacks and restarts puts a configuration on disk that -test refuses
\* (RestartWithConfig tests before it replaces; .bak, .good and the copies the two
\* goroutines carry were all tested once), unless the boot could not replace it or a
\* push could not set it aside.
DiskIsTested ==
    main # "boot" /\ good # None /\ ~unsaved => disk \in Valid \cup {None}

\* A slow probe after giving up changes neither the verdict nor the count the panel
\* shows (noteProbeFailureLocked): while the master sends nothing, only the death of
\* a process that did run moves the count again.
CountStaysFrozen ==
    [][main = "idle" /\ run # "dead" /\ book.gaveUp /\ book'.gaveUp
         => book'.failures = book.failures]_vars

\* A configuration that cannot stay up: the watchdog tries it, falls back to .good,
\* gives up and tells the master, once the commands of the master have ceased.
GivesUp ==
    <>[](started /\ main = "idle" /\ ~alive /\ disk \notin Surviving
            => book.gaveUp /\ alerts)

\* A failure of the environment heals without anybody's help: if the file would run
\* and the process was created once, it runs again, by a retry or a slow probe.
Heals == <>[](started /\ main = "idle" /\ disk \in Surviving => alive)

\* Once the commands of the master have ceased the supervisor settles: xray runs, or the
\* master was told that it does not.
Settles == GivesUp /\ Heals

-------------------------------------------------------------------------------
(* What comments and documents say, and the code does otherwise.           *)

\* xrayproc.go:465: when RestartWithConfig's Start returned nil, the new
\* configuration is in effect.
PushTakesEffect ==
    [][main = "pushStart" /\ main' = "commit" => disk = arg /\ loaded = arg]_vars
===============================================================================
