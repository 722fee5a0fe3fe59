----------------------------- MODULE XrayProcProofs -----------------------------
(***************************************************************************)
(* Theorems about XrayProc, for every value of its constants.              *)
(***************************************************************************)
EXTENDS XrayProc, TLAPS

(* What is on disk was tested.                                              *)

Tested == Valid \cup {None}

\* While a push is on its way .bak holds what was on disk; it is stale elsewhere.
BakCounts == {"replace", "pushReset", "pushStop", "pushStart", "reject", "restore"}

\* What Replace or WriteConfigIfValid put on disk stays valid until it is copied.
DiskCounts == {"pushReset", "pushStop", "pushStart", "commit", "hotGood"}

TestedInv ==
    /\ good \in Tested
    /\ main # "boot" /\ good # None /\ ~unsaved => disk \in Tested
    /\ main \in BakCounts /\ good # None /\ ~unsaved => bak \in Tested
    /\ main # "boot" /\ disk = None /\ good # None /\ ~unsaved => bak \in Tested
    /\ main \in DiskCounts => disk \in Valid
    /\ main \in {"backup", "replace"} => arg \in Valid
    /\ dog = "writeGood" => copy \in Valid

LEMMA TestedInit == Init => TestedInv
  BY DEF Init, TestedInv, Tested, BakCounts, DiskCounts

LEMMA TestedStep == TestedInv /\ [Next]_vars => TestedInv'
  <1> SUFFICES ASSUME TestedInv, [Next]_vars PROVE TestedInv'
    OBVIOUS
  <1>a. None \notin Valid /\ Bootstrap \in Valid
    BY XrayProcAssumption
  <1> USE DEF TestedInv, Tested, BakCounts, DiskCounts, files, dogVars, mainVars
  <1>1. CASE Boot
    BY <1>a, <1>1 DEF Boot
  <1>2. CASE StartWatchdog
    BY <1>2 DEF StartWatchdog
  <1>3. ASSUME UNCHANGED <<files, arg, copy, dog>>, main' = main
        PROVE  TestedInv'
    BY <1>3
  <1>4. CASE MainStart
    <2>1. UNCHANGED <<files, arg, dogVars>> /\ main \in DOMAIN AfterStart
          /\ main' \in {main, AfterStart[main].ok, AfterStart[main].fail}
      BY <1>4 DEF MainStart, StartWorks, StartFails, StartsNothing, Survives, CannotSpawn,
                  CannotLog, Dies, DiesSoon, Spawns
    <2> QED
      BY <2>1 DEF AfterStart
  <1>5. CASE MainStop
    BY <1>5 DEF MainStop, Stops, AfterStop
  <1>6. CASE MainReset
    BY <1>6 DEF MainReset
  <1>7. CASE Backup
    BY <1>7 DEF Backup
  <1>8. CASE Replace
    BY <1>a, <1>8 DEF Replace
  <1>9. CASE Commit
    BY <1>9 DEF Commit, CopiesToGood
  <1>10. CASE Judge
    BY <1>10 DEF Judge
  <1>11. CASE Restore
    BY <1>11 DEF Restore
  <1>12. CASE HotGood \/ Leave
    BY <1>12 DEF HotGood, Leave, CopiesToGood
  <1>13. ASSUME NEW c \in Config, Push(c) \/ Hot(c) PROVE TestedInv'
    BY <1>a, <1>13 DEF Push, Hot
  <1>14. CASE RestartXray \/ Exit
    BY <1>14 DEF RestartXray, Exit
  <1>15. CASE DogReadsGood \/ DogWritesGood
    BY <1>a, <1>15 DEF DogReadsGood, DogWritesGood
  <1>16. CASE DogStart
    <2>1. UNCHANGED <<files, mainVars, copy>> /\ dog' # "writeGood"
      BY <1>16 DEF DogStart, StartWorks, StartFails, StartsNothing, Survives, CannotSpawn,
                   CannotLog, Dies, DiesSoon, Spawns, AfterDogFails
    <2> QED
      BY <2>1
  <1>17. CASE DogCheck \/ DogHealthy \/ DogDecide \/ DogReset \/ DogMarks \/ DogNotifies
    <2>1. UNCHANGED <<files, mainVars, copy>> /\ dog' # "writeGood"
      BY <1>17 DEF DogCheck, DogHealthy, DogDecide, DogReset, DogMarks, DogNotifies
    <2> QED
      BY <2>1
  <1>18. CASE Death \/ Mature \/ TimerFires \/ CooldownEnds
    BY <1>3, <1>18 DEF Death, Mature, TimerFires, CooldownEnds
  <1>19. CASE Crash
    BY <1>19 DEF Crash
  <1>20. CASE UNCHANGED vars
    BY <1>20 DEF vars
  <1> QED
    BY <1>1, <1>2, <1>4, <1>5, <1>6, <1>7, <1>8, <1>9, <1>10, <1>11, <1>12, <1>13, <1>14,
       <1>15, <1>16, <1>17, <1>18, <1>19, <1>20 DEF Next, Main, Command, Watchdog

\* Once there is a .good to fall back to, whatever is on disk was tested: through
\* pushes, hot updates, rollbacks of both goroutines, crashes, reboots and saves
\* that fail.
THEOREM XrayDiskIsTested == Spec => []DiskIsTested
  <1>1. TestedInv /\ [Next]_vars => TestedInv'
    BY TestedStep
  <1>2. TestedInv => DiskIsTested
    BY DEF TestedInv, DiskIsTested, Tested
  <1> QED
    BY <1>1, <1>2, TestedInit, PTL DEF Spec

-------------------------------------------------------------------------------
(* The failure account: its operations keep its type.                        *)

\* One field of the account at a time.
LEMMA BookPut ==
    ASSUME NEW b \in Book
    PROVE  /\ \A v \in 0..MaxStartFailures : [b EXCEPT !.failures = v] \in Book
           /\ \A v \in BOOLEAN : [b EXCEPT !.gaveUp = v] \in Book
           /\ \A v \in BOOLEAN : [b EXCEPT !.notice = v] \in Book
           /\ \A v \in 0..CrashCap : [b EXCEPT !.crashes = v] \in Book
           /\ \A v \in BOOLEAN : [b EXCEPT !.goodTried = v] \in Book
           /\ \A v \in BOOLEAN : [b EXCEPT !.goodPending = v] \in Book
           /\ [b EXCEPT !.wait = "none"] \in Book
           /\ [b EXCEPT !.wait = "backoff"] \in Book
           /\ [b EXCEPT !.wait = "probe"] \in Book
  BY Zenon DEF Book

LEMMA GiveUpType == ASSUME NEW b \in Book PROVE GiveUp(b) \in Book
  <1>1. (b.notice \/ ~b.gaveUp) \in BOOLEAN
    OBVIOUS
  <1> DEFINE c == [b EXCEPT !.gaveUp = TRUE]
             d == [c EXCEPT !.notice = b.notice \/ ~b.gaveUp]
  <1>2. c \in Book
    BY BookPut, Zenon
  <1> HIDE DEF c
  <1>3. d \in Book
    BY <1>1, <1>2, BookPut, Zenon
  <1>4. GiveUp(b) = [d EXCEPT !.wait = "probe"]
    BY Zenon DEF GiveUp, c
  <1> HIDE DEF d
  <1>5. [d EXCEPT !.wait = "probe"] \in Book
    BY <1>3, BookPut, Zenon
  <1> QED BY <1>4, <1>5, Zenon

LEMMA CountType == ASSUME NEW b \in Book, NEW n \in Nat \ {0} PROVE Count(b, n) \in Book
  <1>1. CASE n < MaxStartFailures
    <2> DEFINE c == [b EXCEPT !.failures = n]
    <2>1. n \in 0..MaxStartFailures
      BY <1>1, XrayProcAssumption
    <2>2. c \in Book
      BY <2>1, BookPut, Zenon
    <2>3. Count(b, n) = [c EXCEPT !.wait = IF n <= 1 THEN "none" ELSE "backoff"]
      BY <1>1, Zenon DEF Count
    <2> HIDE DEF c
    <2> QED BY <2>2, <2>3, BookPut, Zenon
  <1>2. CASE ~(n < MaxStartFailures)
    <2> DEFINE c == [b EXCEPT !.failures = MaxStartFailures]
               d == [c EXCEPT !.goodTried = TRUE]
               e == [d EXCEPT !.goodPending = TRUE]
    <2>0. MaxStartFailures \in 0..MaxStartFailures
      BY XrayProcAssumption
    <2>1. c \in Book
      BY <2>0, BookPut, Zenon
    <2>2. Count(b, n) = IF ~b.goodTried /\ ~b.gaveUp THEN [e EXCEPT !.wait = "none"] ELSE GiveUp(c)
      BY <1>2, Zenon DEF Count
    <2> HIDE DEF c
    <2>3. d \in Book
      BY <2>1, BookPut, Zenon
    <2> HIDE DEF d
    <2>4. e \in Book
      BY <2>3, BookPut, Zenon
    <2> HIDE DEF e
    <2> QED BY <2>1, <2>2, <2>4, BookPut, GiveUpType, Zenon
  <1> QED BY <1>1, <1>2

LEMMA SlowType ==
    ASSUME NEW b \in Book, NEW n \in 1..(b.crashes + 1)
    PROVE  SlowFailure(b, n) \in Book
  <1>0. b.crashes \in Nat
    BY DEF Book
  <1> DEFINE c == [b EXCEPT !.crashes = AtMost(n, CrashCap)]
             m == IF n >= CrashWindowCount THEN n - CrashWindowCount + 2 ELSE 1
  <1>1. AtMost(n, CrashCap) \in 0..CrashCap
    BY <1>0, XrayProcAssumption DEF AtMost, CrashCap
  <1>2. c \in Book
    BY <1>1, BookPut, Zenon
  <1>3. m \in Nat \ {0}
    BY <1>0, XrayProcAssumption
  <1>4. SlowFailure(b, n) = Count(c, m)
    BY Zenon DEF SlowFailure
  <1> HIDE DEF c, m
  <1> QED BY <1>2, <1>3, <1>4, CountType, Zenon

LEMMA NoFailuresType == NoFailures \in Book
  BY XrayProcAssumption DEF NoFailures, Book, CrashCap

LEMMA BookOps ==
    ASSUME NEW b \in Book
    PROVE  /\ QuickFailure(b) \in Book /\ ProbeFailure(b) \in Book /\ Started(b) \in Book
           /\ Cleared(b) \in Book /\ [Cleared(b) EXCEPT !.goodTried = TRUE] \in Book
           /\ MarkedGaveUp(b) \in Book /\ Notified(b) \in Book
           /\ [b EXCEPT !.goodPending = FALSE] \in Book
           /\ [b EXCEPT !.wait = "none"] \in Book
  <1>1. QuickFailure(b) \in Book
    <2>1. b.failures + 1 \in Nat \ {0}
      BY XrayProcAssumption DEF Book
    <2> QED BY <2>1, CountType DEF QuickFailure
  <1>2. ProbeFailure(b) \in Book
    BY BookPut, Zenon DEF ProbeFailure
  <1>z. 0 \in 0..MaxStartFailures /\ MaxStartFailures \in 0..MaxStartFailures
    BY XrayProcAssumption
  <1>3. Started(b) \in Book
    <2> DEFINE c1 == [b EXCEPT !.wait = "none"]
               c2 == [c1 EXCEPT !.failures = 0]
               c3 == [c2 EXCEPT !.gaveUp = FALSE]
               c4 == [c3 EXCEPT !.goodTried = FALSE]
    <2>0. Started(b) = [c4 EXCEPT !.goodPending = FALSE]
      BY Zenon DEF Started
    <2>1. c1 \in Book
      BY BookPut, Zenon
    <2> HIDE DEF c1
    <2>2. c2 \in Book
      BY <2>1, <1>z, BookPut, Zenon
    <2> HIDE DEF c2
    <2>3. c3 \in Book
      BY <2>2, BookPut, Zenon
    <2> HIDE DEF c3
    <2>4. c4 \in Book
      BY <2>3, BookPut, Zenon
    <2> HIDE DEF c4
    <2> QED BY <2>0, <2>4, BookPut, Zenon
  <1>4. Cleared(b) \in Book
    <2>1. b.notice \in BOOLEAN
      BY Zenon DEF Book
    <2> QED BY <2>1, NoFailuresType, BookPut, Zenon DEF Cleared
  <1>5. [Cleared(b) EXCEPT !.goodTried = TRUE] \in Book
    BY <1>4, BookPut, Zenon
  <1>6. MarkedGaveUp(b) \in Book
    <2>1. [b EXCEPT !.failures = MaxStartFailures] \in Book
      BY <1>z, BookPut, Zenon
    <2> QED BY <2>1, GiveUpType, Zenon DEF MarkedGaveUp
  <1>7. Notified(b) \in Book
    BY BookPut, Zenon DEF Notified
  <1>8. [b EXCEPT !.goodPending = FALSE] \in Book /\ [b EXCEPT !.wait = "none"] \in Book
    BY BookPut, Zenon
  <1> QED BY <1>1, <1>2, <1>3, <1>4, <1>5, <1>6, <1>7, <1>8

LEMMA BookStep == book \in Book /\ [Next]_vars => book' \in Book
  <1> SUFFICES ASSUME book \in Book, [Next]_vars PROVE book' \in Book
    OBVIOUS
  <1>1. CASE MainStart \/ DogStart
    <2>1. \/ book' \in {book, Started(book), ProbeFailure(book), QuickFailure(book)}
      BY <1>1, Zenon DEF MainStart, DogStart, StartWorks, StartFails, StartsNothing, Survives, CannotSpawn,
         CannotLog, Dies, DiesSoon, Spawns, fields
    <2> QED BY <2>1, BookOps
  <1>2. CASE MainReset \/ DogReset
    <2>1. book' \in {Cleared(book), [Cleared(book) EXCEPT !.goodTried = TRUE]}
      BY <1>2, Zenon DEF MainReset, DogReset, Resets
    <2> QED BY <2>1, BookOps
  <1>3. CASE DogCheck
    <2>1. PICK b \in (IF started /\ run = "dead" THEN Absorbed(Notified(book))
                      ELSE {Notified(book)}) : book' = b
      BY <1>3, Zenon DEF DogCheck
    <2>2. Notified(book) \in Book
      BY BookOps
    <2>3. Absorbed(Notified(book)) \subseteq Book
      <3> DEFINE n == Notified(book)
      <3> HIDE DEF n
      <3>1. Absorbed(n) \subseteq Book
        BY <2>2, BookOps, SlowType DEF Absorbed, n
      <3> QED BY <3>1 DEF n
    <2> QED BY <2>1, <2>2, <2>3
  <1>4. CASE DogHealthy
    <2> DEFINE c == [[[[book EXCEPT !.failures = 0] EXCEPT !.gaveUp = FALSE]
                            EXCEPT !.goodTried = FALSE] EXCEPT !.goodPending = FALSE]
    <2>1. book' \in {book, c}
      BY <1>4, Zenon DEF DogHealthy
    <2>2. c \in Book
      <3> DEFINE c2 == [book EXCEPT !.failures = 0]
                 c3 == [c2 EXCEPT !.gaveUp = FALSE]
                 c4 == [c3 EXCEPT !.goodTried = FALSE]
      <3>1. 0 \in 0..MaxStartFailures
        BY XrayProcAssumption
      <3>2. c2 \in Book
        BY <3>1, BookPut, Zenon
      <3>0. c = [c4 EXCEPT !.goodPending = FALSE]
        BY Zenon
      <3> HIDE DEF c, c2
      <3>3. c3 \in Book
        BY <3>2, BookPut, Zenon
      <3> HIDE DEF c3
      <3>4. c4 \in Book
        BY <3>3, BookPut, Zenon
      <3> HIDE DEF c4
      <3> QED BY <3>0, <3>4, BookPut, Zenon
    <2> QED BY <2>1, <2>2, Zenon
  <1>5. CASE DogDecide \/ DogMarks \/ DogNotifies \/ TimerFires \/ Crash
    <2>1. book' \in {[book EXCEPT !.goodPending = FALSE], MarkedGaveUp(book), Notified(book),
                     [book EXCEPT !.wait = "none"], NoFailures}
      BY <1>5, Zenon DEF DogDecide, DogMarks, DogNotifies, TimerFires, Crash
    <2> QED BY <2>1, BookOps, NoFailuresType, Zenon
  <1>6. CASE \/ Boot \/ StartWatchdog \/ MainStop \/ Backup \/ Replace \/ Commit \/ Judge
             \/ Restore \/ HotGood \/ Leave \/ Command \/ DogReadsGood \/ DogWritesGood
             \/ Death \/ Mature \/ CooldownEnds \/ UNCHANGED vars
    <2>1. book' = book
      BY <1>6, Zenon DEF Boot, StartWatchdog, MainStop, Stops, Backup, Replace, Commit, Judge,
         Restore, HotGood, Leave, Command, Push, Hot, RestartXray, Exit, DogReadsGood,
         DogWritesGood, Death, Mature, CooldownEnds, vars, fields
    <2> QED BY <2>1
  <1> QED BY <1>1, <1>2, <1>3, <1>4, <1>5, <1>6 DEF Next, Main, Watchdog

\* Where the steps of the tables lead.
LEMMA Tables ==
    /\ DOMAIN AfterStart = {"bootStart", "pushStart", "backStart", "againStart"}
    /\ \A m \in DOMAIN AfterStart :
          AfterStart[m].ok \in {"idle", "commit"} /\ AfterStart[m].fail \in {"idle", "reject"}
    /\ DOMAIN AfterStop = {"pushStop", "backStop", "againStop", "exitStop"}
    /\ \A m \in DOMAIN AfterStop :
          AfterStop[m] \in {"pushStart", "backStart", "againStart", "leaving"}
    /\ DOMAIN AfterDogFails = {"start", "probe", "goodStart"}
    /\ \A d \in DOMAIN AfterDogFails : AfterDogFails[d] \in {"notify", "idle", "mark"}
  BY DEF AfterStart, AfterStop, AfterDogFails


Flags == /\ unsaved \in BOOLEAN /\ alive \in BOOLEAN /\ young \in BOOLEAN /\ started \in BOOLEAN
         /\ alerts \in BOOLEAN /\ saw \in [gaveUp : BOOLEAN, due : BOOLEAN]

LEMMA FlagsStep == TypeOK /\ [Next]_vars => Flags'
  <1> SUFFICES ASSUME TypeOK, [Next]_vars PROVE Flags'
    OBVIOUS
  <1>0. Flags
    BY Zenon DEF TypeOK, Flags
  <1> USE <1>0 DEF Flags, files, process, fields, dogVars, mainVars
  <1>1. CASE Boot \/ StartWatchdog
    BY <1>1, Zenon DEF Boot, StartWatchdog
  <1>2. CASE MainStart
    BY <1>2, Zenon DEF MainStart, StartWorks, StartFails, StartsNothing, Survives, CannotSpawn,
       CannotLog, Dies, DiesSoon, Spawns
  <1>3. CASE DogStart
    BY <1>3, Zenon DEF DogStart, StartWorks, StartFails, StartsNothing, Survives, CannotSpawn,
       CannotLog, Dies, DiesSoon, Spawns
  <1>4. CASE MainStop \/ MainReset \/ Backup \/ Replace \/ Commit \/ Judge \/ Restore \/ HotGood \/ Leave
    BY <1>4, Zenon DEF MainStop, Stops, MainReset, Resets, Backup, Replace, Commit, Judge, Restore, HotGood, Leave
  <1>5. CASE Command
    BY <1>5, Zenon DEF Command, Push, Hot, RestartXray, Exit
  <1>6. CASE DogCheck
    <2>1. PICK b \in (IF started /\ run = "dead" THEN Absorbed(Notified(book))
                      ELSE {Notified(book)}) :
             book' = b /\ saw' = [gaveUp |-> b.gaveUp, due |-> b.wait = "none"]
      BY <1>6, Zenon DEF DogCheck
    <2>2. b.gaveUp \in BOOLEAN
      <3>1. b \in Book
        BY <2>1, BookStep DEF TypeOK
      <3> QED BY <3>1, Zenon DEF Book
    <2>3. saw' \in [gaveUp : BOOLEAN, due : BOOLEAN]
      BY <2>1, <2>2, Zenon
    <2> QED BY <1>6, <2>3, Zenon DEF DogCheck
  <1>7. CASE DogHealthy \/ DogDecide \/ DogReadsGood \/ DogWritesGood \/ DogReset \/ DogMarks \/ DogNotifies
    BY <1>7, Zenon DEF DogHealthy, DogDecide, DogReadsGood, DogWritesGood, DogReset, Resets, DogMarks, DogNotifies
  <1>8. CASE Death \/ Mature \/ TimerFires \/ CooldownEnds \/ UNCHANGED vars
    BY <1>8, Zenon DEF Death, Mature, TimerFires, CooldownEnds, vars
  <1>9. CASE Crash
    <2>1. saw' \in [gaveUp : BOOLEAN, due : BOOLEAN]
      BY <1>9 DEF Crash
    <2> QED BY <1>9, <2>1, Zenon DEF Crash
  <1> QED BY <1>1, <1>2, <1>3, <1>4, <1>5, <1>6, <1>7, <1>8, <1>9 DEF Next, Main, Watchdog

LEMMA XrayTypeInit == Init => TypeOK
  <1> SUFFICES ASSUME Init PROVE TypeOK
    OBVIOUS
  <1>1. book \in Book
    BY NoFailuresType DEF Init
  <1>2. saw \in [gaveUp : BOOLEAN, due : BOOLEAN]
    BY DEF Init
  <1>3. Flags
    BY <1>2, Zenon DEF Init, Flags
  <1> QED BY <1>1, <1>3, XrayProcAssumption DEF Init, TypeOK, Flags

LEMMA XrayTypeStep == TypeOK /\ [Next]_vars => TypeOK'
  <1> SUFFICES ASSUME TypeOK, [Next]_vars PROVE TypeOK'
    OBVIOUS
  <1>b. book' \in Book /\ Flags'
    BY BookStep, FlagsStep DEF TypeOK
  <1> USE <1>b, Tables, XrayProcAssumption DEF TypeOK, Flags, files, process, fields, dogVars, mainVars, Event
  <1>1. CASE Boot
    BY <1>1 DEF Boot
  <1>2. CASE StartWatchdog
    BY <1>2 DEF StartWatchdog
  <1>3. CASE MainStart
    BY <1>3 DEF MainStart, StartWorks, StartFails, StartsNothing, Survives, CannotSpawn, CannotLog, Dies, DiesSoon, Spawns
  <1>4. CASE MainStop
    BY <1>4 DEF MainStop, Stops
  <1>5. CASE MainReset
    BY <1>5 DEF MainReset, Resets
  <1>6. CASE Backup
    BY <1>6 DEF Backup
  <1>7. CASE Replace
    BY <1>7 DEF Replace
  <1>8. CASE Commit
    BY <1>8 DEF Commit, CopiesToGood
  <1>9. CASE Judge
    BY <1>9 DEF Judge
  <1>10. CASE Restore
    BY <1>10 DEF Restore
  <1>11. CASE HotGood
    BY <1>11 DEF HotGood, CopiesToGood
  <1>12. CASE Leave
    BY <1>12 DEF Leave
  <1>13. CASE RestartXray
    BY <1>13 DEF RestartXray
  <1>14. CASE Exit
    BY <1>14 DEF Exit
  <1>15. CASE DogCheck
    BY <1>15 DEF DogCheck
  <1>16. CASE DogHealthy
    BY <1>16 DEF DogHealthy
  <1>17. CASE DogDecide
    BY <1>17 DEF DogDecide
  <1>18. CASE DogReadsGood
    BY <1>18 DEF DogReadsGood
  <1>19. CASE DogWritesGood
    BY <1>19 DEF DogWritesGood
  <1>20. CASE DogReset
    BY <1>20 DEF DogReset, Resets
  <1>21. CASE DogMarks
    BY <1>21 DEF DogMarks
  <1>22. CASE DogStart
    BY <1>22 DEF DogStart, StartWorks, StartFails, StartsNothing, Survives, CannotSpawn, CannotLog, Dies, DiesSoon, Spawns
  <1>23. CASE DogNotifies
    BY <1>23 DEF DogNotifies
  <1>24. CASE Death
    BY <1>24 DEF Death
  <1>25. CASE Mature
    BY <1>25 DEF Mature
  <1>26. CASE TimerFires
    BY <1>26 DEF TimerFires
  <1>27. CASE CooldownEnds
    BY <1>27 DEF CooldownEnds
  <1>28. CASE Crash
    BY <1>28 DEF Crash
  <1>29. ASSUME NEW c \in Config, Push(c) \/ Hot(c) PROVE TypeOK'
    BY <1>29 DEF Push, Hot
  <1>30. CASE UNCHANGED vars
    BY <1>30 DEF vars
  <1> QED
    BY <1>1, <1>2, <1>3, <1>4, <1>5, <1>6, <1>7, <1>8, <1>9, <1>10, <1>11, <1>12, <1>13, <1>14, <1>15, <1>16, <1>17, <1>18, <1>19, <1>20, <1>21, <1>22, <1>23, <1>24, <1>25, <1>26, <1>27, <1>28, <1>29, <1>30 DEF Next, Main, Command, Watchdog

\* Every variable keeps its type: the failure account in particular never leaves Book,
\* however failures, probes, resets and crashes interleave.
THEOREM XrayTyping == Spec => []TypeOK
  BY XrayTypeInit, XrayTypeStep, PTL DEF Spec

-------------------------------------------------------------------------------
(* What the operations do to count, verdict and pending fallback.            *)

LEMMA GiveUpMoves ==
    ASSUME NEW b \in Book
    PROVE  /\ GiveUp(b).failures = b.failures /\ GiveUp(b).gaveUp
           /\ GiveUp(b).goodPending = b.goodPending
  BY DEF Book, GiveUp

\* What counting a failure does to the account.
LEMMA CountMoves ==
    ASSUME NEW b \in Book, NEW n \in Nat \ {0}
    PROVE  /\ n < MaxStartFailures =>
                 /\ Count(b, n).failures = n /\ Count(b, n).gaveUp = b.gaveUp
                 /\ Count(b, n).goodPending = b.goodPending
           /\ ~(n < MaxStartFailures) => Count(b, n).failures = MaxStartFailures
           /\ b.gaveUp => Count(b, n).gaveUp /\ Count(b, n).goodPending = b.goodPending
  <1>1. CASE n < MaxStartFailures
    <2> DEFINE c == [b EXCEPT !.failures = n]
               w == IF n <= 1 THEN "none" ELSE "backoff"
    <2>1. Count(b, n) = [c EXCEPT !.wait = w]
      BY <1>1, Zenon DEF Count
    <2>2. n \in 0..MaxStartFailures
      BY <1>1, XrayProcAssumption
    <2>3. c \in Book
      BY <2>2, BookPut, Zenon
    <2>4. c.failures = n /\ c.gaveUp = b.gaveUp /\ c.goodPending = b.goodPending
      BY DEF Book
    <2> HIDE DEF c, w
    <2>5. [c EXCEPT !.wait = w].failures = c.failures /\ [c EXCEPT !.wait = w].gaveUp = c.gaveUp
          /\ [c EXCEPT !.wait = w].goodPending = c.goodPending
      BY <2>3 DEF Book
    <2> QED BY <1>1, <2>1, <2>4, <2>5
  <1>2. CASE ~(n < MaxStartFailures)
    <2> DEFINE c == [b EXCEPT !.failures = MaxStartFailures]
               e == [[[c EXCEPT !.goodTried = TRUE] EXCEPT !.goodPending = TRUE] EXCEPT !.wait = "none"]
    <2>0. MaxStartFailures \in 0..MaxStartFailures
      BY XrayProcAssumption
    <2>1. c \in Book
      BY <2>0, BookPut, Zenon
    <2>2. Count(b, n) = IF ~b.goodTried /\ ~b.gaveUp THEN e ELSE GiveUp(c)
      BY <1>2, Zenon DEF Count
    <2>3. c.failures = MaxStartFailures /\ c.gaveUp = b.gaveUp /\ c.goodPending = b.goodPending
      BY DEF Book
    <2> HIDE DEF c
    <2>4. e.failures = c.failures
      BY <2>1 DEF Book
    <2>5. /\ GiveUp(c).failures = c.failures /\ GiveUp(c).gaveUp
          /\ GiveUp(c).goodPending = c.goodPending
      BY <2>1, GiveUpMoves
    <2> HIDE DEF e
    <2>6. Count(b, n).failures = MaxStartFailures
      BY <2>2, <2>3, <2>4, <2>5, Zenon
    <2>7. b.gaveUp => Count(b, n).gaveUp /\ Count(b, n).goodPending = b.goodPending
      BY <2>2, <2>3, <2>5, Zenon
    <2> QED BY <1>2, <2>6, <2>7
  <1> QED BY <1>1, <1>2

LEMMA BookFields ==
    ASSUME NEW b \in Book
    PROVE  /\ Started(b).failures = 0 /\ ~Started(b).gaveUp /\ ~Started(b).goodPending
           /\ Cleared(b).failures = 0 /\ ~Cleared(b).gaveUp /\ ~Cleared(b).goodPending
           /\ ProbeFailure(b).failures = b.failures /\ ProbeFailure(b).gaveUp = b.gaveUp
           /\ ProbeFailure(b).goodPending = b.goodPending
           /\ Notified(b).failures = b.failures /\ Notified(b).gaveUp = b.gaveUp
           /\ Notified(b).goodPending = b.goodPending /\ Notified(b).crashes = b.crashes
  BY DEF Book, Started, Cleared, NoFailures, ProbeFailure, Notified

LEMMA MoreFields ==
    ASSUME NEW b \in Book
    PROVE  LET t == [b EXCEPT !.goodTried = TRUE]
               g == [b EXCEPT !.goodPending = FALSE]
               w == [b EXCEPT !.wait = "none"]
               h == [b EXCEPT !.failures = 0, !.gaveUp = FALSE, !.goodTried = FALSE, !.goodPending = FALSE]
           IN  /\ t.failures = b.failures /\ t.gaveUp = b.gaveUp /\ t.goodPending = b.goodPending
               /\ g.failures = b.failures /\ g.gaveUp = b.gaveUp /\ ~g.goodPending
               /\ w.failures = b.failures /\ w.gaveUp = b.gaveUp /\ w.goodPending = b.goodPending
               /\ h.failures = 0 /\ ~h.gaveUp /\ ~h.goodPending
               /\ MarkedGaveUp(b).failures = MaxStartFailures /\ MarkedGaveUp(b).gaveUp
               /\ MarkedGaveUp(b).goodPending = b.goodPending
  BY DEF Book, MarkedGaveUp, GiveUp

-------------------------------------------------------------------------------
(* The run of the child, p.mu and the two goroutines.                        *)

\* Places from which the watchdog may start xray before it looks at it again.
DogHeads == {"decide", "start", "probe", "readGood", "writeGood", "dogReset", "goodStart"}

\* A run that has outlived its readiness window and was not absorbed.
Ran == main # "gone" /\ (run = "dead" \/ (run = "live" /\ mu = "free"))

RunInv ==
    /\ run = "live" => alive
    /\ run = "dead" => ~alive
    /\ run \in {"live", "dead"} => started
    /\ main = "boot" => dog = "off" /\ run = "none"
    /\ mu = "main" => main \in DOMAIN AfterStart /\ run = "live"
    /\ mu = "dog" => dog \in DOMAIN AfterDogFails /\ run = "live"
    /\ Ran => ~(main \in DOMAIN AfterStart /\ dog \in DogHeads)

LEMMA RunInit == Init => RunInv
  BY Tables DEF Init, RunInv, Ran, DogHeads

LEMMA RunStep == TypeOK /\ RunInv /\ [Next]_vars => RunInv'
  <1> SUFFICES ASSUME TypeOK, RunInv, [Next]_vars PROVE RunInv'
    OBVIOUS
  <1>t. /\ mu \in {"free", "main", "dog"} /\ started \in BOOLEAN /\ alive \in BOOLEAN
        /\ run \in {"none", "live", "dead", "done"}
    BY Zenon DEF TypeOK
  <1> USE <1>t, Tables DEF RunInv, Ran, DogHeads, files, process, fields, dogVars, mainVars
  <1>1. CASE Boot
    BY <1>1 DEF Boot
  <1>2. CASE StartWatchdog
    BY <1>2 DEF StartWatchdog
  <1>3. CASE MainStop
    BY <1>3 DEF MainStop, Stops
  <1>4. CASE MainReset
    BY <1>4 DEF MainReset, Resets
  <1>5. CASE Backup
    BY <1>5 DEF Backup
  <1>6. CASE Replace
    BY <1>6 DEF Replace
  <1>7. CASE Commit
    BY <1>7 DEF Commit, CopiesToGood
  <1>8. CASE Judge
    BY <1>8 DEF Judge
  <1>9. CASE Restore
    BY <1>9 DEF Restore
  <1>10. CASE HotGood
    BY <1>10 DEF HotGood, CopiesToGood
  <1>11. CASE Leave
    BY <1>11 DEF Leave
  <1>12. CASE RestartXray
    BY <1>12 DEF RestartXray
  <1>13. CASE Exit
    BY <1>13 DEF Exit
  <1>14. CASE DogCheck
    BY <1>14 DEF DogCheck
  <1>15. CASE DogHealthy
    BY <1>15 DEF DogHealthy
  <1>16. CASE DogDecide
    BY <1>16 DEF DogDecide
  <1>17. CASE DogReadsGood
    BY <1>17 DEF DogReadsGood
  <1>18. CASE DogWritesGood
    BY <1>18 DEF DogWritesGood
  <1>19. CASE DogReset
    BY <1>19 DEF DogReset, Resets
  <1>20. CASE DogMarks
    BY <1>20 DEF DogMarks
  <1>21. CASE DogNotifies
    BY <1>21 DEF DogNotifies
  <1>22. CASE Death
    BY <1>22 DEF Death
  <1>23. CASE Mature
    BY <1>23 DEF Mature
  <1>24. CASE TimerFires
    BY <1>24 DEF TimerFires
  <1>25. CASE CooldownEnds
    BY <1>25 DEF CooldownEnds
  <1>26. CASE Crash
    BY <1>26 DEF Crash
  <1>27. CASE MainStart
    BY <1>27 DEF MainStart, StartWorks, StartFails, StartsNothing, Survives, CannotSpawn, CannotLog, Dies, DiesSoon, Spawns
  <1>28. CASE DogStart /\ main # "gone"
    BY <1>28 DEF DogStart, StartWorks, StartFails, StartsNothing, Survives, CannotSpawn, CannotLog, Dies, DiesSoon, Spawns
  <1>29. ASSUME NEW c \in Config, Push(c) \/ Hot(c) PROVE RunInv'
    BY <1>29 DEF Push, Hot
  <1>30. CASE UNCHANGED vars
    BY <1>30 DEF vars
  <1> QED
    BY <1>1, <1>2, <1>3, <1>4, <1>5, <1>6, <1>7, <1>8, <1>9, <1>10, <1>11, <1>12, <1>13, <1>14, <1>15, <1>16, <1>17, <1>18, <1>19, <1>20, <1>21, <1>22, <1>23, <1>24, <1>25, <1>26, <1>27, <1>28, <1>29, <1>30 DEF Next, Main, Command, Watchdog

-------------------------------------------------------------------------------
(* The count stays frozen after giving up.                                   *)

\* The verdict stands although the count was forgotten: a process that had come up died
\* after the supervisor had given up on its predecessor.
Forgotten == book.gaveUp /\ book.failures # MaxStartFailures

\* While a run is not absorbed no more than one start can have failed, so no fallback to
\* .good is pending when its death is counted; and when the count was forgotten only slow
\* probes are left.
FrozenInv ==
    /\ Ran /\ MaxStartFailures > 1 =>
         /\ ~book.goodPending
         /\ \/ book.gaveUp \/ book.failures = 0
            \/ book.failures = 1 /\ main \notin DOMAIN AfterStart /\ dog \notin DogHeads
    /\ Forgotten =>
         /\ MaxStartFailures > 1
         /\ ~book.goodPending
         /\ dog \notin {"start", "readGood", "writeGood", "dogReset", "goodStart", "mark"}
         /\ dog = "decide" => saw.gaveUp

\* What one step may do to the account while nothing else of the invariant is at stake.
Kept == /\ book'.failures = book.failures /\ book'.gaveUp = book.gaveUp
        /\ book'.goodPending = book.goodPending
Fresh == book'.failures = 0 /\ ~book'.gaveUp /\ ~book'.goodPending

LEMMA QuickMoves ==
    ASSUME NEW b \in Book
    PROVE  /\ b.failures + 1 < MaxStartFailures =>
                 /\ QuickFailure(b).failures = b.failures + 1 /\ QuickFailure(b).gaveUp = b.gaveUp
                 /\ QuickFailure(b).goodPending = b.goodPending
           /\ ~(b.failures + 1 < MaxStartFailures) => QuickFailure(b).failures = MaxStartFailures
           /\ b.gaveUp => QuickFailure(b).gaveUp /\ QuickFailure(b).goodPending = b.goodPending
           /\ b.failures \in 0..MaxStartFailures
  <1>1. b.failures + 1 \in Nat \ {0} /\ b.failures \in 0..MaxStartFailures
    BY XrayProcAssumption DEF Book
  <1> QED BY <1>1, CountMoves DEF QuickFailure

\* A death that is absorbed keeps a verdict and what is pending, and leaves a count.
LEMMA AbsorbMoves ==
    ASSUME NEW b \in Book, NEW c \in Absorbed(b), b.gaveUp
    PROVE  c.gaveUp /\ c.goodPending = b.goodPending /\ c \in Book
           /\ (MaxStartFailures = 1 => c.failures = 1)
  <1>1. ASSUME NEW d \in Book, NEW n \in Nat \ {0}, c = Count(d, n), d.gaveUp,
               d.goodPending = b.goodPending
        PROVE  c.gaveUp /\ c.goodPending = b.goodPending /\ c \in Book
               /\ (MaxStartFailures = 1 => c.failures = 1)
    BY <1>1, CountMoves, CountType
  <1>2. CASE young
    <2>1. c = Count(b, b.failures + 1)
      BY <1>2, Zenon DEF Absorbed, QuickFailure
    <2>2. b.failures + 1 \in Nat \ {0}
      BY XrayProcAssumption DEF Book
    <2> QED BY <1>1, <2>1, <2>2
  <1>3. CASE ~young
    <2>0. b.crashes \in Nat
      BY DEF Book
    <2>1. PICK n \in 1..(b.crashes + 1) : c = SlowFailure(b, n)
      BY <1>3, Zenon DEF Absorbed
    <2> DEFINE d == [b EXCEPT !.crashes = AtMost(n, CrashCap)]
               m == IF n >= CrashWindowCount THEN n - CrashWindowCount + 2 ELSE 1
    <2>2. AtMost(n, CrashCap) \in 0..CrashCap
      BY <2>0, XrayProcAssumption DEF AtMost, CrashCap
    <2>3. d \in Book
      BY <2>2, BookPut, Zenon
    <2>4. d.gaveUp = b.gaveUp /\ d.goodPending = b.goodPending
      BY DEF Book
    <2>5. m \in Nat \ {0}
      BY <2>0, XrayProcAssumption
    <2>6. c = Count(d, m)
      BY <2>1, Zenon DEF SlowFailure
    <2> HIDE DEF d, m
    <2> QED BY <1>1, <2>3, <2>4, <2>5, <2>6
  <1> QED BY <1>2, <1>3

\* One that is absorbed before the supervisor gave up leaves a count that the verdict,
\* should it come to it, agrees with.
LEMMA AbsorbFull ==
    ASSUME NEW b \in Book, NEW c \in Absorbed(b), ~b.gaveUp, c.gaveUp
    PROVE  c.failures = MaxStartFailures
  <1>1. ASSUME NEW d \in Book, NEW n \in Nat \ {0}, c = Count(d, n), ~d.gaveUp
        PROVE  c.failures = MaxStartFailures
    BY <1>1, CountMoves
  <1>2. CASE young
    <2>1. c = Count(b, b.failures + 1)
      BY <1>2, Zenon DEF Absorbed, QuickFailure
    <2>2. b.failures + 1 \in Nat \ {0}
      BY XrayProcAssumption DEF Book
    <2> QED BY <1>1, <2>1, <2>2
  <1>3. CASE ~young
    <2>0. b.crashes \in Nat
      BY DEF Book
    <2>1. PICK n \in 1..(b.crashes + 1) : c = SlowFailure(b, n)
      BY <1>3, Zenon DEF Absorbed
    <2> DEFINE d == [b EXCEPT !.crashes = AtMost(n, CrashCap)]
               m == IF n >= CrashWindowCount THEN n - CrashWindowCount + 2 ELSE 1
    <2>2. AtMost(n, CrashCap) \in 0..CrashCap
      BY <2>0, XrayProcAssumption DEF AtMost, CrashCap
    <2>3. d \in Book
      BY <2>2, BookPut, Zenon
    <2>4. d.gaveUp = b.gaveUp
      BY DEF Book
    <2>5. m \in Nat \ {0}
      BY <2>0, XrayProcAssumption
    <2>6. c = Count(d, m)
      BY <2>1, Zenon DEF SlowFailure
    <2> HIDE DEF d, m
    <2> QED BY <1>1, <2>3, <2>4, <2>5, <2>6
  <1> QED BY <1>2, <1>3

LEMMA FrozenInit == Init => FrozenInv
  BY DEF Init, FrozenInv, Forgotten, Ran, NoFailures

LEMMA FrozenStep == TypeOK /\ RunInv /\ RunInv' /\ FrozenInv /\ [Next]_vars => FrozenInv'
  <1> SUFFICES ASSUME TypeOK, RunInv, RunInv', FrozenInv, [Next]_vars PROVE FrozenInv'
    OBVIOUS
  <1>b. book \in Book /\ book' \in Book /\ MaxStartFailures \in Nat \ {0}
    BY BookStep, XrayProcAssumption DEF TypeOK
  <1> DEFINE N == MaxStartFailures
  <1>f. book.failures \in 0..N /\ book'.failures \in 0..N
    BY <1>b DEF Book
  <1>q. /\ book.failures + 1 < N =>
              /\ QuickFailure(book).failures = book.failures + 1
              /\ QuickFailure(book).gaveUp = book.gaveUp
              /\ QuickFailure(book).goodPending = book.goodPending
        /\ ~(book.failures + 1 < N) => QuickFailure(book).failures = N
        /\ book.gaveUp => QuickFailure(book).gaveUp
                          /\ QuickFailure(book).goodPending = book.goodPending
    BY <1>b, QuickMoves
  <1>t. /\ run \in {"none", "live", "dead", "done"} /\ mu \in {"free", "main", "dog"}
    BY DEF TypeOK
  \* Steps that free the account.
  <1>0. ASSUME Fresh PROVE FrozenInv'
    BY <1>0, <1>b, <1>f DEF Fresh, FrozenInv, Forgotten
  \* Steps that leave it alone.
  <1>1. ASSUME Kept, dog' = dog, saw' = saw, Ran' => Ran,
               main' \in DOMAIN AfterStart => main \in DOMAIN AfterStart \/ ~Ran'
        PROVE  FrozenInv'
    BY <1>1, <1>b, <1>f DEF Kept, FrozenInv, Forgotten, DogHeads, AfterStart
  \* Steps of the watchdog that leave it alone and start nothing next.
  <1>2. ASSUME Kept, main' = main, Ran' => Ran, dog' \notin DogHeads,
               dog' = "mark" => dog = "goodStart"
        PROVE  FrozenInv'
    BY <1>2, <1>b, <1>f DEF Kept, FrozenInv, Forgotten, DogHeads, AfterStart
  \* A start that fails and is counted, by main and by the watchdog.
  <1>3. ASSUME book' = QuickFailure(book), main \in DOMAIN AfterStart,
               main' \notin DOMAIN AfterStart, dog' = dog, saw' = saw, Ran' => Ran
        PROVE  FrozenInv'
    <2>1. Ran' => Ran /\ dog' \notin DogHeads /\ main' \notin DOMAIN AfterStart
      BY <1>3 DEF RunInv
    <2>2. MaxStartFailures > 1 /\ Ran => ~book.goodPending /\ (book.gaveUp \/ book.failures = 0)
      BY <1>3 DEF FrozenInv
    <2>3. DOMAIN AfterStart' = DOMAIN AfterStart /\ DogHeads' = DogHeads
      BY DEF AfterStart, DogHeads
    <2>4. CASE book.gaveUp
      <3>1. book'.gaveUp /\ book'.goodPending = book.goodPending
        BY <1>3, <1>q, <2>4, Zenon
      <3>2. Forgotten' => Forgotten
        BY <1>3, <1>q, <1>f, <1>b, <2>4 DEF Forgotten
      <3> QED BY <1>3, <2>1, <2>2, <3>1, <3>2, Zenon DEF FrozenInv
    <2>5. CASE ~book.gaveUp
      <3>1. ~Forgotten'
        BY <1>3, <1>q, <1>f, <1>b, <2>5, Zenon DEF Forgotten
      <3>2. MaxStartFailures > 1 /\ Ran' => book'.failures = 1 /\ ~book'.goodPending
        BY <1>3, <1>q, <1>f, <1>b, <2>1, <2>2, <2>5
      <3> QED BY <1>3, <2>1, <2>3, <3>1, <3>2, Zenon DEF FrozenInv
    <2> QED BY <2>4, <2>5
  <1>4. ASSUME book' = QuickFailure(book), main' = main, dog \in {"start", "goodStart"},
               dog' \in {"notify", "mark"}, Ran' => Ran
        PROVE  FrozenInv'
    <2>1. /\ dog \in DogHeads /\ dog' \notin DogHeads
          /\ dog' \notin {"start", "readGood", "writeGood", "dogReset", "goodStart", "decide"}
      BY <1>4 DEF DogHeads
    <2>2. Ran' => Ran /\ main' \notin DOMAIN AfterStart
      BY <1>4, <2>1 DEF RunInv
    <2>3. MaxStartFailures > 1 /\ Ran => ~book.goodPending /\ (book.gaveUp \/ book.failures = 0)
      BY <2>1 DEF FrozenInv
    <2>4. DOMAIN AfterStart' = DOMAIN AfterStart /\ DogHeads' = DogHeads
      BY DEF AfterStart, DogHeads
    <2>5. ~Forgotten
      BY <1>4 DEF FrozenInv
    <2>6. ~Forgotten'
      <3>1. CASE book.gaveUp
        BY <1>4, <1>q, <1>f, <1>b, <2>5, <3>1 DEF Forgotten
      <3>2. CASE ~book.gaveUp
        BY <1>4, <1>q, <1>f, <1>b, <3>2, Zenon DEF Forgotten
      <3> QED BY <3>1, <3>2
    <2>7. CASE book.gaveUp
      <3>1. book'.gaveUp /\ book'.goodPending = book.goodPending
        BY <1>4, <1>q, <2>7, Zenon
      <3> QED BY <2>2, <2>3, <2>6, <3>1, Zenon DEF FrozenInv
    <2>8. CASE ~book.gaveUp
      <3>2. MaxStartFailures > 1 /\ Ran' => book'.failures = 1 /\ ~book'.goodPending
        BY <1>4, <1>q, <1>f, <1>b, <2>2, <2>3, <2>8
      <3> QED BY <2>1, <2>2, <2>4, <2>6, <3>2, Zenon DEF FrozenInv
    <2> QED BY <2>7, <2>8
  <1>5. CASE Boot
    BY <1>5, <1>1, Tables DEF Boot, Kept, Ran, RunInv, fields, dogVars
  <1>6. CASE StartWatchdog
    BY <1>6, <1>2 DEF StartWatchdog, Kept, Ran, DogHeads, fields, process
  <1>7. CASE MainStop
    BY <1>7, <1>1, Tables DEF MainStop, Stops, Kept, Ran, dogVars
  <1>8. CASE MainStart
    <2>0. main \in DOMAIN AfterStart /\ UNCHANGED dogVars
      BY <1>8 DEF MainStart
    <2>1. CASE StartsNothing /\ main' = AfterStart[main].ok
      BY <2>0, <2>1, <1>1, Tables DEF StartsNothing, Kept, Ran, process, dogVars
    <2>2. CASE Survives("main")
      BY <2>2, <1>0, <1>b, BookFields DEF Survives, Fresh
    <2>3. CASE Spawns("main") /\ UNCHANGED main
      BY <2>0, <2>3, <1>1 DEF Spawns, Kept, Ran, dogVars
    <2>4. CASE CannotLog /\ main' = AfterStart[main].fail
      BY <2>0, <2>4, <1>1, Tables DEF CannotLog, Kept, Ran, process, fields, dogVars
    <2>5. CASE CannotSpawn(FALSE) /\ main' = AfterStart[main].fail
      BY <2>0, <2>5, <1>3, Tables DEF CannotSpawn, Ran, process, dogVars
    <2>6. CASE Dies("main", FALSE) /\ main' = AfterStart[main].fail
      BY <2>0, <2>6, <1>3, Tables DEF Dies, DiesSoon, Ran, process, dogVars
    <2> QED BY <1>8, <2>1, <2>2, <2>3, <2>4, <2>5, <2>6 DEF MainStart, StartWorks, StartFails
  <1>9. CASE DogStart
    <2>0. dog \in DOMAIN AfterDogFails /\ UNCHANGED <<mainVars, saw>>
      BY <1>9 DEF DogStart
    <2>1. CASE StartsNothing /\ dog' = "idle"
      BY <2>0, <2>1, <1>2 DEF StartsNothing, Kept, Ran, process, DogHeads, mainVars
    <2>2. CASE Survives("dog")
      BY <2>2, <1>0, <1>b, BookFields DEF Survives, Fresh
    <2>3. CASE Spawns("dog") /\ UNCHANGED dog
      BY <2>0, <2>3, <1>1 DEF Spawns, Kept, Ran, mainVars
    <2>4. CASE CannotLog /\ dog' = AfterDogFails[dog]
      BY <2>0, <2>4, <1>2 DEF CannotLog, Kept, Ran, process, fields, mainVars, AfterDogFails, DogHeads
    <2>5. CASE CannotSpawn(dog = "probe") /\ dog' = AfterDogFails[dog]
      <3>1. CASE dog = "probe"
        BY <2>0, <2>5, <3>1, <1>2, <1>b, BookFields
           DEF CannotSpawn, Kept, Ran, process, mainVars, AfterDogFails, DogHeads
      <3>2. CASE dog # "probe"
        BY <2>0, <2>5, <3>2, <1>4 DEF CannotSpawn, Ran, process, mainVars, AfterDogFails
      <3> QED BY <3>1, <3>2
    <2>6. CASE Dies("dog", dog = "probe") /\ dog' = AfterDogFails[dog]
      <3>1. CASE dog = "probe"
        BY <2>0, <2>6, <3>1, <1>2, <1>b, BookFields
           DEF Dies, DiesSoon, Kept, Ran, process, mainVars, AfterDogFails, DogHeads
      <3>2. CASE dog # "probe"
        BY <2>0, <2>6, <3>2, <1>4 DEF Dies, DiesSoon, Ran, process, mainVars, AfterDogFails
      <3> QED BY <3>1, <3>2
    <2> QED BY <1>9, <2>1, <2>2, <2>3, <2>4, <2>5, <2>6 DEF DogStart, StartWorks, StartFails
  <1>10. CASE MainReset \/ DogReset \/ Crash
    <2>1. CASE MainReset
      BY <2>1, <1>0, <1>b, BookFields DEF MainReset, Resets, Fresh
    <2>2. CASE DogReset
      <3>1. Cleared(book) \in Book
        BY <1>b, BookOps
      <3>2. Fresh
        BY <2>2, <1>b, <3>1, BookFields, MoreFields DEF DogReset, Resets, Fresh
      <3> QED BY <3>2, <1>0
    <2>3. CASE Crash
      BY <2>3, <1>0 DEF Crash, Fresh, NoFailures
    <2> QED BY <1>10, <2>1, <2>2, <2>3
  <1>11. CASE DogCheck /\ main # "gone"
    <2> DEFINE n == Notified(book)
    <2>1. n \in Book /\ n.failures = book.failures /\ n.gaveUp = book.gaveUp
          /\ n.goodPending = book.goodPending
      BY <1>b, BookOps, BookFields
    <2>2. /\ saw'.gaveUp = book'.gaveUp /\ main' = main /\ dog' \in {"idle", "healthy", "decide"}
          /\ mu' = mu
      <3>1. main' = main /\ mu' = mu /\ dog' \in {"idle", "healthy", "decide"}
        BY <1>11 DEF DogCheck, mainVars
      <3>2. PICK b : book' = b /\ saw' = [gaveUp |-> b.gaveUp, due |-> b.wait = "none"]
        BY <1>11, Zenon DEF DogCheck
      <3>3. saw'.gaveUp = book'.gaveUp
        BY <3>2, Zenon
      <3> QED BY <3>1, <3>3
    <2>4. CASE ~(started /\ run = "dead")
      <3>1. book' = n /\ run' = run
        BY <1>11, <2>4, Zenon DEF DogCheck
      <3>2. dog' = "decide" => ~Ran'
        BY <1>11, <2>4, <2>2, <3>1 DEF DogCheck, Ran, RunInv
      <3>3. Ran' => Ran
        BY <2>2, <3>1 DEF Ran
      <3>4. book'.failures = book.failures /\ book'.goodPending = book.goodPending
            /\ book'.gaveUp = book.gaveUp
        BY <2>1, <3>1
      <3> QED BY <2>2, <3>2, <3>3, <3>4, <1>b, <1>f DEF FrozenInv, Forgotten, DogHeads, AfterStart
    <2>5. CASE started /\ run = "dead"
      <3>1. book' \in Absorbed(n) /\ run' = "done"
        BY <1>11, <2>5, Zenon DEF DogCheck
      <3>2. ~Ran'
        BY <3>1 DEF Ran
      <3>3. CASE book.gaveUp
        <4>1. main # "gone" /\ dog = "idle" => (MaxStartFailures > 1 => ~book.goodPending)
          BY <2>5 DEF FrozenInv, Ran
        <4>2. dog = "idle"
          BY <1>11 DEF DogCheck
        <4>3. book'.gaveUp /\ book'.goodPending = book.goodPending
              /\ (MaxStartFailures = 1 => book'.failures = 1)
          <5> HIDE DEF n
          <5> QED BY <2>1, <3>1, <3>3, AbsorbMoves
        <4>4. MaxStartFailures = 1 => ~Forgotten'
          BY <4>3, <1>b DEF Forgotten
        <4>5. main # "gone" => Ran
          BY <2>5 DEF Ran
        <4>6. MaxStartFailures # 1 => MaxStartFailures > 1
          BY <1>b
        <4>7. dog' \notin {"start", "readGood", "writeGood", "dogReset", "goodStart", "mark"}
          BY <2>2
        <4>8. main # "gone" /\ MaxStartFailures > 1 => ~book'.goodPending
          BY <4>1, <4>2, <4>3, Zenon
        <4> QED BY <1>11, <2>2, <3>2, <4>3, <4>4, <4>6, <4>7, <4>8, Zenon DEF FrozenInv
      <3>4. CASE ~book.gaveUp
        <4>1. ~Forgotten'
          <5> HIDE DEF n
          <5> QED BY <2>1, <3>1, <3>4, AbsorbFull DEF Forgotten
        <4> QED BY <3>2, <4>1 DEF FrozenInv
      <3> QED BY <3>3, <3>4
    <2> QED BY <2>4, <2>5
  <1>12. CASE DogHealthy
    <2> DEFINE h == [book EXCEPT !.failures = 0, !.gaveUp = FALSE, !.goodTried = FALSE,
                                 !.goodPending = FALSE]
    <2>1. CASE book' = book
      BY <1>12, <2>1, <1>2 DEF DogHealthy, Kept, Ran, DogHeads, process, mainVars
    <2>2. CASE book' = h
      <3>1. h.failures = 0 /\ ~h.gaveUp /\ ~h.goodPending
        BY <1>b, MoreFields
      <3> HIDE DEF h
      <3> QED BY <2>2, <3>1, <1>0 DEF Fresh
    <2> QED BY <1>12, <2>1, <2>2 DEF DogHealthy
  <1>13. CASE DogDecide
    <2>1. book'.failures = book.failures /\ book'.gaveUp = book.gaveUp /\ ~book'.goodPending
      BY <1>13, <1>b, MoreFields DEF DogDecide
    <2>2. dog = "decide" /\ (dog' = "readGood" => book.goodPending)
          /\ (dog' = "start" => ~saw.gaveUp)
          /\ dog' \in {"readGood", "idle", "probe", "start"}
          /\ main' = main /\ run' = run /\ mu' = mu
      BY <1>13 DEF DogDecide, process, mainVars
    <2> QED BY <2>1, <2>2, <1>b, <1>f DEF FrozenInv, Forgotten, Ran, DogHeads, AfterStart
  <1>14. CASE DogReadsGood \/ DogWritesGood
    <2>1. Kept /\ dog \in {"readGood", "writeGood"} /\ dog' \in {"mark", "writeGood", "dogReset"}
          /\ main' = main /\ run' = run /\ mu' = mu
      BY <1>14 DEF DogReadsGood, DogWritesGood, Kept, process, fields, mainVars
    <2> QED BY <2>1, <1>b, <1>f DEF Kept, FrozenInv, Forgotten, Ran, DogHeads, AfterStart
  <1>15. CASE DogMarks
    <2>1. book'.failures = MaxStartFailures /\ book'.gaveUp /\ book'.goodPending = book.goodPending
      BY <1>15, <1>b, MoreFields DEF DogMarks
    <2>2. main' = main /\ run' = run /\ mu' = mu
      BY <1>15 DEF DogMarks, process, mainVars
    <2> QED BY <2>1, <2>2, <1>b, <1>f DEF FrozenInv, Forgotten, Ran, DogHeads, AfterStart
  <1>16. CASE DogNotifies
    <2>1. Kept
      BY <1>16, <1>b, BookFields DEF DogNotifies, Kept
    <2> QED BY <1>16, <2>1, <1>2 DEF DogNotifies, Ran, DogHeads, process, mainVars
  <1>17. CASE TimerFires
    <2>1. Kept
      BY <1>17, <1>b, MoreFields DEF TimerFires, Kept
    <2> QED BY <1>17, <2>1, <1>1 DEF TimerFires, Ran, process, mainVars, dogVars
  <1>18. CASE Death \/ Mature \/ CooldownEnds
    <2>1. CASE Death
      BY <2>1, <1>1 DEF Death, Kept, Ran, RunInv, fields, mainVars, dogVars
    <2>2. CASE Mature
      BY <2>2, <1>1 DEF Mature, Kept, Ran, fields, mainVars, dogVars
    <2>3. CASE CooldownEnds
      BY <2>3, <1>1 DEF CooldownEnds, Kept, Ran, process, mainVars, dogVars
    <2> QED BY <1>18, <2>1, <2>2, <2>3
  <1>19. CASE \/ Backup \/ Replace \/ Commit \/ Judge \/ Restore \/ HotGood \/ Leave \/ Command
              \/ UNCHANGED vars
    <2>1. /\ book' = book /\ dog' = dog /\ saw' = saw /\ run' = run
          /\ mu' = mu \/ main' = "gone"
          /\ main' \in {main, "replace", "pushReset", "idle", "clear", "restore", "backStop",
                        "gone", "backup", "hotGood", "againReset", "exitStop"}
          /\ main = "gone" => main' = "gone"
      BY <1>19 DEF Backup, Replace, Commit, Judge, Restore, HotGood, Leave, Command, Push, Hot,
         RestartXray, Exit, vars, process, fields, dogVars
    <2> QED BY <2>1, <1>1, Tables DEF Kept, Ran
  <1> QED BY <1>5, <1>6, <1>7, <1>8, <1>9, <1>10, <1>11, <1>12, <1>13, <1>14, <1>15, <1>16,
             <1>17, <1>18, <1>19 DEF Next, Main, Watchdog

\* The one step that may move the count after giving up absorbs the death of a process.
LEMMA FrozenStepKeeps ==
    ASSUME TypeOK, FrozenInv, [Next]_vars, main = "idle", run # "dead", book.gaveUp, book'.gaveUp
    PROVE  book'.failures = book.failures
  <1>b. book \in Book /\ book.failures \in 0..MaxStartFailures /\ MaxStartFailures \in Nat \ {0}
    BY XrayProcAssumption DEF TypeOK, Book
  <1>m. main \notin DOMAIN AfterStart
    BY DEF AfterStart
  \* The verdict was passed on the full count, and a start that fails keeps it full.
  <1>1. ASSUME dog \in {"start", "goodStart", "mark"}
        PROVE  /\ book.failures = MaxStartFailures
               /\ QuickFailure(book).failures = book.failures
               /\ MarkedGaveUp(book).failures = book.failures
    <2>1. book.failures = MaxStartFailures
      BY <1>1 DEF FrozenInv, Forgotten
    <2> QED BY <1>b, <2>1, QuickMoves, MoreFields
  <1>2. CASE DogStart
    <2>1. dog \in DOMAIN AfterDogFails
      BY <1>2 DEF DogStart
    <2>2. CASE Survives("dog")
      BY <2>2, <1>b, BookFields DEF Survives
    <2>3. CASE CannotSpawn(dog = "probe") \/ DiesSoon("dog", dog = "probe")
      <3>1. CASE dog = "probe"
        BY <2>3, <3>1, <1>b, BookFields DEF CannotSpawn, DiesSoon
      <3>2. CASE dog # "probe"
        <4>1. dog \in {"start", "goodStart", "mark"}
          BY <2>1, <3>2 DEF AfterDogFails
        <4>2. book' = QuickFailure(book)
          BY <2>3, <3>2, Zenon DEF CannotSpawn, DiesSoon
        <4> QED BY <1>1, <4>1, <4>2
      <3> QED BY <3>1, <3>2
    <2>4. CASE StartsNothing \/ CannotLog \/ Spawns("dog")
      BY <2>4 DEF StartsNothing, CannotLog, Spawns, fields
    <2> QED BY <1>2, <2>2, <2>3, <2>4, Zenon DEF DogStart, StartWorks, StartFails, Dies
  <1>3. CASE DogMarks
    BY <1>3, <1>1 DEF DogMarks
  <1>4. CASE DogCheck
    BY <1>4, <1>b, BookFields DEF DogCheck
  <1>5. CASE DogHealthy
    <2>1. ~[book EXCEPT !.failures = 0, !.gaveUp = FALSE, !.goodTried = FALSE,
                        !.goodPending = FALSE].gaveUp
      BY <1>b, MoreFields
    <2> QED BY <1>5, <2>1, Zenon DEF DogHealthy
  <1>6. CASE DogDecide \/ DogNotifies \/ TimerFires
    <2>1. \/ book' = [book EXCEPT !.goodPending = FALSE] \/ book' = Notified(book)
          \/ book' = [book EXCEPT !.wait = "none"]
      BY <1>6, Zenon DEF DogDecide, DogNotifies, TimerFires
    <2>2. /\ [book EXCEPT !.goodPending = FALSE].failures = book.failures
          /\ [book EXCEPT !.wait = "none"].failures = book.failures
      BY <1>b, MoreFields
    <2>3. Notified(book).failures = book.failures
      BY <1>b, BookFields
    <2> QED BY <2>1, <2>2, <2>3, Zenon
  <1>7. CASE DogReset
    <2>1. Cleared(book) \in Book /\ ~Cleared(book).gaveUp
      BY <1>b, BookOps, BookFields
    <2>2. book' = [Cleared(book) EXCEPT !.goodTried = TRUE]
      BY <1>7, Zenon DEF DogReset, Resets
    <2> HIDE DEF Cleared
    <2>3. ~book'.gaveUp
      BY <2>1, <2>2, MoreFields
    <2> QED BY <2>3
  <1>8. CASE Crash
    BY <1>8 DEF Crash, NoFailures
  <1>9. ASSUME \/ Boot \/ StartWatchdog \/ MainStop \/ Backup \/ Replace \/ Commit \/ Judge
               \/ Restore \/ HotGood \/ Leave \/ Command \/ DogReadsGood \/ DogWritesGood
               \/ Death \/ Mature \/ CooldownEnds \/ UNCHANGED vars
        PROVE  book' = book
    BY <1>9 DEF Boot, StartWatchdog, MainStop, Stops, Backup, Replace, Commit, Judge, Restore,
       HotGood, Leave, Command, Push, Hot, RestartXray, Exit, DogReadsGood, DogWritesGood, Death,
       Mature, CooldownEnds, vars, fields
  <1>10. ~MainStart /\ ~MainReset
    BY <1>m DEF MainStart, MainReset
  <1> QED
    BY <1>2, <1>3, <1>4, <1>5, <1>6, <1>7, <1>8, <1>9, <1>10, Zenon DEF Next, Main, Watchdog

LEMMA FrozenAlways == Spec => [](TypeOK /\ RunInv /\ FrozenInv)
  <1>1. Init => RunInv /\ FrozenInv
    BY RunInit, FrozenInit
  <1>2. TypeOK /\ TypeOK' /\ (RunInv /\ FrozenInv) /\ [Next]_vars => (RunInv /\ FrozenInv)'
    BY RunStep, FrozenStep
  <1> QED BY <1>1, <1>2, XrayTyping, PTL DEF Spec

\* After giving up, nothing the supervisor does by itself moves the count the panel shows:
\* no probe, no start that was decided before the verdict, no fallback to .good.
THEOREM XrayCountStaysFrozen == Spec => CountStaysFrozen
  <1>1. TypeOK /\ RunInv /\ FrozenInv /\ [Next]_vars
          => [main = "idle" /\ run # "dead" /\ book.gaveUp /\ book'.gaveUp
                => book'.failures = book.failures]_vars
    BY FrozenStepKeeps
  <1> QED BY <1>1, FrozenAlways, PTL DEF Spec, CountStaysFrozen
================================================================================
