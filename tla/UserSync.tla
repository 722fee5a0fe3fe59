-------------------------------- MODULE UserSync --------------------------------
(***************************************************************************)
(* The users xray serves, the cache the agent keeps of them, and the       *)
(* configuration file: SyncUsers and SeedUsers of                          *)
(* internal/agent/stats/stats.go, sync_users in client.go and the          *)
(* OnStarted hook of cmd/agent/main.go.                                    *)
(*                                                                         *)
(* Two goroutines interleave: the one that executes the master's commands  *)
(* (main) and the watchdog (dog), which starts xray again when it died.    *)
(* SyncUsers holds c.mu throughout and a start holds p.mu for its          *)
(* readiness window; the file is read and written without either.  How     *)
(* often and when the watchdog starts xray is in module XrayProc.          *)
(***************************************************************************)
EXTENDS Integers, FiniteSets

CONSTANTS
    Tag,        \* inbounds; every configuration has them all
    Email,      \* users of the panel; internal accounts never enter the cache
    Cred,       \* UUID, flow and level of a user
    None,       \* no such user, no such file
    Commands,   \* subset of {"sync", "push", "restart"}
    Faults,     \* subset of {"death", "grpc", "write", "read", "rollback", "crash"}
    MaxEvents   \* bound on commands and faults

Key == Tag \X Email
Users == [Key -> Cred \cup {None}]
Nobody == [k \in Key |-> None]

ASSUME UserSyncAssumption ==
    /\ None \notin Cred
    /\ None \notin Tag
    /\ None \notin Users
    /\ None \notin Key
    /\ MaxEvents \in Nat

VARIABLES
    up,         \* xray: "down", "starting" (in the readiness window) or "up"
    xray,       \* external: the users of the running process
    disk, bak,  \* the users in the configuration file and in its .bak
    cache,      \* c.currentUsers
    main, dog,  \* where the two goroutines are
    wanted,     \* the users of the command in progress
    save,       \* its ConfigJSON is not empty
    todo, tag,  \* tags SyncUsers has not reached, and the one it is at
    cur,        \* the user it is adding
    mainCopy,   \* what each goroutine read from the file to rebuild the cache
    dogCopy,
    events,     \* events so far
    disturbed   \* history: since the last start of xray a call failed, a command, a
                \* rollback or the hook of an earlier start overlapped it, or the
                \* watchdog's hook ran for a start that it found done

processVars == <<up, xray>>
fileVars == <<disk, bak>>
syncVars == <<wanted, save, todo, tag, cur>>
vars == <<processVars, fileVars, cache, main, dog, syncVars, mainCopy, dogCopy,
          events, disturbed>>

Syncing == {"sync", "add", "write"}
Starting == {"stop", "start", "window", "read", "seed"}
NoHook == {"off", "idle", "due"}

Event == events < MaxEvents /\ events' = events + 1

With(u, k, c) == [u EXCEPT ![k] = c]

-------------------------------------------------------------------------------
Init ==
    /\ up = "down" /\ xray = Nobody
    /\ disk \in Users /\ bak = None
    /\ cache = Nobody
    /\ main = "boot" /\ dog = "off"
    /\ wanted = Nobody /\ save = FALSE /\ todo = {} /\ tag = None /\ cur = None
    /\ mainCopy = Nobody /\ dogCopy = Nobody
    /\ events = 0 /\ disturbed = TRUE

-------------------------------------------------------------------------------
(* AlterInbound: external.  A process in its readiness window may or may   *)
(* not answer yet; a call that fails with "grpc" may have had its effect.  *)

CallFails ==
    /\ up = "up"
    /\ "grpc" \in Faults /\ Event
    /\ disturbed' = TRUE

RemoveCall(k) ==
    /\ \/ up # "down" /\ xray' = With(xray, k, None) /\ UNCHANGED <<events, disturbed>>
       \/ up # "up" /\ UNCHANGED <<xray, events, disturbed>>
       \/ CallFails /\ xray' \in {xray, With(xray, k, None)}
    /\ UNCHANGED up

\* A user who is there already is left as he is.
AddCallWorks(k, c) ==
    /\ up # "down"
    /\ xray' = IF xray[k] = None THEN With(xray, k, c) ELSE xray
    /\ UNCHANGED <<up, events, disturbed>>

AddCallFails(k, c) ==
    /\ \/ up # "up" /\ UNCHANGED <<xray, events, disturbed>>
       \/ CallFails /\ xray' \in {xray, With(xray, k, c)}
    /\ UNCHANGED up

-------------------------------------------------------------------------------
(* SyncUsers, and the configuration file after it.                         *)

\* The tag SyncUsers is at, if any, is done; so are all that are listed.
TagDone == \A k \in Key : k[1] = tag => cache[k] = wanted[k]
AtEnd == todo = {} /\ TagDone

\* sync_users: for the inbounds in tags, the users in u.
Sync(tags, u, withConfig) ==
    /\ main = "idle" /\ dog # "off"
    /\ "sync" \in Commands /\ Event
    /\ \A k \in Key : k[1] \notin tags => u[k] = None
    /\ wanted' = u /\ save' = withConfig
    /\ todo' = tags /\ tag' = None
    /\ main' = "sync"
    /\ disturbed' = (disturbed \/ dog \notin NoHook)
    /\ UNCHANGED <<processVars, fileVars, cache, dog, cur, mainCopy, dogCopy>>

NextTag ==
    /\ main = "sync"
    /\ TagDone
    /\ \E t \in todo : tag' = t /\ todo' = todo \ {t}
    /\ UNCHANGED <<processVars, fileVars, cache, main, dog, wanted, save, cur,
                   mainCopy, dogCopy, events, disturbed>>

\* A user of this tag who is not wanted; in the end those of the tags not listed.
\* The cache forgets him whatever the call returned.
RemoveUser(k) ==
    /\ main = "sync"
    /\ cache[k] # None /\ wanted[k] = None
    /\ k[1] = tag \/ AtEnd
    /\ RemoveCall(k)
    /\ cache' = With(cache, k, None)
    /\ UNCHANGED <<fileVars, main, dog, syncVars, mainCopy, dogCopy>>

\* A user who is new, or whose credentials changed: he is removed first.
ChangeUser(k) ==
    /\ main = "sync"
    /\ k[1] = tag
    /\ \A j \in Key : j[1] = tag /\ wanted[j] = None => cache[j] = None
    /\ wanted[k] # None /\ cache[k] # wanted[k]
    /\ IF cache[k] # None THEN RemoveCall(k)
                          ELSE UNCHANGED <<processVars, events, disturbed>>
    /\ cur' = k
    /\ main' = "add"
    /\ UNCHANGED <<fileVars, cache, dog, wanted, save, todo, tag, mainCopy, dogCopy>>

\* "already exists" counts as success; any other error ends the command.
AddUser ==
    /\ main = "add"
    /\ \/ /\ AddCallWorks(cur, wanted[cur])
          /\ cache' = With(cache, cur, wanted[cur])
          /\ main' = "sync"
       \/ /\ AddCallFails(cur, wanted[cur])
          /\ main' = "idle"
          /\ UNCHANGED cache
    /\ UNCHANGED <<fileVars, dog, syncVars, mainCopy, dogCopy>>

\* Mutant of SyncReturns: the tags that are not listed are not cleaned.
ReturnsEarly ==
    /\ main = "sync"
    /\ AtEnd
    /\ main' = IF save THEN "write" ELSE "idle"
    /\ UNCHANGED <<processVars, fileVars, cache, dog, syncVars, mainCopy, dogCopy,
                   events, disturbed>>

SyncReturns ==
    /\ main = "sync"
    /\ AtEnd
    /\ \A k \in Key : wanted[k] = None => cache[k] = None
    /\ main' = IF save THEN "write" ELSE "idle"
    /\ UNCHANGED <<processVars, fileVars, cache, dog, syncVars, mainCopy, dogCopy,
                   events, disturbed>>

\* WriteConfigIfValid; the configuration holds the users of the command.
WriteConfig ==
    /\ main = "write"
    /\ \/ disk' = wanted /\ UNCHANGED events
       \/ "write" \in Faults /\ Event /\ UNCHANGED disk
    /\ main' = "idle"
    /\ UNCHANGED <<processVars, bak, cache, dog, syncVars, mainCopy, dogCopy, disturbed>>

-------------------------------------------------------------------------------
(* A start of xray and the hook that follows it.  The file is read without *)
(* a lock, the cache is replaced under c.mu.                               *)

\* The new process serves what the file says.
Spawn(upset) ==
    /\ up = "down"
    /\ up' = "starting"
    /\ xray' = disk
    /\ disturbed' = upset

\* RestartWithConfig up to its Stop, and restart_xray.
Push(u) ==
    /\ main = "idle" /\ dog # "off"
    /\ "push" \in Commands /\ Event
    /\ bak' = disk /\ disk' = u
    /\ main' = "stop"
    /\ UNCHANGED <<processVars, cache, dog, syncVars, mainCopy, dogCopy, disturbed>>

Restart ==
    /\ main = "idle" /\ dog # "off"
    /\ "restart" \in Commands /\ Event
    /\ bak' = None
    /\ main' = "stop"
    /\ UNCHANGED <<processVars, disk, cache, dog, syncVars, mainCopy, dogCopy, disturbed>>

Stop ==
    /\ main = "stop" /\ dog # "window"
    /\ up' = "down"
    /\ main' = "start"
    /\ UNCHANGED <<xray, fileVars, cache, dog, syncVars, mainCopy, dogCopy,
                   events, disturbed>>

\* Nothing happens when the watchdog was faster; the hook runs all the same.
MainStart ==
    /\ main = "start" /\ dog # "window"
    /\ \/ Spawn(dog = "seed") /\ main' = "window"
       \/ up = "up" /\ main' = "read" /\ UNCHANGED <<processVars, disturbed>>
    /\ UNCHANGED <<fileVars, cache, dog, syncVars, mainCopy, dogCopy, events>>

MainReady ==
    /\ main = "window"
    /\ up = "starting"
    /\ up' = "up"
    /\ main' = "read"
    /\ UNCHANGED <<xray, fileVars, cache, dog, syncVars, mainCopy, dogCopy,
                   events, disturbed>>

\* A push goes back to .bak; the boot rebuilds the cache nevertheless.
MainFails ==
    /\ main = "window"
    /\ up = "down"
    /\ disk' = IF bak = None THEN disk ELSE bak
    /\ bak' = None
    /\ main' = IF bak # None THEN "stop" ELSE IF dog = "off" THEN "read" ELSE "idle"
    /\ UNCHANGED <<processVars, cache, dog, syncVars, mainCopy, dogCopy, events, disturbed>>

\* A file that cannot be read leaves the cache as it is.
MainReads ==
    /\ main = "read"
    /\ \/ /\ mainCopy' = disk /\ main' = "seed"
          /\ UNCHANGED <<bak, events, disturbed>>
       \/ /\ "read" \in Faults /\ Event
          /\ main' = "idle" /\ bak' = None /\ disturbed' = TRUE
          /\ UNCHANGED mainCopy
    /\ UNCHANGED <<processVars, disk, cache, dog, syncVars, dogCopy>>

\* SeedUsers; what a successful push does after it is in XrayProc.
MainSeeds ==
    /\ main = "seed"
    /\ cache' = mainCopy
    /\ bak' = None
    /\ main' = "idle"
    /\ UNCHANGED <<processVars, disk, dog, syncVars, mainCopy, dogCopy, events, disturbed>>

\* Mutant of DogSeeds: the cache is cleared, to be filled by the next command.
DogClears ==
    /\ dog = "seed" /\ main \notin {"sync", "add"}
    /\ cache' = Nobody
    /\ dog' = "idle"
    /\ UNCHANGED <<processVars, fileVars, main, syncVars, mainCopy, dogCopy,
                   events, disturbed>>

\* The watchdog, which is started after the boot.
StartWatchdog ==
    /\ main = "idle" /\ dog = "off"
    /\ dog' = "idle"
    /\ UNCHANGED <<processVars, fileVars, cache, main, syncVars, mainCopy, dogCopy,
                   events, disturbed>>

\* check sees, under p.mu, that xray should run and does not; p.mu is then released.
DogDecides ==
    /\ dog = "idle" /\ main \notin {"start", "window"}
    /\ up = "down"
    /\ dog' = "due"
    /\ UNCHANGED <<processVars, fileVars, cache, main, syncVars, mainCopy, dogCopy,
                   events, disturbed>>

\* tryGoodRollback up to its Start: the file becomes .good, whatever that is.
DogRollsBack(u) ==
    /\ dog = "due"
    /\ "rollback" \in Faults /\ Event
    /\ disk' = u
    /\ disturbed' = (disturbed \/ main \in Starting)
    /\ UNCHANGED <<processVars, bak, cache, main, dog, syncVars, mainCopy, dogCopy>>

\* Nothing happens when main was faster; the hook runs all the same.
DogStart ==
    /\ dog = "due" /\ main # "window"
    /\ \/ Spawn(main \in Syncing \cup {"seed"}) /\ dog' = "window"
       \/ up = "up" /\ dog' = "read" /\ disturbed' = TRUE /\ UNCHANGED processVars
    /\ UNCHANGED <<fileVars, cache, main, syncVars, mainCopy, dogCopy, events>>

DogReady ==
    /\ dog = "window"
    /\ IF up = "starting" THEN up' = "up" /\ dog' = "read"
                          ELSE dog' = "idle" /\ UNCHANGED up
    /\ UNCHANGED <<xray, fileVars, cache, main, syncVars, mainCopy, dogCopy,
                   events, disturbed>>

DogReads ==
    /\ dog = "read"
    /\ \/ /\ dogCopy' = disk /\ dog' = "seed"
          /\ UNCHANGED <<events, disturbed>>
       \/ /\ "read" \in Faults /\ Event
          /\ dog' = "idle" /\ disturbed' = TRUE
          /\ UNCHANGED dogCopy
    /\ UNCHANGED <<processVars, fileVars, cache, main, syncVars, mainCopy>>

DogSeeds ==
    /\ dog = "seed" /\ main \notin {"sync", "add"}
    /\ cache' = dogCopy
    /\ dog' = "idle"
    /\ UNCHANGED <<processVars, fileVars, main, syncVars, mainCopy, dogCopy,
                   events, disturbed>>

-------------------------------------------------------------------------------
(* The environment.                                                        *)

Death ==
    /\ up # "down"
    /\ "death" \in Faults /\ Event
    /\ up' = "down"
    /\ UNCHANGED <<xray, fileVars, cache, main, dog, syncVars, mainCopy, dogCopy, disturbed>>

\* The agent is killed; xray is in a process group of its own.
Crash ==
    /\ "crash" \in Faults /\ Event
    /\ main' = "boot" /\ dog' = "off"
    /\ cache' = Nobody
    /\ bak' = None
    /\ wanted' = Nobody /\ save' = FALSE /\ todo' = {} /\ tag' = None /\ cur' = None
    /\ mainCopy' = Nobody /\ dogCopy' = Nobody
    /\ disturbed' = TRUE
    /\ UNCHANGED <<processVars, disk>>

\* CleanupStale, which the old process may outlast, then Start.
Boot ==
    /\ main = "boot"
    /\ up' \in {"down"} \cup (IF up = "down" THEN {} ELSE {"up"})
    /\ main' = "start"
    /\ UNCHANGED <<xray, fileVars, cache, dog, syncVars, mainCopy, dogCopy,
                   events, disturbed>>

-------------------------------------------------------------------------------
SyncUsers ==
    \/ NextTag \/ AddUser \/ SyncReturns \/ WriteConfig
    \/ \E k \in Key : RemoveUser(k) \/ ChangeUser(k)

Command ==
    \/ \E tags \in SUBSET Tag, u \in Users, b \in BOOLEAN : Sync(tags, u, b)
    \/ \E u \in Users : Push(u)
    \/ Restart

MainStep ==
    \/ SyncUsers \/ Stop \/ MainStart \/ MainReady \/ MainFails \/ MainReads
    \/ MainSeeds \/ StartWatchdog \/ Boot

DogStep ==
    \/ DogDecides \/ DogStart \/ DogReady \/ DogReads \/ DogSeeds
    \/ \E u \in Users : DogRollsBack(u)

Next == Command \/ MainStep \/ DogStep \/ Death \/ Crash

Spec == Init /\ [][Next]_vars

-------------------------------------------------------------------------------
(* Every variable has its type.                                            *)
TypeOK ==
    /\ up \in {"down", "starting", "up"}
    /\ xray \in Users /\ disk \in Users /\ cache \in Users
    /\ bak \in Users \cup {None}
    /\ main \in {"boot", "idle"} \cup Syncing \cup Starting
    /\ dog \in NoHook \cup {"window", "read", "seed"}
    /\ wanted \in Users /\ save \in BOOLEAN
    /\ todo \subseteq Tag /\ tag \in Tag \cup {None}
    /\ cur \in Key \cup {None}
    /\ mainCopy \in Users /\ dogCopy \in Users
    /\ events \in 0..MaxEvents
    /\ disturbed \in BOOLEAN

\* xray runs and the hook of its start has returned.
Settled == up = "up" /\ dog \in NoHook /\ main \notin Starting \cup {"boot"}

\* Only the cache says whom SyncUsers can remove and whom it need not add: it is the
\* set of users of the running xray (invariant I5, stats.go:380), through commands
\* that fail half-way, deaths, pushes, rollbacks and restarts, unless since the last
\* start a call failed, or steps of the two goroutines overlapped as disturbed says.
CacheIsTrue == Settled /\ ~disturbed /\ main # "add" => cache = xray

\* When SyncUsers returns nil, xray serves exactly the users of the command, whatever
\* earlier commands left half done.
SyncIsDone ==
    Settled /\ ~disturbed /\ main = "write" => xray = wanted
===============================================================================
