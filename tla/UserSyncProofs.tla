----------------------------- MODULE UserSyncProofs -----------------------------
(***************************************************************************)
(* Theorems about UserSync, for every set of inbounds, users, credentials  *)
(* and faults.                                                             *)
(***************************************************************************)
EXTENDS UserSync, TLAPS

\* What p.mu and the order of boot give: one start at a time, none during boot.
Locks ==
    /\ dog = "window" => main # "window" /\ up # "up"
    /\ up = "starting" => dog = "window" \/ main \in {"window", "boot"}
    /\ main = "boot" => dog = "off" /\ disturbed
    /\ ~disturbed /\ main \in Syncing => dog \in NoHook

\* A process that was started serves the file until the cache is rebuilt from it.
FromFile ==
    /\ ~disturbed /\ up # "down" =>
         /\ main = "seed" => mainCopy = disk
         /\ main \in {"start", "window", "read", "seed"} => xray = disk
         /\ main \in {"idle", "start", "window", "read", "seed"} =>
              /\ dog \in {"window", "read", "seed"} => xray = disk
              /\ dog = "seed" => dogCopy = disk

\* The cache is what xray serves, but for the user that is being added.
InStep ==
    /\ main = "add" => cur \in Key /\ cur[1] = tag /\ wanted[cur] # None
    /\ ~disturbed /\ up # "down" /\ dog \in NoHook =>
         /\ main \in {"idle", "sync", "write"} => cache = xray
         /\ main = "add" => /\ xray[cur] = None
                            /\ \A k \in Key \ {cur} : cache[k] = xray[k]

\* What SyncUsers has done so far.
Done ==
    /\ main \in {"sync", "add"} =>
         \A k \in Key : k[1] \notin todo \cup {tag} /\ wanted[k] # None
                          => cache[k] = wanted[k]
    /\ main = "write" /\ ~disturbed => cache = wanted

UserInv == TypeOK /\ Locks /\ FromFile /\ InStep /\ Done

-------------------------------------------------------------------------------
LEMMA NoneApart == None \notin Cred /\ None \notin Users /\ None \notin Key /\ None \notin Tag
  BY UserSyncAssumption

LEMMA WithType ==
    ASSUME NEW u \in Users, NEW k \in Key, NEW c \in Cred \cup {None}
    PROVE  With(u, k, c) \in Users
  BY DEF Users, With

LEMMA WithValue ==
    ASSUME NEW u \in Users, NEW k \in Key, NEW c
    PROVE  With(u, k, c)[k] = c /\ \A j \in Key \ {k} : With(u, k, c)[j] = u[j]
  BY DEF Users, With

LEMMA SameUsers ==
    ASSUME NEW u \in Users, NEW v \in Users, \A k \in Key : u[k] = v[k]
    PROVE  u = v
  BY DEF Users

\* What a call may do, whether it works or fails.
LEMMA RemoveCallType ==
    ASSUME TypeOK, NEW k \in Key, RemoveCall(k)
    PROVE  xray' \in Users /\ up' = up /\ events' \in 0..MaxEvents /\ disturbed' \in BOOLEAN
  <1>1. With(xray, k, None) \in Users
    BY WithType DEF TypeOK
  <1>2. disturbed' \in BOOLEAN
    BY DEF RemoveCall, CallFails, TypeOK
  <1> QED
    BY <1>1, <1>2, UserSyncAssumption DEF RemoveCall, CallFails, Event, TypeOK

LEMMA AddCallType ==
    ASSUME TypeOK, NEW k \in Key, NEW c \in Cred, AddCallWorks(k, c) \/ AddCallFails(k, c)
    PROVE  xray' \in Users /\ up' = up /\ events' \in 0..MaxEvents /\ disturbed' \in BOOLEAN
  <1>1. With(xray, k, c) \in Users
    BY WithType DEF TypeOK
  <1>2. CASE AddCallWorks(k, c)
    <2>1. xray' = With(xray, k, c) \/ xray' = xray
      BY <1>2 DEF AddCallWorks
    <2>2. disturbed' \in BOOLEAN
      BY <1>2 DEF AddCallWorks, TypeOK
    <2> QED
      BY <1>1, <1>2, <2>1, <2>2 DEF AddCallWorks, TypeOK
  <1>3. CASE AddCallFails(k, c)
    <2>1. xray' = With(xray, k, c) \/ xray' = xray
      BY <1>3 DEF AddCallFails
    <2>2. disturbed' \in BOOLEAN
      BY <1>3 DEF AddCallFails, CallFails, TypeOK
    <2> QED
      BY <1>1, <1>3, <2>1, <2>2, UserSyncAssumption DEF AddCallFails, CallFails, Event, TypeOK
  <1> QED
    BY <1>2, <1>3

\* When no call failed, a removal from a process that serves works.
LEMMA RemoveCallWorks ==
    ASSUME TypeOK, NEW k \in Key, RemoveCall(k), ~disturbed', up = "up"
    PROVE  xray' = With(xray, k, None) /\ ~disturbed
  BY DEF RemoveCall, CallFails, TypeOK

LEMMA EventType == ASSUME TypeOK, Event PROVE events' \in 0..MaxEvents
  BY UserSyncAssumption DEF Event, TypeOK

-------------------------------------------------------------------------------
LEMMA UserInit == Init => UserInv
  <1> SUFFICES ASSUME Init PROVE UserInv
    OBVIOUS
  <1>1. Nobody \in Users
    BY DEF Nobody, Users
  <1>2. TypeOK
    <2>1. disk \in Users /\ events \in 0..MaxEvents
      BY UserSyncAssumption DEF Init
    <2> QED
      BY <1>1, <2>1 DEF Init, TypeOK, NoHook
  <1>3. Locks
    BY DEF Init, Locks, Syncing, NoHook
  <1>4. FromFile /\ InStep /\ Done
    BY DEF Init, FromFile, InStep, Done
  <1> QED
    BY <1>2, <1>3, <1>4 DEF UserInv

LEMMA StartType == TypeOK /\ (MainStart \/ DogStart) => disturbed' \in BOOLEAN
  <1>1. TypeOK /\ MainStart => disturbed' \in BOOLEAN
    BY DEF MainStart, Spawn, TypeOK, processVars
  <1>2. TypeOK /\ DogStart => disturbed' \in BOOLEAN
    <2>1. TypeOK /\ DogStart /\ up = "down" => disturbed' \in BOOLEAN
      BY DEF DogStart, Spawn, TypeOK
    <2> QED
      BY <2>1 DEF DogStart, Spawn
  <1> QED
    BY <1>1, <1>2

\* Every variable keeps its type.
LEMMA TypeStep == UserInv /\ [Next]_vars => TypeOK'
  <1> SUFFICES ASSUME UserInv, [Next]_vars PROVE TypeOK'
    OBVIOUS
  <1>a. TypeOK
    BY DEF UserInv
  <1> USE DEF Syncing, Starting, NoHook, processVars, fileVars, syncVars
  <1>1. ASSUME NEW tags \in SUBSET Tag, NEW u \in Users, NEW b \in BOOLEAN, Sync(tags, u, b)
        PROVE  TypeOK'
    <2>1. disturbed' \in BOOLEAN
      BY <1>a, <1>1 DEF Sync, TypeOK
    <2> QED
      BY <1>a, <1>1, <2>1, EventType DEF Sync, TypeOK
  <1>2. ASSUME NEW u \in Users, Push(u) PROVE TypeOK'
    BY <1>a, <1>2, EventType DEF Push, TypeOK
  <1>3. CASE Restart
    BY <1>a, <1>3, EventType DEF Restart, TypeOK
  <1>4. CASE NextTag
    BY <1>a, <1>4 DEF NextTag, TypeOK
  <1>5. CASE AddUser
    <2>1. cur \in Key /\ wanted[cur] \in Cred
      BY <1>a, <1>5 DEF AddUser, UserInv, InStep, TypeOK, Users
    <2>2. With(cache, cur, wanted[cur]) \in Users
      BY <1>a, <2>1, WithType DEF TypeOK
    <2>3. xray' \in Users /\ up' = up /\ events' \in 0..MaxEvents /\ disturbed' \in BOOLEAN
      BY <1>a, <1>5, <2>1, AddCallType DEF AddUser
    <2> QED
      BY <1>a, <1>5, <2>2, <2>3 DEF AddUser, TypeOK
  <1>6. CASE SyncReturns \/ WriteConfig
    BY <1>a, <1>6, EventType DEF SyncReturns, WriteConfig, TypeOK
  <1>7. ASSUME NEW k \in Key, RemoveUser(k) \/ ChangeUser(k) PROVE TypeOK'
    <2>1. With(cache, k, None) \in Users
      BY <1>a, WithType DEF TypeOK
    <2>2. xray' \in Users /\ up' = up /\ events' \in 0..MaxEvents /\ disturbed' \in BOOLEAN
      BY <1>a, <1>7, RemoveCallType DEF RemoveUser, ChangeUser, TypeOK
    <2>3. CASE RemoveUser(k)
      BY <1>a, <2>1, <2>2, <2>3 DEF RemoveUser, TypeOK
    <2>4. CASE ChangeUser(k)
      BY <1>a, <2>2, <2>4 DEF ChangeUser, TypeOK
    <2> QED
      BY <1>7, <2>3, <2>4
  <1>8. CASE Stop \/ MainReady \/ MainFails \/ MainSeeds \/ StartWatchdog \/ Boot
    BY <1>a, <1>8 DEF Stop, MainReady, MainFails, MainSeeds, StartWatchdog, Boot, TypeOK
  <1>9. CASE MainStart \/ DogStart
    <2>1. disturbed' \in BOOLEAN
      BY <1>a, <1>9, StartType
    <2> QED
      BY <1>a, <1>9, <2>1 DEF MainStart, DogStart, Spawn, TypeOK
  <1>10. CASE MainReads \/ DogReads
    <2>1. disturbed' \in BOOLEAN
      BY <1>a, <1>10 DEF MainReads, DogReads, TypeOK
    <2> QED
      BY <1>a, <1>10, <2>1, EventType DEF MainReads, DogReads, TypeOK
  <1>11. CASE DogDecides \/ DogReady \/ DogSeeds
    BY <1>a, <1>11 DEF DogDecides, DogReady, DogSeeds, TypeOK
  <1>15. ASSUME NEW u \in Users, DogRollsBack(u) PROVE TypeOK'
    <2>1. disturbed' \in BOOLEAN
      BY <1>a, <1>15 DEF DogRollsBack, TypeOK
    <2> QED
      BY <1>a, <1>15, <2>1, EventType DEF DogRollsBack, TypeOK
  <1>12. CASE Death
    BY <1>a, <1>12, EventType DEF Death, TypeOK
  <1>13. CASE Crash
    <2>1. Nobody \in Users
      BY DEF Nobody, Users
    <2> QED
      BY <1>a, <1>13, <2>1, EventType DEF Crash, TypeOK
  <1>14. CASE UNCHANGED vars
    BY <1>a, <1>14 DEF vars, TypeOK
  <1> QED
    BY <1>1, <1>2, <1>3, <1>4, <1>5, <1>6, <1>7, <1>8, <1>9, <1>10, <1>11, <1>12, <1>13,
       <1>14, <1>15 DEF Next, Command, MainStep, SyncUsers, DogStep

-------------------------------------------------------------------------------
(* Only these steps disturb, and only a start of xray ends it.             *)

LEMMA DisturbedStays ==
    ASSUME UserInv, disturbed,
           AddUser \/ \E k \in Key : RemoveUser(k) \/ ChangeUser(k)
    PROVE  disturbed'
  BY DEF RemoveUser, ChangeUser, AddUser, RemoveCall, AddCallWorks, AddCallFails, CallFails,
         processVars

LEMMA LocksStep == UserInv /\ [Next]_vars => Locks'
  <1> SUFFICES ASSUME UserInv, [Next]_vars PROVE Locks'
    OBVIOUS
  <1> USE DEF UserInv, TypeOK, Locks, Syncing, Starting, NoHook, processVars, fileVars, syncVars
  <1>1. ASSUME NEW tags \in SUBSET Tag, NEW u \in Users, NEW b \in BOOLEAN, Sync(tags, u, b)
        PROVE  Locks'
    BY <1>1 DEF Sync
  <1>2. CASE (\E u \in Users : Push(u)) \/ Restart
    BY <1>2 DEF Push, Restart
  <1>3. CASE NextTag \/ SyncReturns \/ WriteConfig
    BY <1>3 DEF NextTag, SyncReturns, WriteConfig
  <1>4. CASE AddUser \/ \E k \in Key : RemoveUser(k) \/ ChangeUser(k)
    <2>1. up' = up /\ dog' = dog
      BY <1>4 DEF RemoveUser, ChangeUser, AddUser, RemoveCall, AddCallWorks, AddCallFails
    <2>2. main \in Syncing /\ main' \in {"sync", "add", "idle"}
      BY <1>4 DEF RemoveUser, ChangeUser, AddUser
    <2>3. disturbed => disturbed'
      BY <1>4, DisturbedStays
    <2> QED
      BY <2>1, <2>2, <2>3
  <1>5. CASE Stop \/ MainReady \/ MainFails \/ MainSeeds \/ StartWatchdog \/ Boot
    BY <1>5 DEF Stop, MainReady, MainFails, MainSeeds, StartWatchdog, Boot
  <1>6. CASE MainStart
    BY <1>6 DEF MainStart, Spawn
  <1>7. CASE DogStart
    BY <1>7 DEF DogStart, Spawn
  <1>8. CASE MainReads \/ DogReads
    BY <1>8 DEF MainReads, DogReads
  <1>9. CASE DogDecides \/ DogReady \/ DogSeeds
    BY <1>9 DEF DogDecides, DogReady, DogSeeds
  <1>13. CASE \E u \in Users : DogRollsBack(u)
    BY <1>13 DEF DogRollsBack
  <1>10. CASE Death
    BY <1>10 DEF Death
  <1>11. CASE Crash
    BY <1>11 DEF Crash
  <1>12. CASE UNCHANGED vars
    BY <1>12 DEF vars
  <1> QED
    BY <1>1, <1>2, <1>3, <1>4, <1>5, <1>6, <1>7, <1>8, <1>9, <1>10, <1>11, <1>12,
       <1>13 DEF Next, Command, MainStep, SyncUsers, DogStep

LEMMA FromFileStep == UserInv /\ [Next]_vars => FromFile'
  <1> SUFFICES ASSUME UserInv, [Next]_vars PROVE FromFile'
    OBVIOUS
  <1> USE DEF UserInv, FromFile, Locks, Syncing, Starting, NoHook, processVars, fileVars, syncVars
  <1>1. ASSUME NEW tags \in SUBSET Tag, NEW u \in Users, NEW b \in BOOLEAN, Sync(tags, u, b)
        PROVE  FromFile'
    BY <1>1 DEF Sync
  <1>2. CASE (\E u \in Users : Push(u)) \/ Restart
    BY <1>2 DEF Push, Restart
  <1>3. CASE NextTag \/ SyncReturns \/ WriteConfig
    BY <1>3 DEF NextTag, SyncReturns, WriteConfig
  <1>4. CASE AddUser \/ \E k \in Key : RemoveUser(k) \/ ChangeUser(k)
    <2>1. UNCHANGED <<fileVars, mainCopy, dogCopy>> /\ up' = up /\ dog' = dog
      BY <1>4 DEF RemoveUser, ChangeUser, AddUser, RemoveCall, AddCallWorks, AddCallFails
    <2>2. main \in Syncing /\ main' \in {"sync", "add", "idle"}
      BY <1>4 DEF RemoveUser, ChangeUser, AddUser
    <2>3. disturbed => disturbed'
      BY <1>4, DisturbedStays
    <2> QED
      BY <2>1, <2>2, <2>3
  <1>5. CASE Stop \/ MainReady \/ MainFails \/ MainSeeds \/ StartWatchdog \/ Boot
    BY <1>5 DEF Stop, MainReady, MainFails, MainSeeds, StartWatchdog, Boot
  <1>6. CASE MainStart
    <2>1. CASE Spawn(dog = "seed") /\ main' = "window"
      <3>1. dog = "seed" => disturbed'
        BY <2>1 DEF Spawn
      <3> QED
        BY <1>6, <2>1, <3>1 DEF MainStart, Spawn
    <2>2. CASE up = "up" /\ main' = "read" /\ UNCHANGED <<processVars, disturbed>>
      BY <1>6, <2>2 DEF MainStart
    <2> QED
      BY <1>6, <2>1, <2>2 DEF MainStart
  <1>7. CASE DogStart
    <2>1. CASE Spawn(main \in Syncing \cup {"seed"}) /\ dog' = "window"
      <3>1. main \in Syncing \cup {"seed"} => disturbed'
        BY <2>1 DEF Spawn
      <3> QED
        BY <1>7, <2>1, <3>1 DEF DogStart, Spawn
    <2>2. CASE disturbed'
      BY <1>7, <2>2 DEF DogStart, Spawn
    <2> QED
      BY <1>7, <2>1, <2>2 DEF DogStart
  <1>8. CASE MainReads \/ DogReads
    BY <1>8 DEF MainReads, DogReads
  <1>9. CASE DogDecides \/ DogReady \/ DogSeeds
    BY <1>9 DEF DogDecides, DogReady, DogSeeds
  <1>13. CASE \E u \in Users : DogRollsBack(u)
    BY <1>13 DEF DogRollsBack
  <1>10. CASE Death
    BY <1>10 DEF Death
  <1>11. CASE Crash
    BY <1>11 DEF Crash
  <1>12. CASE UNCHANGED vars
    BY <1>12 DEF vars
  <1> QED
    BY <1>1, <1>2, <1>3, <1>4, <1>5, <1>6, <1>7, <1>8, <1>9, <1>10, <1>11, <1>12,
       <1>13 DEF Next, Command, MainStep, SyncUsers, DogStep

\* A user is taken out of xray before his new credentials are added.
LEMMA ChangeKeepsStep ==
    ASSUME UserInv, NEW k \in Key, ChangeUser(k)
    PROVE  InStep'
  <1> USE DEF UserInv, TypeOK, Locks, Syncing, NoHook
  <1>1. UNCHANGED <<cache, dog, wanted, tag>> /\ cur' = k /\ main' = "add" /\ main = "sync"
        /\ wanted[k] # None /\ k[1] = tag /\ up' = up
    BY DEF ChangeUser, RemoveCall, processVars
  <1>2. SUFFICES ASSUME ~disturbed', up # "down", dog \in NoHook
                 PROVE  xray'[k] = None /\ \A j \in Key \ {k} : cache[j] = xray'[j]
    BY <1>1 DEF InStep
  <1>3. up = "up" /\ ~disturbed
    BY <1>1, <1>2, DisturbedStays
  <1>4. cache = xray
    BY <1>1, <1>2, <1>3 DEF InStep
  <1>5. CASE RemoveCall(k)
    <2>1. xray' = With(xray, k, None)
      BY <1>2, <1>3, <1>5, RemoveCallWorks
    <2> QED
      BY <1>4, <2>1, WithValue
  <1>6. CASE cache[k] = None /\ xray' = xray
    BY <1>4, <1>6
  <1> QED
    BY <1>5, <1>6 DEF ChangeUser, processVars

\* A removal and an addition that works change the cache and xray alike.
LEMMA RemoveKeepsStep ==
    ASSUME UserInv, NEW k \in Key, RemoveUser(k)
    PROVE  InStep'
  <1> USE DEF UserInv, TypeOK, Locks, Syncing, NoHook
  <1>1. UNCHANGED <<dog, up>> /\ main' = main /\ main = "sync" /\ RemoveCall(k)
        /\ cache' = With(cache, k, None)
    BY DEF RemoveUser, RemoveCall
  <1>2. SUFFICES ASSUME ~disturbed', up # "down", dog \in NoHook
                 PROVE  cache' = xray'
    BY <1>1 DEF InStep
  <1>3. up = "up" /\ ~disturbed
    BY <1>1, <1>2, DisturbedStays
  <1>4. cache = xray
    BY <1>1, <1>2, <1>3 DEF InStep
  <1>5. xray' = With(xray, k, None)
    BY <1>1, <1>2, <1>3, RemoveCallWorks
  <1> QED
    BY <1>1, <1>4, <1>5

LEMMA AddKeepsStep ==
    ASSUME UserInv, AddUser
    PROVE  InStep'
  <1> USE DEF UserInv, TypeOK, Locks, Syncing, NoHook
  <1>1. UNCHANGED dog /\ main = "add" /\ main' \in {"sync", "idle"} /\ up' = up
    BY DEF AddUser, AddCallWorks, AddCallFails
  <1>2. SUFFICES ASSUME ~disturbed', up # "down", dog \in NoHook
                 PROVE  cache' = xray'
    BY <1>1 DEF InStep
  <1>3. up = "up" /\ ~disturbed
    BY <1>1, <1>2, DisturbedStays
  <1>4. cur \in Key /\ wanted[cur] \in Cred /\ xray[cur] = None
        /\ \A k \in Key \ {cur} : cache[k] = xray[k]
    BY <1>1, <1>2, <1>3 DEF InStep, Users
  <1>5. ~AddCallFails(cur, wanted[cur])
    BY <1>2, <1>3 DEF AddCallFails, CallFails
  <1>6. cache' = With(cache, cur, wanted[cur]) /\ xray' = With(xray, cur, wanted[cur])
    BY <1>4, <1>5 DEF AddUser, AddCallWorks
  <1>7. cache' \in Users /\ xray' \in Users
    BY <1>4, <1>6, WithType
  <1>8. \A k \in Key : cache'[k] = xray'[k]
    BY <1>4, <1>6, WithValue
  <1> QED
    BY <1>7, <1>8, SameUsers

LEMMA InStepStep == UserInv /\ [Next]_vars => InStep'
  <1> SUFFICES ASSUME UserInv, [Next]_vars PROVE InStep'
    OBVIOUS
  <1> USE DEF UserInv, TypeOK, InStep, FromFile, Locks, Syncing, Starting, NoHook, processVars,
              fileVars, syncVars
  <1>1. ASSUME NEW tags \in SUBSET Tag, NEW u \in Users, NEW b \in BOOLEAN, Sync(tags, u, b)
        PROVE  InStep'
    BY <1>1 DEF Sync
  <1>2. CASE (\E u \in Users : Push(u)) \/ Restart
    BY <1>2 DEF Push, Restart
  <1>3. CASE NextTag \/ SyncReturns \/ WriteConfig
    BY <1>3 DEF NextTag, SyncReturns, WriteConfig
  <1>4. CASE AddUser \/ \E k \in Key : RemoveUser(k) \/ ChangeUser(k)
    BY <1>4, RemoveKeepsStep, ChangeKeepsStep, AddKeepsStep
  <1>5. CASE Stop \/ MainReady \/ MainFails \/ MainSeeds \/ StartWatchdog \/ Boot
    BY <1>5 DEF Stop, MainReady, MainFails, MainSeeds, StartWatchdog, Boot
  <1>6. CASE MainStart
    BY <1>6 DEF MainStart
  <1>7. CASE DogStart
    BY <1>7 DEF DogStart
  <1>8. CASE MainReads \/ DogReads
    BY <1>8 DEF MainReads, DogReads
  <1>9. CASE DogDecides \/ DogReady \/ DogSeeds
    BY <1>9 DEF DogDecides, DogReady, DogSeeds
  <1>13. CASE \E u \in Users : DogRollsBack(u)
    BY <1>13 DEF DogRollsBack
  <1>10. CASE Death
    BY <1>10 DEF Death
  <1>11. CASE Crash
    BY <1>11 DEF Crash
  <1>12. CASE UNCHANGED vars
    BY <1>12 DEF vars
  <1> QED
    BY <1>1, <1>2, <1>3, <1>4, <1>5, <1>6, <1>7, <1>8, <1>9, <1>10, <1>11, <1>12,
       <1>13 DEF Next, Command, MainStep, SyncUsers, DogStep

-------------------------------------------------------------------------------
LEMMA DoneStep == UserInv /\ [Next]_vars => Done'
  <1> SUFFICES ASSUME UserInv, [Next]_vars PROVE Done'
    OBVIOUS
  <1> USE DEF UserInv, TypeOK, Done, Locks, Syncing, Starting, NoHook, processVars, fileVars, syncVars
  <1>1. ASSUME NEW tags \in SUBSET Tag, NEW u \in Users, NEW b \in BOOLEAN, Sync(tags, u, b)
        PROVE  Done'
    BY <1>1 DEF Sync
  <1>2. CASE (\E u \in Users : Push(u)) \/ Restart
    BY <1>2 DEF Push, Restart
  <1>3. CASE NextTag
    BY <1>3 DEF NextTag, TagDone
  <1>4. CASE SyncReturns
    <2>1. \A k \in Key : cache[k] = wanted[k]
      BY <1>4 DEF SyncReturns, AtEnd, TagDone
    <2>2. cache = wanted
      BY <2>1, SameUsers
    <2> QED
      BY <1>4, <2>2 DEF SyncReturns
  <1>5. CASE AddUser
    <2>1. cur \in Key
      BY <1>5 DEF AddUser, InStep
    <2>2. CASE main' = "idle"
      BY <2>2
    <2>3. CASE main' # "idle"
      <3>1. cache' = With(cache, cur, wanted[cur]) /\ main = "add" /\ main' = "sync"
            /\ UNCHANGED <<todo, tag, wanted>>
        BY <1>5, <2>3 DEF AddUser
      <3> QED
        BY <2>1, <3>1, WithValue
    <2> QED
      BY <2>2, <2>3
  <1>6. ASSUME NEW k \in Key, RemoveUser(k) PROVE Done'
    <2>1. cache' = With(cache, k, None) /\ main = "sync" /\ main' = "sync" /\ wanted[k] = None
          /\ UNCHANGED <<todo, tag, wanted>>
      BY <1>6 DEF RemoveUser
    <2> QED
      BY <2>1, WithValue
  <1>7. ASSUME NEW k \in Key, ChangeUser(k) PROVE Done'
    BY <1>7 DEF ChangeUser
  <1>8. CASE WriteConfig \/ Stop \/ MainReady \/ MainFails \/ MainSeeds \/ StartWatchdog \/ Boot
    BY <1>8 DEF WriteConfig, Stop, MainReady, MainFails, MainSeeds, StartWatchdog, Boot
  <1>9. CASE MainStart
    BY <1>9 DEF MainStart
  <1>10. CASE DogStart
    BY <1>10 DEF DogStart, Spawn
  <1>11. CASE MainReads \/ DogReads
    BY <1>11 DEF MainReads, DogReads
  <1>12. CASE DogDecides \/ DogReady \/ DogSeeds
    BY <1>12 DEF DogDecides, DogReady, DogSeeds
  <1>16. CASE \E u \in Users : DogRollsBack(u)
    BY <1>16 DEF DogRollsBack
  <1>13. CASE Death
    BY <1>13 DEF Death
  <1>14. CASE Crash
    BY <1>14 DEF Crash
  <1>15. CASE UNCHANGED vars
    BY <1>15 DEF vars
  <1> QED
    BY <1>1, <1>2, <1>3, <1>4, <1>5, <1>6, <1>7, <1>8, <1>9, <1>10, <1>11, <1>12, <1>13,
       <1>14, <1>15, <1>16 DEF Next, Command, MainStep, SyncUsers, DogStep

LEMMA UserInvAlways == Spec => []UserInv
  <1>1. Init => UserInv
    BY UserInit
  <1>2. UserInv /\ [Next]_vars => UserInv'
    BY TypeStep, LocksStep, FromFileStep, InStepStep, DoneStep DEF UserInv
  <1> QED
    BY <1>1, <1>2, PTL DEF Spec

-------------------------------------------------------------------------------
\* Users, credentials and the place of each goroutine have their types.
THEOREM UserTyping == Spec => []TypeOK
  <1>1. UserInv => TypeOK
    BY DEF UserInv
  <1> QED
    BY <1>1, UserInvAlways, PTL

\* The cache SyncUsers decides by is the set of users xray serves, for any number of
\* inbounds, users, commands, deaths and restarts, unless a call failed or a command
\* overlapped the start of xray.
THEOREM UserCacheIsTrue == Spec => []CacheIsTrue
  <1>1. UserInv => CacheIsTrue
    BY DEF UserInv, TypeOK, InStep, CacheIsTrue, Settled, Starting, Syncing
  <1> QED
    BY <1>1, UserInvAlways, PTL

\* When SyncUsers returns nil, xray serves the users of the command and no other.
THEOREM UserSyncIsDone == Spec => []SyncIsDone
  <1>1. UserInv => SyncIsDone
    BY DEF UserInv, InStep, Done, SyncIsDone, Settled
  <1> QED
    BY <1>1, UserInvAlways, PTL
===============================================================================
