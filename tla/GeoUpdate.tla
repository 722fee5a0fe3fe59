------------------------------ MODULE GeoUpdate ------------------------------
(***************************************************************************)
(* The rule files of xray, geoip.dat and geosite.dat, and the two that     *)
(* write them: the updater (geo.go), which downloads, tests the files      *)
(* together with xray -test, replaces them one by one and undoes what it   *)
(* replaced when one fails; and a kernel upgrade (xrayupgrade.go,          *)
(* syncGeoFiles), which copies the files of its release without a test.    *)
(* Both replace a file with ReplaceGeoFile (geofile.go), through the same  *)
(* <file>.tmp and <file>.prev, and no lock is between them.                *)
(*                                                                         *)
(* A step is one file operation; each may fail, and the process may die    *)
(* between two.  When both write the same <file>.tmp at once, what is      *)
(* renamed is either one's data or a mixture.                              *)
(*                                                                         *)
(* Abstracted: contents are values, Works the combinations xray -test      *)
(* accepts; mirrors, checksums and versions only decide what is fetched or *)
(* that nothing is; time (the delay between runs is any); the reload of    *)
(* xray after a change (KernelUpgrade, GeoReload).                         *)
(***************************************************************************)
EXTENDS Naturals, Sequences, SequencesExt

CONSTANTS
    GeoFile,     \* GeoFileNames
    Wanted,      \* the files the updater is configured to update
    Content,
    Bundle,      \* the contents kernel releases bring
    Works,       \* the combinations the configuration can be tested with
    Missing,     \* no such file
    MaxGeoFaults, MaxSyncs    \* bounds

Torn == "torn"     \* a file that is neither an old nor a new one

ASSUME GeoAssumption ==
    /\ Wanted \subseteq GeoFile /\ Wanted # {}
    /\ Works \subseteq [GeoFile -> Content \cup {Missing}]
    /\ Bundle \subseteq Content
    /\ {Missing, Torn} \cap Content = {} /\ Missing # Torn
    /\ MaxGeoFaults \in Nat /\ MaxSyncs \in Nat

Writer == {"geo", "kernel"}

VARIABLES
    installed, prev,    \* <file>, <file>.prev
    rep,           \* the ReplaceGeoFile a writer is in, or its result
    upd,           \* the updater's progress through Update
    data,          \* what it fetched
    done,          \* what it replaced: file, and whether there was one before
    sync,          \* the files the kernel upgrade has still to copy
    before,        \* the files when the update began (history)
    clean,         \* since then no kernel upgrade and no failed undo touched them (history)
    spoilt,        \* the files are not known to work together (history)
    overlapped,    \* files that both writers were replacing at once (history)
    geoFaults, syncs

files    == <<installed, prev>>
progress == <<upd, data, done>>
geoGhost == <<before, clean, spoilt, overlapped>>
geoCount == <<geoFaults, syncs>>
geoVars  == <<files, rep, progress, sync, geoGhost, geoCount>>

NoFile == [f \in GeoFile |-> Missing]

GeoFault == geoFaults < MaxGeoFaults /\ geoFaults' = geoFaults + 1

-----------------------------------------------------------------------------
(* ReplaceGeoFile *)

None == [at |-> "none"]

Replacing(f, c) == [at |-> "compare", file |-> f, data |-> c, had |-> FALSE, shared |-> FALSE]

HasOpen(w, f) == rep[w].at = "write" /\ rep[w].file = f

Other(w) == CHOOSE v \in Writer : v # w

\* Same content: nothing is written.
Compare(w) ==
    /\ rep[w].at = "compare"
    /\ rep' = [rep EXCEPT ![w].at = IF installed[rep[w].file] = rep[w].data THEN "same" ELSE "backup"]
    /\ UNCHANGED <<files, progress, sync, geoGhost, geoCount>>

\* CopyFile to <file>.prev, itself by rename.
BackupFile(w) ==
    /\ rep[w].at = "backup"
    /\ LET f == rep[w].file IN
       /\ prev' = IF installed[f] = Missing THEN prev ELSE [prev EXCEPT ![f] = installed[f]]
       /\ rep' = [rep EXCEPT ![w].at = "open", ![w].had = (installed[f] # Missing)]
    /\ UNCHANGED <<installed, progress, sync, geoGhost, geoCount>>

\* Mutant of OpenTmp: the file itself is opened and written.
OpenInPlace(w) ==
    /\ rep[w].at = "open"
    /\ rep' = [rep EXCEPT ![w].at = "write"]
    /\ installed' = [installed EXCEPT ![rep[w].file] = Torn]
    /\ UNCHANGED <<prev, progress, sync, geoGhost, geoCount>>

\* OpenFile truncates <file>.tmp, whoever has it open; then the data is written and synced.
OpenTmp(w) ==
    /\ rep[w].at = "open"
    /\ LET f == rep[w].file
           both == HasOpen(Other(w), f) IN
       /\ rep' = [v \in Writer |->
                    IF v = w THEN [rep[w] EXCEPT !.at = "write", !.shared = both]
                    ELSE IF both THEN [rep[v] EXCEPT !.shared = TRUE] ELSE rep[v]]
       /\ overlapped' = IF both THEN overlapped \cup {f} ELSE overlapped
    /\ UNCHANGED <<files, progress, sync, before, clean, spoilt, geoCount>>

Renamed(w, c) ==
    /\ installed' = [installed EXCEPT ![rep[w].file] = c]
    /\ rep' = [rep EXCEPT ![w].at = "changed"]
    /\ UNCHANGED <<prev, progress, sync, geoGhost, geoCount>>

RenameTmp(w) == rep[w].at = "write" /\ ~rep[w].shared /\ Renamed(w, rep[w].data)

\* A file that the other writer had open too holds either one's data or a mixture.
RenameShared(w) ==
    /\ rep[w].at = "write" /\ rep[w].shared
    /\ \/ Renamed(w, rep[w].data)
       \/ Renamed(w, Torn)
       \/ rep[Other(w)].at # "none" /\ Renamed(w, rep[Other(w)].data)

ReplaceFails(w) ==
    /\ rep[w].at \in {"backup", "open", "write"}
    /\ IF rep[w].shared THEN UNCHANGED geoFaults ELSE GeoFault
    /\ rep' = [rep EXCEPT ![w].at = "failed"]
    /\ UNCHANGED <<files, progress, sync, geoGhost, syncs>>

-----------------------------------------------------------------------------
(* Update *)

\* Run returns at once when automatic updates are off: upd is "off" for good.

\* Run: the delay of nextDelay is over.
StartUpdate ==
    /\ upd = "idle"
    /\ upd' = "fetch"
    /\ before' = installed /\ clean' = (sync = {} /\ rep["kernel"] = None)
    /\ UNCHANGED <<files, rep, data, done, sync, spoilt, overlapped, geoCount>>

Staged == [f \in GeoFile |-> IF f \in Wanted THEN data'[f] ELSE installed[f]]

\* Mutant of FetchAndTest: the files are not tested.
FetchOnly ==
    /\ upd = "fetch"
    /\ \E d \in [Wanted -> Content] : data' = [f \in GeoFile |-> IF f \in Wanted THEN d[f] ELSE Missing]
    /\ upd' = "replace"
    /\ UNCHANGED <<files, rep, done, sync, geoGhost, geoCount>>

\* A file comes from its URL, or from the official bundle when it has none or that fails.
\* The files are staged with the ones that stay, and tested together.  A release that does
\* not work with the configuration is a fault.
FetchAndTest ==
    /\ upd = "fetch"
    /\ \E d \in [Wanted -> Content] : data' = [f \in GeoFile |-> IF f \in Wanted THEN d[f] ELSE Missing]
    /\ IF Staged \in Works
       THEN upd' = "replace" /\ UNCHANGED geoFaults
       ELSE upd' = "failed" /\ GeoFault
    /\ UNCHANGED <<files, rep, done, sync, geoGhost, syncs>>

\* No source has the file, or the staging directory cannot be written.
FetchFails ==
    /\ upd = "fetch" /\ GeoFault
    /\ upd' = "failed"
    /\ UNCHANGED <<files, rep, data, done, sync, geoGhost, syncs>>

Handled == {done[i].file : i \in 1..Len(done)}

ReplaceNext(f) ==
    /\ upd = "replace" /\ rep["geo"] = None /\ f \in Wanted /\ data[f] # Missing
    /\ rep' = [rep EXCEPT !["geo"] = Replacing(f, data[f])]
    /\ UNCHANGED <<files, progress, sync, geoGhost, geoCount>>

\* A file is taken off data once it is replaced or found the same.
Replaced ==
    /\ upd = "replace" /\ rep["geo"].at \in {"same", "changed"}
    /\ LET f == rep["geo"].file IN
       /\ data' = [data EXCEPT ![f] = Missing]
       /\ done' = IF rep["geo"].at = "changed"
                  THEN Append(done, [file |-> f, had |-> rep["geo"].had]) ELSE done
    /\ rep' = [rep EXCEPT !["geo"] = None]
    /\ UNCHANGED <<files, upd, sync, geoGhost, geoCount>>

\* Mutant of ReplaceFailed: what was replaced stays.
FailedAndLeft ==
    /\ upd = "replace" /\ rep["geo"].at = "failed"
    /\ rep' = [rep EXCEPT !["geo"] = None]
    /\ upd' = "failed"
    /\ UNCHANGED <<files, data, done, sync, geoGhost, geoCount>>

ReplaceFailed ==
    /\ upd = "replace" /\ rep["geo"].at = "failed"
    /\ rep' = [rep EXCEPT !["geo"] = None]
    /\ upd' = "undo"
    /\ UNCHANGED <<files, data, done, sync, geoGhost, geoCount>>

\* rollback, the last replaced first: a file that was not there is removed again, any other
\* is replaced by its <file>.prev.
UndoNext ==
    /\ upd = "undo" /\ rep["geo"] = None /\ done # <<>>
    /\ LET f == Last(done).file IN
       IF Last(done).had
       THEN /\ rep' = [rep EXCEPT !["geo"] = Replacing(f, prev[f])]
            /\ UNCHANGED <<installed, done>>
       ELSE /\ installed' = [installed EXCEPT ![f] = Missing]
            /\ done' = Front(done) /\ UNCHANGED rep
    /\ UNCHANGED <<prev, upd, data, sync, geoGhost, geoCount>>

\* A failed rollback is logged, and the next one goes on.
Undone ==
    /\ upd = "undo" /\ rep["geo"].at \in {"same", "changed", "failed"}
    /\ done' = Front(done)
    /\ rep' = [rep EXCEPT !["geo"] = None]
    /\ LET failed == rep["geo"].at = "failed" IN
       clean' = (clean /\ ~failed) /\ spoilt' = (spoilt \/ failed)
    /\ UNCHANGED <<files, upd, data, sync, before, overlapped, geoCount>>

UndoEnds ==
    /\ upd = "undo" /\ rep["geo"] = None /\ done = <<>>
    /\ upd' = "failed"
    /\ UNCHANGED <<files, rep, data, done, sync, geoGhost, geoCount>>

AllReplaced ==
    /\ upd = "replace" /\ rep["geo"] = None /\ \A f \in Wanted : data[f] = Missing
    /\ upd' = "updated" /\ done' = <<>>
    /\ spoilt' = ~clean
    /\ UNCHANGED <<files, rep, data, sync, before, clean, overlapped, geoCount>>

\* Mutant of SaveState: a failed run is the last one.
StopAfterError ==
    /\ upd \in {"updated", "failed"}
    /\ upd' = (IF upd = "failed" THEN "off" ELSE "idle") /\ data' = NoFile
    /\ before' = NoFile /\ clean' = TRUE
    /\ UNCHANGED <<files, rep, done, sync, spoilt, overlapped, geoCount>>

\* The end of a run, and saveState: what it writes, or fails to, only decides the next delay.
SaveState ==
    /\ upd \in {"updated", "failed"}
    /\ upd' = "idle" /\ data' = NoFile
    /\ before' = NoFile /\ clean' = TRUE
    /\ UNCHANGED <<files, rep, done, sync, spoilt, overlapped, geoCount>>

-----------------------------------------------------------------------------
(* The kernel upgrade's syncGeoFiles, and a crash *)

FirstOf(S) == CHOOSE f \in S : TRUE

KernelSync(c) ==
    /\ sync = {} /\ rep["kernel"] = None /\ syncs < MaxSyncs
    /\ syncs' = syncs + 1 /\ sync' = GeoFile
    /\ rep' = [rep EXCEPT !["kernel"] = Replacing(FirstOf(GeoFile), c)]
    /\ clean' = (upd \in {"idle", "off"}) /\ spoilt' = TRUE
    /\ UNCHANGED <<files, progress, before, overlapped, geoFaults>>

\* A failure is logged and the next file is copied.
SyncNext ==
    /\ rep["kernel"].at \in {"same", "changed", "failed"}
    /\ sync' = sync \ {rep["kernel"].file}
    /\ rep' = [rep EXCEPT !["kernel"] =
                 IF sync' = {} THEN None
                 ELSE Replacing(FirstOf(sync'), rep["kernel"].data)]
    /\ UNCHANGED <<files, progress, geoGhost, geoCount>>

GeoCrash ==
    /\ upd \notin {"idle", "off"} \/ rep["kernel"] # None
    /\ GeoFault
    /\ spoilt' = (spoilt \/ upd \in {"replace", "undo"})
    /\ rep' = [w \in Writer |-> None] /\ sync' = {}
    /\ upd' = (IF upd = "off" THEN "off" ELSE "idle") /\ done' = <<>> /\ data' = NoFile
    /\ before' = NoFile /\ clean' = TRUE
    /\ UNCHANGED <<files, overlapped, syncs>>

-----------------------------------------------------------------------------
\* The files as an installation left them, working or not there yet.
GeoInit ==
    /\ \E d \in Works \cup {NoFile} :
         installed = d /\ spoilt = (d \notin Works)
    /\ prev = NoFile /\ before = NoFile
    /\ rep = [w \in Writer |-> None] /\ sync = {}
    /\ upd \in {"idle", "off"} /\ data = NoFile /\ done = <<>>
    /\ clean = TRUE /\ overlapped = {}
    /\ geoFaults = 0 /\ syncs = 0

ReplaceStep(w) ==
    \/ Compare(w) \/ BackupFile(w) \/ OpenTmp(w) \/ RenameTmp(w) \/ RenameShared(w)
    \/ ReplaceFails(w)

UpdateStep ==
    \/ FetchAndTest \/ FetchFails \/ Replaced \/ ReplaceFailed
    \/ UndoNext \/ Undone \/ UndoEnds \/ AllReplaced \/ SaveState
    \/ \E f \in GeoFile : ReplaceNext(f)

GeoNext ==
    \/ \E w \in Writer : ReplaceStep(w)
    \/ StartUpdate \/ UpdateStep
    \/ \E c \in Bundle : KernelSync(c)
    \/ SyncNext \/ GeoCrash

GeoSpec == GeoInit /\ [][GeoNext]_geoVars

\* The delay before a run ends, and a run that nothing stops goes on.
GeoFairness ==
    /\ WF_geoVars(StartUpdate) /\ WF_geoVars(UpdateStep) /\ WF_geoVars(SyncNext)
    /\ \A w \in Writer : WF_geoVars(ReplaceStep(w))

FairGeoSpec == GeoSpec /\ GeoFairness

-----------------------------------------------------------------------------
Known == Content \cup {Missing, Torn}

GeoTypeOK ==
    /\ installed \in [GeoFile -> Known] /\ prev \in [GeoFile -> Known]
    /\ before \in [GeoFile -> Known]
    /\ data \in [GeoFile -> Content \cup {Missing}]
    /\ \A w \in Writer : rep[w] # None => rep[w].file \in GeoFile /\ rep[w].data \in Content \cup {Torn}
    /\ upd \in {"off", "idle", "fetch", "replace", "undo", "updated", "failed"}
    /\ sync \subseteq GeoFile /\ overlapped \subseteq GeoFile
    /\ clean \in BOOLEAN /\ spoilt \in BOOLEAN
    /\ geoFaults \in 0..MaxGeoFaults /\ syncs \in 0..MaxSyncs

\* No file is ever half written, whenever a write fails or the process dies; only two writers
\* in the same <file>.tmp can mix their data (geofile.go:55-82).
NeverTorn == \A f \in GeoFile \ overlapped : installed[f] # Torn /\ prev[f] # Torn

\* An update that fails leaves the files as they were when it began, wherever it failed:
\* unless a kernel upgrade or a failed rollback came in between (geo.go:270-287, 423-436).
FailureRestores == upd = "failed" /\ clean => installed = before

\* Between updates the files are a combination that xray -test accepted, unless the process
\* died in the middle of a replacement, a rollback failed, or a kernel upgrade copied files
\* since; the next update that succeeds makes up for it (geo.go:250-268).
InstalledWorks == upd \in {"off", "idle", "fetch", "updated"} /\ ~spoilt => installed \in Works

\* Failed runs are repeated until one succeeds with files that work (geo.go:127-178).
KeepsUpdating == upd # "off" => []<>(upd = "updated" /\ installed \in Works)
=============================================================================
