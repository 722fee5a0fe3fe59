------------------------------- MODULE MCStores -------------------------------
(***************************************************************************)
(* The parts of the agent that keep files and buffers, checked in one run. *)
(* They share no state: a behaviour is one of a single part, which the     *)
(* initial state chooses, and the others stand still in their first state. *)
(***************************************************************************)
EXTENDS Outbox, NodeFiles, LogWindow, LogBuffers, SelfUpgrade, MCGeoUpdate,
        TLC

VARIABLE part

storeVars == <<outboxVars, nodeVars, logVars, bufferVars, selfVars, geoVars, part>>

StoresInit ==
    /\ part \in {"outbox", "files", "log", "buffers", "self", "geo"}
    /\ Init /\ FilesInit /\ BuffersInit
    /\ LogInit /\ (part # "log" => written = 0)
    /\ SelfInit /\ (part # "self" => exe = 1)
    /\ GeoInit /\ (part # "geo" => installed = NoFile /\ upd = "off")

StoresNext ==
    \/ /\ part = "outbox" /\ Next
       /\ UNCHANGED <<nodeVars, logVars, bufferVars, selfVars, geoVars, part>>
    \/ /\ part = "files" /\ FilesNext
       /\ UNCHANGED <<outboxVars, logVars, bufferVars, selfVars, geoVars, part>>
    \/ /\ part = "log" /\ LogNext
       /\ UNCHANGED <<outboxVars, nodeVars, bufferVars, selfVars, geoVars, part>>
    \/ /\ part = "buffers" /\ BuffersNext
       /\ UNCHANGED <<outboxVars, nodeVars, logVars, selfVars, geoVars, part>>
    \/ /\ part = "self" /\ SelfNext
       /\ UNCHANGED <<outboxVars, nodeVars, logVars, bufferVars, geoVars, part>>
    \/ /\ part = "geo" /\ GeoNext
       /\ UNCHANGED <<outboxVars, nodeVars, logVars, bufferVars, selfVars, part>>

\* The entries of a batch are only compared.
Symmetry == Permutations(Entry)

StoresSpec == StoresInit /\ [][StoresNext]_storeVars

\* The type invariants of the six parts, each where it moves; that of SelfUpgrade says that
\* the program is a whole one, that of LogWindow which file the writer has open at which step.
StoresTypeOK ==
    /\ part = "outbox" => TypeOK
    /\ part = "files" => FilesTypeOK
    /\ part = "log" => LogTypeOK
    /\ part = "buffers" => BuffersTypeOK
    /\ part = "self" => SelfTypeOK
    /\ part = "geo" => GeoTypeOK

===============================================================================
