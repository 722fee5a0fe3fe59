-------------------------------- MODULE MCNode --------------------------------
(***************************************************************************)
(* Three parts of the agent that share no state, checked in one run: its   *)
(* loops, the update of the geo files, and the control of the daemon.  A   *)
(* behaviour is one of a single part, which the initial state chooses; the *)
(* others stand still in a state where none of their fair actions is       *)
(* enabled.                                                                *)
(***************************************************************************)
EXTENDS MCAgentLoops, MCGeoUpdate, DaemonControl

\* The files that stand still are ones that work together.
ASSUME NodeAssumption == Works # {}

VARIABLE active

allVars == <<loopVars, geoVars, daemonVars, active>>

LoopsStandStill ==
    /\ rt = [f \in Field |-> 0]
    /\ queue = [l \in Loop |-> 0] /\ missed = {}
    /\ loop = [l \in Loop |-> "ended"]
    /\ period = [l \in Loop |-> 0]
    /\ late = [l \in Loop |-> "none"]
    /\ kick = FALSE /\ conn = "serve" /\ ws = "open"
    /\ health = 0 /\ told = 0 /\ frame = [now |-> 0, late |-> 0]
    /\ pushes = 0 /\ breaks = 0

GeoStandsStill ==
    /\ installed = (CHOOSE d \in Works : TRUE) /\ prev = NoFile /\ before = NoFile
    /\ rep = [w \in Writer |-> None] /\ sync = {}
    /\ upd = "off" /\ data = NoFile /\ done = <<>>
    /\ clean = TRUE /\ spoilt = FALSE /\ overlapped = {}
    /\ geoFaults = 0 /\ syncs = 0

NodeInit ==
    /\ active \in {"loops", "geo", "daemon"}
    /\ IF active = "loops" THEN LoopsInit ELSE LoopsStandStill
    /\ IF active = "geo" THEN GeoInit /\ installed # NoFile ELSE GeoStandsStill
    /\ DaemonInit

NodeNext ==
    \/ active = "loops"  /\ LoopsNext  /\ UNCHANGED <<geoVars, daemonVars, active>>
    \/ active = "geo"    /\ GeoNext    /\ UNCHANGED <<loopVars, daemonVars, active>>
    \/ active = "daemon" /\ DaemonNext /\ UNCHANGED <<loopVars, geoVars, active>>

NodeSpec == NodeInit /\ [][NodeNext]_allVars
            /\ LoopsFairness /\ GeoFairness /\ DaemonFairness

\* The type invariants of the three parts; that of the loops says that no ticker is made
\* with a period of zero, that of the daemon which processes may hold an xray.
NodeTypeOK == LoopsTypeOK /\ GeoTypeOK /\ DaemonTypeOK

===============================================================================
