---------------------------- MODULE DaemonControl ----------------------------
(***************************************************************************)
(* The commands start, stop and restart of an installation without systemd *)
(* (cli.go, panel.go, kill_unix.go, daemon_unix.go, procident_linux.go),   *)
(* the life of the agents they start and end (main.go), and the one xray   *)
(* that all of these processes start and stop through the same xray.pid    *)
(* (xrayproc.go).  Nothing is locked between processes: agent.pid,         *)
(* xray.pid and the list of processes are all they know of each other.     *)
(*                                                                         *)
(* A step is what happens between two waits or two system calls that       *)
(* others can see.  A terminal runs one command at a time; a foreground    *)
(* agent (xray-agent run) belongs to no terminal of the model.             *)
(*                                                                         *)
(* Abstracted: time (3 s, 5 s and the second that start waits are over at  *)
(* any moment); why an xray does not start and the watchdog's limits       *)
(* (XrayProc; here every configuration starts); what an agent does while   *)
(* it is up.  Process ids of agents are not used again.                    *)
(***************************************************************************)
EXTENDS Naturals, FiniteSets

CONSTANTS
    Terminal,
    MaxAgents, MaxXrays,      \* bounds: process ids
    MaxCommands, MaxKills,    \* bounds: commands, processes that die by themselves
    NoPid

AgentId == 1 .. MaxAgents
XrayId  == 1 .. MaxXrays
Owner   == AgentId \cup Terminal       \* those that have an xrayproc.Proc

ASSUME DaemonAssumption ==
    /\ MaxAgents \in Nat /\ MaxXrays \in Nat
    /\ MaxCommands \in Nat /\ MaxKills \in Nat
    /\ NoPid \notin AgentId \cup XrayId
    /\ Terminal \cap AgentId = {}

VARIABLES
    agent,      \* how far main() of an agent is
    started,    \* Proc.started of an agent
    reviving,        \* its watchdog has seen xray dead and is about to start it
    proc,       \* the Start or Stop a process is in, and the xray it holds
    xray,       \* the xray processes
    xrayPid,    \* xray.pid
    agentPid,   \* agent.pid
    cmd,        \* the command of each terminal
    calm,       \* commands and foreground agents came one after another (history)
    unrecorded, \* xray processes whose starter died before writing xray.pid (history)
    commands, kills

daemonVars == <<agent, started, reviving, proc, xray, xrayPid, agentPid, cmd,
                calm, unrecorded, commands, kills>>
xrays  == <<proc, xray, xrayPid, unrecorded>>
agents == <<agent, started, reviving>>

NoCommand == [op |-> "none", at |-> "idle", pids |-> {}, child |-> NoPid]
FreeProc  == [at |-> "free", pid |-> NoPid]

DaemonInit ==
    /\ agent = [p \in AgentId |-> "none"]
    /\ started = [p \in AgentId |-> FALSE]
    /\ reviving = [p \in AgentId |-> FALSE]
    /\ proc = [o \in Owner |-> FreeProc]
    /\ xray = [x \in XrayId |-> "none"]
    /\ xrayPid = NoPid /\ agentPid = NoPid
    /\ cmd = [t \in Terminal |-> NoCommand]
    /\ calm = TRUE /\ unrecorded = {}
    /\ commands = 0 /\ kills = 0

Busy == {t \in Terminal : cmd[t].op # "none"}
Alive == {p \in AgentId : agent[p] \notin {"none", "gone"}}
Booting == {p \in AgentId : agent[p] \in {"load", "cleanup", "wait", "boot", "begin"}}
Booted == {p \in AgentId : agent[p] \in {"up", "stop", "leave"}}
XrayAlive(x) == x # NoPid /\ xray[x] # "none"
IsRunning == XrayAlive(xrayPid)

(***************************************************************************)
(* xrayproc: Start and Stop by process o.  The lock of o's Proc is held    *)
(* while proc[o] is not free.                                              *)
(***************************************************************************)
UnusedXray ==
    {x \in XrayId : /\ xray[x] = "none" /\ x # xrayPid
                    /\ \A o \in Owner : proc[o].pid # x}

StartLocked(o) ==
    /\ proc[o].at = "free"
    /\ \/ /\ IsRunning
          /\ UNCHANGED <<proc, xray>>
       \/ /\ ~IsRunning
          /\ \E x \in UnusedXray :
                /\ \A y \in UnusedXray : x <= y
                /\ xray' = [xray EXCEPT ![x] = "running"]
                /\ proc' = [proc EXCEPT ![o] = [at |-> "spawned", pid |-> x]]
    /\ UNCHANGED <<xrayPid, unrecorded>>

WriteXrayPid(o) ==
    /\ proc[o].at = "spawned"
    /\ xrayPid' = proc[o].pid
    /\ proc' = [proc EXCEPT ![o] = FreeProc]
    /\ UNCHANGED <<agents, xray, agentPid, cmd, calm, unrecorded, commands, kills>>

StopLocked(o) ==
    /\ proc[o].at = "free"
    /\ \/ /\ ~IsRunning
          /\ xrayPid' = NoPid
          /\ UNCHANGED <<proc, xray>>
       \/ /\ IsRunning
          /\ xray' = [xray EXCEPT ![xrayPid] = "ending"]
          /\ proc' = [proc EXCEPT ![o] = [at |-> "stopping", pid |-> xrayPid]]
          /\ UNCHANGED xrayPid
    /\ UNCHANGED unrecorded

(* The process is gone, or five seconds are over and it is killed.         *)
StopEnds(o) ==
    /\ proc[o].at = "stopping"
    /\ xray' = [xray EXCEPT ![proc[o].pid] = "none"]
    /\ xrayPid' = NoPid
    /\ proc' = [proc EXCEPT ![o] = FreeProc]
    /\ UNCHANGED <<agents, agentPid, cmd, calm, unrecorded, commands, kills>>

XrayExits(x) ==
    /\ xray[x] = "ending"
    /\ xray' = [xray EXCEPT ![x] = "none"]
    /\ unrecorded' = unrecorded \ {x}
    /\ UNCHANGED <<agents, proc, xrayPid, agentPid, cmd, calm, commands, kills>>

(***************************************************************************)
(* The end of processes, whatever they are doing.                          *)
(***************************************************************************)
Held(O) == {proc[o].pid : o \in {o \in O : proc[o].at = "spawned"}}

ProcessesEnd(P, T) ==     \* agents P and commands T
    /\ agent' = [p \in AgentId |->
                   IF p \in P THEN "gone" ELSE agent[p]]
    /\ reviving' = [p \in AgentId |-> reviving[p] /\ p \notin P]
    /\ proc' = [o \in Owner |-> IF o \in P \cup T THEN FreeProc ELSE proc[o]]
    /\ unrecorded' = unrecorded \cup Held(P \cup T)
    /\ UNCHANGED <<started, xray, xrayPid>>

(* SIGTERM: an agent that is up begins its exit, one that is exiting goes  *)
(* on, and any other process has no handler yet, or never, and ends.       *)
SIGTERM(P, T) ==
    LET ends == P \cap Booting
    IN  /\ agent' = [p \in AgentId |->
                       IF p \in ends THEN "gone"
                       ELSE IF p \in P /\ agent[p] = "up" THEN "stop"
                       ELSE agent[p]]
        /\ reviving' = [p \in AgentId |-> reviving[p] /\ p \notin ends]
        /\ proc' = [o \in Owner |->
                      IF o \in ends \cup T THEN FreeProc ELSE proc[o]]
        /\ unrecorded' = unrecorded \cup Held(ends \cup T)
        /\ UNCHANGED <<started, xray, xrayPid>>

(***************************************************************************)
(* main(): an agent from its start to its end.                             *)
(***************************************************************************)
LoadConfig(p) ==
    /\ agent[p] = "load"
    /\ agent' = [agent EXCEPT ![p] = "cleanup"]
    /\ UNCHANGED <<started, reviving, xrays, agentPid, cmd, calm, commands, kills>>

CleanupStale(p) ==
    /\ agent[p] = "cleanup"
    /\ agent' = [agent EXCEPT ![p] = "wait"]
    /\ xray' = [x \in XrayId |-> IF xray[x] = "running" THEN "ending" ELSE xray[x]]
    /\ UNCHANGED <<started, reviving, proc, xrayPid, unrecorded, agentPid, cmd, calm,
                   commands, kills>>

(* mutant: a start that finds xray alive leaves started as it is           *)
SetsStartedOnSpawn(p) == started' = [started EXCEPT ![p] = @ \/ ~IsRunning]

(* They are gone, or three seconds are over.                               *)
CleanupEnds(p) ==
    /\ agent[p] = "wait"
    /\ agent' = [agent EXCEPT ![p] = "boot"]
    /\ UNCHANGED <<started, reviving, xrays, agentPid, cmd, calm, commands, kills>>

SetsStarted(p) == started' = [started EXCEPT ![p] = TRUE]

StartAtBoot(p) ==
    /\ agent[p] = "boot"
    /\ StartLocked(p)
    /\ SetsStarted(p)
    /\ agent' = [agent EXCEPT ![p] = "begin"]
    /\ UNCHANGED <<reviving, agentPid, cmd, calm, commands, kills>>

Run(p) ==
    /\ agent[p] = "begin" /\ proc[p].at = "free"
    /\ agent' = [agent EXCEPT ![p] = "up"]
    /\ UNCHANGED <<started, reviving, xrays, agentPid, cmd, calm, commands, kills>>

(* check() decides under the lock; Start() takes it again, and by then     *)
(* anything may have happened.  The exit does not wait for the watchdog.   *)
Check(p) ==
    /\ agent[p] = "up" /\ ~reviving[p] /\ proc[p].at = "free"
    /\ started[p] /\ ~IsRunning
    /\ reviving' = [reviving EXCEPT ![p] = TRUE]
    /\ UNCHANGED <<agent, started, xrays, agentPid, cmd, calm, commands, kills>>

CheckStarts(p) ==
    /\ reviving[p]
    /\ StartLocked(p)
    /\ SetsStarted(p)
    /\ reviving' = [reviving EXCEPT ![p] = FALSE]
    /\ UNCHANGED <<agent, agentPid, cmd, calm, commands, kills>>

StopAtExit(p) ==
    /\ agent[p] = "stop"
    /\ StopLocked(p)
    /\ started' = [started EXCEPT ![p] = FALSE]
    /\ agent' = [agent EXCEPT ![p] = "leave"]
    /\ UNCHANGED <<reviving, agentPid, cmd, calm, commands, kills>>

Exit(p) ==
    /\ agent[p] = "leave" /\ proc[p].at # "stopping"
    /\ ProcessesEnd({p}, {})
    /\ UNCHANGED <<agentPid, cmd, calm, commands, kills>>

(***************************************************************************)
(* The commands.  As a bound, none begins after two that ran beside each   *)
(* other: the properties are about commands one after another.             *)
(***************************************************************************)
(* kill(pid, 0): a child that has ended is still there for its parent,     *)
(* which does not wait for it, and for everyone else until the parent ends *)
Zombie(p) == agent[p] = "gone" /\ \E t \in Busy : cmd[t].child = p
ProcessAlive(p) == p \in Alive \/ Zombie(p)

(* mutant: only agent.pid is asked                                         *)
AgentPidsByFile == {p \in {agentPid} \ {NoPid} : ProcessAlive(p)}

(* agentPids: what agent.pid names, and every process that is called       *)
(* xray-agent, which the commands of the other terminals are too.          *)
AgentPids == Alive \cup {p \in {agentPid} \ {NoPid} : ProcessAlive(p)}
OtherCommands(t) == Busy \ {t}

Goes(t, place) == cmd' = [cmd EXCEPT ![t].at = place]
Ends(t) == cmd' = [cmd EXCEPT ![t] = NoCommand]

Begin(t, op) ==
    /\ t \notin Busy
    /\ calm /\ commands < MaxCommands /\ commands' = commands + 1
    /\ calm' = (calm /\ Busy = {})
    /\ cmd' = [cmd EXCEPT ![t] = [NoCommand EXCEPT !.op = op, !.at = "look"]]
    /\ UNCHANGED <<agents, xrays, agentPid, kills>>

(* xray-agent run, from a shell; an operator may do so at any time.        *)
Foreground(p) ==
    /\ agent[p] = "none" /\ \A q \in 1 .. p - 1 : agent[q] # "none"
    /\ calm /\ commands < MaxCommands /\ commands' = commands + 1
    /\ calm' = (calm /\ Busy = {} /\ Alive = {})
    /\ agent' = [agent EXCEPT ![p] = "load"]
    /\ UNCHANGED <<started, reviving, xrays, agentPid, cmd, kills>>

LookFindsNone(t) ==
    /\ cmd[t].at = "look"
    /\ AgentPids = {} /\ OtherCommands(t) = {}
    /\ Goes(t, CASE cmd[t].op = "start"   -> "spawn"
                 [] cmd[t].op = "stop"    -> "remove"
                 [] cmd[t].op = "restart" -> "stopXray")
    /\ UNCHANGED <<agents, xrays, agentPid, calm, commands, kills>>

StartFindsOne(t) ==       \* already running
    /\ cmd[t].op = "start" /\ cmd[t].at = "look"
    /\ AgentPids # {} \/ OtherCommands(t) # {}
    /\ Ends(t)
    /\ UNCHANGED <<agents, xrays, agentPid, calm, commands, kills>>

(* killPids: SIGTERM to all, three seconds, SIGKILL to all.                *)
LookAndTerm(t) ==
    /\ cmd[t].op \in {"stop", "restart"} /\ cmd[t].at = "look"
    /\ AgentPids # {} \/ OtherCommands(t) # {}
    /\ SIGTERM(AgentPids, OtherCommands(t))
    /\ cmd' = [u \in Terminal |->
                 IF u = t THEN [cmd[t] EXCEPT !.at = "kill", !.pids = AgentPids]
                 ELSE NoCommand]
    /\ UNCHANGED <<agentPid, calm, commands, kills>>

AllGone(t) ==
    /\ cmd[t].at = "kill"
    /\ \A p \in cmd[t].pids : ~ProcessAlive(p)
    /\ Goes(t, "remove")
    /\ UNCHANGED <<agents, xrays, agentPid, calm, commands, kills>>

SIGKILL(t) ==
    /\ cmd[t].at = "kill"
    /\ \E p \in cmd[t].pids : ProcessAlive(p)
    /\ ProcessesEnd(cmd[t].pids, {})
    /\ Goes(t, "remove")
    /\ UNCHANGED <<agentPid, calm, commands, kills>>

RemovePidFile(t) ==
    /\ cmd[t].at = "remove"
    /\ agentPid' = NoPid
    /\ Goes(t, IF cmd[t].op = "stop" THEN "report" ELSE "spawn")
    /\ UNCHANGED <<agents, xrays, calm, commands, kills>>

(* startManual, which does not look again.                                 *)
SpawnDetached(t) ==
    /\ cmd[t].at = "spawn"
    /\ \E p \in AgentId :
          /\ agent[p] = "none" /\ \A q \in 1 .. p - 1 : agent[q] # "none"
          /\ agent' = [agent EXCEPT ![p] = "load"]
          /\ cmd' = [cmd EXCEPT ![t].at = "write", ![t].child = p]
    /\ UNCHANGED <<started, reviving, xrays, agentPid, calm, commands, kills>>

WriteAgentPid(t) ==
    /\ cmd[t].at = "write"
    /\ agentPid' = cmd[t].child
    /\ Goes(t, "confirm")
    /\ UNCHANGED <<agents, xrays, calm, commands, kills>>

WaitAlive(t) ==
    /\ cmd[t].at = "confirm"
    /\ agentPid' = IF ProcessAlive(cmd[t].child) THEN agentPid ELSE NoPid
    /\ Ends(t)
    /\ UNCHANGED <<agents, xrays, calm, commands, kills>>

(* mutant: what is left is only reported                                   *)
ReportOnly(t) ==
    /\ cmd[t].at = "report"
    /\ Goes(t, "end")
    /\ UNCHANGED <<agents, xrays, agentPid, calm, commands, kills>>

(* reportXrayStopped: what an agent that was killed has left.              *)
ReportXrayStopped(t) ==
    /\ cmd[t].at = "report"
    /\ \/ ~IsRunning /\ UNCHANGED xrays
       \/ IsRunning /\ StopLocked(t)
    /\ Goes(t, "end")
    /\ UNCHANGED <<agents, agentPid, calm, commands, kills>>

(* restart without an agent restarts xray alone.                           *)
RestartStops(t) ==
    /\ cmd[t].at = "stopXray"
    /\ StopLocked(t)
    /\ Goes(t, "startXray")
    /\ UNCHANGED <<agents, agentPid, calm, commands, kills>>

RestartStarts(t) ==
    /\ cmd[t].at = "startXray"
    /\ StartLocked(t)
    /\ Goes(t, "end")
    /\ UNCHANGED <<agents, agentPid, calm, commands, kills>>

CommandEnds(t) ==
    /\ cmd[t].at = "end" /\ proc[t].at = "free"
    /\ Ends(t)
    /\ UNCHANGED <<agents, xrays, agentPid, calm, commands, kills>>

(***************************************************************************)
(* A process may die by itself: the agent, or an xray (one that outlived   *)
(* the agent that read its output dies of it).                             *)
(***************************************************************************)
AgentDies(p) ==
    /\ p \in Alive
    /\ kills < MaxKills /\ kills' = kills + 1
    /\ ProcessesEnd({p}, {})
    /\ UNCHANGED <<agentPid, cmd, calm, commands>>

XrayDies(x) ==
    /\ xray[x] = "running"
    /\ kills < MaxKills /\ kills' = kills + 1
    /\ xray' = [xray EXCEPT ![x] = "none"]
    /\ unrecorded' = unrecorded \ {x}
    /\ UNCHANGED <<agents, proc, xrayPid, agentPid, cmd, calm, commands>>

AgentStep(p) ==
    \/ LoadConfig(p) \/ CleanupStale(p) \/ CleanupEnds(p) \/ StartAtBoot(p) \/ Run(p)
    \/ Check(p) \/ CheckStarts(p) \/ StopAtExit(p) \/ Exit(p)

CommandStep(t) ==
    \/ LookFindsNone(t) \/ StartFindsOne(t) \/ LookAndTerm(t) \/ AllGone(t) \/ SIGKILL(t)
    \/ RemovePidFile(t) \/ SpawnDetached(t) \/ WriteAgentPid(t) \/ WaitAlive(t)
    \/ ReportXrayStopped(t) \/ RestartStops(t) \/ RestartStarts(t) \/ CommandEnds(t)

ProcStep(o) == WriteXrayPid(o) \/ StopEnds(o)

DaemonNext ==
    \/ \E p \in AgentId : AgentStep(p) \/ Foreground(p) \/ AgentDies(p)
    \/ \E t \in Terminal : CommandStep(t)
    \/ \E t \in Terminal, op \in {"start", "stop", "restart"} : Begin(t, op)
    \/ \E o \in Owner : ProcStep(o)
    \/ \E x \in XrayId : XrayExits(x) \/ XrayDies(x)

(***************************************************************************)
(* The threads of an agent and of a command keep running while it lives,   *)
(* and an xray that was asked to end does.  Nothing makes an operator give *)
(* a command, or a process die by itself.                                  *)
(***************************************************************************)
DaemonFairness ==
    /\ \A p \in AgentId :
          /\ WF_daemonVars(LoadConfig(p) \/ CleanupStale(p) \/ CleanupEnds(p)
                           \/ StartAtBoot(p) \/ Run(p))
          /\ WF_daemonVars(Check(p) \/ CheckStarts(p))
          /\ WF_daemonVars(StopAtExit(p) \/ Exit(p))
    /\ \A t \in Terminal : WF_daemonVars(CommandStep(t))
    /\ \A o \in Owner : WF_daemonVars(ProcStep(o))
    /\ \A x \in XrayId : WF_daemonVars(XrayExits(x))

DaemonSpec == DaemonInit /\ [][DaemonNext]_daemonVars
FairDaemonSpec == DaemonSpec /\ DaemonFairness

(***************************************************************************)
(* Properties                                                              *)
(***************************************************************************)
(* An xray is held only by a live process, xray.pid names an id that was   *)
(* used, and only an agent that is up has a watchdog about to start xray.  *)
DaemonTypeOK ==
    /\ agent \in [AgentId -> {"none", "load", "cleanup", "wait", "boot", "begin",
                              "up", "stop", "leave", "gone"}]
    /\ started \in [AgentId -> BOOLEAN] /\ reviving \in [AgentId -> BOOLEAN]
    /\ \A o \in Owner :
          \/ proc[o] = FreeProc
          \/ proc[o].at \in {"spawned", "stopping"} /\ proc[o].pid \in XrayId
    /\ xray \in [XrayId -> {"none", "running", "ending"}]
    /\ xrayPid \in XrayId \cup {NoPid} /\ agentPid \in AgentId \cup {NoPid}
    /\ \A p \in AgentId : reviving[p] => p \in Booted
    /\ \A p \in AgentId : proc[p] # FreeProc => p \in Alive
    /\ \A t \in Terminal : proc[t] # FreeProc => t \in Busy
    /\ unrecorded \subseteq XrayId

(* cli.go:430-463, "make it clear to the operator that it is all stopped": *)
(* when a stop that nothing else ran beside ends, no agent lives, and no   *)
(* xray but one that its starter had no time to record in xray.pid.        *)
StopLeavesNothing ==
    calm => \A t \in Terminal :
              cmd[t].op = "stop" /\ cmd[t].at = "end" /\ proc[t].at = "free"
                  => Alive = {} /\ \A x \in XrayId : xray[x] # "none" => x \in unrecorded

(* main.go:53 forbids a second instance, two of which end each other's     *)
(* xray: unless commands ran beside each other, or an operator ran one in  *)
(* the foreground beside another, there is never more than one agent.      *)
OneAgent == calm => Cardinality(Alive) <= 1

(* While one agent at a time is up, there is no xray but the one it knows: *)
(* what an earlier agent or command left is ending before it starts its    *)
(* own (main.go:97, CleanupStale).                                         *)
OneXray ==
    calm => \A p \in AgentId :
              agent[p] = "up" /\ proc[p].at = "free"
                  => \A x \in XrayId : xray[x] = "running" => x = xrayPid

(* An agent that stays up has a running xray, whatever the agent before    *)
(* it, a restart in between or xray's own end left it with                 *)
(* (xrayproc.go:291-298: also a start that finds xray alive counts).       *)
StaysServed ==
    <>[](calm /\ (\E p \in AgentId : agent[p] = "up")
            => IsRunning /\ xray[xrayPid] = "running")

(* One agent and one xray, after any commands that did not overlap and any *)
(* deaths.                                                                 *)
OneOfEach == OneAgent /\ OneXray

=============================================================================
