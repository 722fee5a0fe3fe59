------------------------------ MODULE AgentLoops ------------------------------
(***************************************************************************)
(* The periodic loops of the client (client.go): collectLoop, reportLoop   *)
(* and onlinePullLoop live as long as the process, heartbeatLoop and       *)
(* metricsLoop as long as one connection.  Three things reach them from    *)
(* other goroutines: agent_settings, which changes their periods through a *)
(* one-slot channel each; heartbeatKick, the supervisor's alert; and the   *)
(* end of the connection.                                                  *)
(*                                                                         *)
(* A loop whose connection has ended is cancelled, but learns of it only   *)
(* when its select picks ctx.Done: until then it may still pick a tick, a  *)
(* kick or a reset, and what it sends goes to c.ws, the connection of now. *)
(* Such a loop is called late.                                             *)
(*                                                                         *)
(* Abstracted: what the frames carry besides the supervisor's health, the  *)
(* report kick (TrafficDelivery), time (a ticker may fire at any moment;   *)
(* only its period is kept) and the backoff between two connections.       *)
(***************************************************************************)
EXTENDS Naturals

CONSTANTS
    Loop,           \* the loops of this instance, see AllLoops
    Payload,        \* the settings the master may push: [Field -> Nat], 0 = not given
    Yaml,           \* agent.yaml: [Field -> Nat]
    CollectYaml,    \* stats.collect_interval
    MaxInterval,    \* maxSettingsInterval
    MaxPushes, MaxAlerts, MaxBreaks    \* bounds

Field    == {"report", "heartbeat", "metrics"}
PerConn  == {"heartbeat", "metrics"}
AllLoops == {"collect", "report", "online"} \cup PerConn

ASSUME LoopAssumption == Loop \subseteq AllLoops /\ "heartbeat" \in Loop
ASSUME SettingsAssumption ==
    /\ Payload \subseteq [Field -> Nat]
    /\ Yaml \in [Field -> Nat \ {0}]
    /\ CollectYaml \in Nat \ {0}
    /\ MaxInterval \in Nat /\ MaxInterval >= 3
ASSUME BoundAssumption == MaxPushes \in Nat /\ MaxAlerts \in Nat /\ MaxBreaks \in Nat

VARIABLES
    rt,        \* rtReport, rtHeartbeat, rtMetrics: [Field -> Nat]
    queue,     \* the five reset channels: 0 = empty
    missed,    \* loops whose last change of period was dropped or taken by a late loop (history)
    loop,      \* the loop goroutine of the process or of this connection
    period,    \* its ticker
    late,      \* the loop of an earlier connection that has not noticed
    kick,      \* heartbeatKick
    conn, ws,  \* connectAndServe's progress, and its socket
    health,    \* the supervisor's health: alerts raised so far
    frame,     \* the health in the heartbeat being written: by this loop, by the late one
    told,      \* the health in the last heartbeat the master received
    pushes, breaks    \* counters of the bounds

settingVars == <<rt, queue, missed, pushes>>
connVars    == <<conn, ws, breaks>>
beatVars    == <<kick, frame, told>>
loopVars    == <<settingVars, connVars, beatVars, loop, period, late, health>>

Waiting == {"select", "tick", "kick"}     \* in select; handling a tick; a kick

-----------------------------------------------------------------------------
(* The settings in force *)

Least(m, n) == IF m < n THEN m ELSE n

ClampInterval(d, least) == IF d < least THEN least ELSE Least(d, MaxInterval)

MinInterval == [report |-> 3, heartbeat |-> 1, metrics |-> 1]

\* Mutant of Given: agent.yaml is not the fallback.
GivenOnly(r, f) == r[f]

Given(r, f) == IF r[f] > 0 THEN r[f] ELSE Yaml[f]

\* effectiveReport, effectiveHeartbeat, effectiveMetrics, effectiveCollect: the
\* period that a loop should run at under the settings r.
PeriodUnder(r, l) ==
    IF l = "collect" THEN Least(CollectYaml, Given(r, "report"))
    ELSE IF l = "online" THEN Given(r, "heartbeat")
    ELSE Given(r, l)

Effective(l) == PeriodUnder(rt, l)

Settled(r, p) ==
    [f \in Field |-> IF p[f] > 0 THEN ClampInterval(p[f], MinInterval[f]) ELSE r[f]]

\* Mutant of ApplyAgentSettings: the loops are notified before the fields are assigned.
NotifyBeforeAssign(p) ==
    /\ conn = "serve" /\ ws = "open" /\ pushes < MaxPushes
    /\ pushes' = pushes + 1
    /\ rt' = Settled(rt, p)
    /\ IF rt' = rt
       THEN UNCHANGED <<queue, missed>>
       ELSE /\ queue' = [l \in Loop |-> IF queue[l] = 0 THEN Effective(l) ELSE queue[l]]
            /\ missed' = {l \in Loop : queue[l] # 0 /\ queue'[l] # PeriodUnder(rt', l)}
    /\ UNCHANGED <<connVars, beatVars, loop, period, late, health>>

\* applyAgentSettings: a push that changes nothing notifies nobody; otherwise each
\* loop's channel gets the period in force, unless it still holds an earlier one.
ApplyAgentSettings(p) ==
    /\ conn = "serve" /\ ws = "open" /\ pushes < MaxPushes
    /\ pushes' = pushes + 1
    /\ rt' = Settled(rt, p)
    /\ IF rt' = rt
       THEN UNCHANGED <<queue, missed>>
       ELSE /\ queue' = [l \in Loop |-> IF queue[l] = 0 THEN PeriodUnder(rt', l) ELSE queue[l]]
            /\ missed' = {l \in Loop : queue'[l] # PeriodUnder(rt', l)}
    /\ UNCHANGED <<connVars, beatVars, loop, period, late, health>>

-----------------------------------------------------------------------------
(* The loops *)

\* NewTicker(effective...()) in the new goroutine.
BeginLoop(l) ==
    /\ loop[l] = "new"
    /\ loop' = [loop EXCEPT ![l] = "select"]
    /\ period' = [period EXCEPT ![l] = Effective(l)]
    /\ missed' = IF queue[l] = 0 THEN missed \ {l} ELSE missed
    /\ UNCHANGED <<rt, queue, pushes, connVars, beatVars, late, health>>

\* case d := <-reset: ticker.Reset(d)
TakeReset(l) ==
    /\ loop[l] = "select" /\ queue[l] > 0
    /\ period' = [period EXCEPT ![l] = queue[l]]
    /\ queue' = [queue EXCEPT ![l] = 0]
    /\ UNCHANGED <<rt, missed, pushes, connVars, beatVars, loop, late, health>>

TickerFires(l) ==
    /\ loop[l] = "select"
    /\ loop' = [loop EXCEPT ![l] = "tick"]
    /\ frame' = IF l = "heartbeat" THEN [frame EXCEPT !.now = health] ELSE frame
    /\ UNCHANGED <<settingVars, connVars, kick, told, period, late, health>>

\* One round of collectLoop, reportLoop or onlinePullLoop is over.
RoundDone(l) ==
    /\ l \notin PerConn /\ loop[l] = "tick"
    /\ loop' = [loop EXCEPT ![l] = "select"]
    /\ UNCHANGED <<settingVars, connVars, beatVars, period, late, health>>

TakeKick ==
    /\ loop["heartbeat"] = "select" /\ kick
    /\ kick' = FALSE
    /\ loop' = [loop EXCEPT !["heartbeat"] = "kick"]
    /\ frame' = [frame EXCEPT !.now = health]
    /\ UNCHANGED <<settingVars, connVars, told, period, late, health>>

\* What a heartbeat written now tells the master: nothing on a socket whose network is
\* gone; before auth_ok the master may have dropped it.
Receives(who) ==
    \/ ws = "open" /\ told' = frame[who]
    \/ (ws # "open" \/ conn = "auth") /\ told' = told

Sent(l, who) == IF l = "heartbeat" THEN [frame EXCEPT ![who] = 0] ELSE frame

\* send of sendHeartbeat or sendMetrics succeeds (a socket whose network is gone may still
\* take it).  After a kick the ticker starts again at the period in force.
WriteOk(l) ==
    /\ l \in PerConn /\ loop[l] \in {"tick", "kick"} /\ ws # "closed"
    /\ IF l = "heartbeat" THEN Receives("now") ELSE told' = told
    /\ IF loop[l] = "kick"
       THEN /\ period' = [period EXCEPT ![l] = Effective(l)]
            /\ missed' = IF queue[l] = 0 THEN missed \ {l} ELSE missed
       ELSE UNCHANGED <<period, missed>>
    /\ loop' = [loop EXCEPT ![l] = "select"]
    /\ frame' = Sent(l, "now")
    /\ UNCHANGED <<rt, queue, pushes, connVars, kick, late, health>>

\* Mutant of WriteFails: the loop ends and leaves the socket open.
EndsQuietly(l) ==
    /\ l \in PerConn /\ loop[l] \in {"tick", "kick"}
    /\ IF ws = "open" THEN breaks < MaxBreaks /\ breaks' = breaks + 1 ELSE UNCHANGED breaks
    /\ loop' = [loop EXCEPT ![l] = "ended"] /\ period' = [period EXCEPT ![l] = 0]
    /\ frame' = Sent(l, "now")
    /\ UNCHANGED <<settingVars, conn, ws, kick, told, late, health>>

\* A failed write closes the socket, which wakes the read loop, and ends this loop.
\* A write on a good socket fails when it stalls past its deadline: a fault.
WriteFails(l) ==
    /\ l \in PerConn /\ loop[l] \in {"tick", "kick"}
    /\ IF ws = "open" THEN breaks < MaxBreaks /\ breaks' = breaks + 1 ELSE UNCHANGED breaks
    /\ ws' = "closed"
    /\ loop' = [loop EXCEPT ![l] = "ended"] /\ period' = [period EXCEPT ![l] = 0]
    /\ frame' = Sent(l, "now")
    /\ UNCHANGED <<settingVars, conn, kick, told, late, health>>

-----------------------------------------------------------------------------
(* A late loop: cancelled, its own socket closed *)

LateDone(l) ==
    /\ late[l] = "select"
    /\ late' = [late EXCEPT ![l] = "none"]
    /\ UNCHANGED <<settingVars, connVars, beatVars, loop, period, health>>

LateReset(l) ==
    /\ late[l] = "select" /\ queue[l] > 0
    /\ queue' = [queue EXCEPT ![l] = 0]
    /\ missed' = missed \cup {l}
    /\ UNCHANGED <<rt, pushes, connVars, beatVars, loop, period, late, health>>

LateTick(l) ==
    /\ late[l] = "select"
    /\ late' = [late EXCEPT ![l] = "tick"]
    /\ frame' = IF l = "heartbeat" THEN [frame EXCEPT !.late = health] ELSE frame
    /\ UNCHANGED <<settingVars, connVars, kick, told, loop, period, health>>

LateKick ==
    /\ late["heartbeat"] = "select" /\ kick
    /\ kick' = FALSE
    /\ late' = [late EXCEPT !["heartbeat"] = "kick"]
    /\ frame' = [frame EXCEPT !.late = health]
    /\ UNCHANGED <<settingVars, connVars, told, loop, period, health>>

\* send writes to c.ws: the socket of the connection of now.
LateWriteOk(l) ==
    /\ late[l] \in {"tick", "kick"} /\ conn # "down" /\ ws # "closed"
    /\ IF l = "heartbeat" THEN Receives("late") ELSE told' = told
    /\ late' = [late EXCEPT ![l] = "select"]
    /\ frame' = Sent(l, "late")
    /\ UNCHANGED <<settingVars, connVars, kick, loop, period, health>>

\* errNoConn, or the write failed; the socket it closes is its own.
LateWriteFails(l) ==
    /\ late[l] \in {"tick", "kick"} /\ (conn = "down" \/ ws # "open")
    /\ late' = [late EXCEPT ![l] = "none"]
    /\ frame' = Sent(l, "late")
    /\ UNCHANGED <<settingVars, connVars, kick, told, loop, period, health>>

-----------------------------------------------------------------------------
(* The connection *)

Dial ==
    /\ conn = "down"
    /\ conn' = "auth" /\ ws' = "open"
    /\ UNCHANGED <<settingVars, beatVars, breaks, loop, period, late, health>>

AuthFails ==
    /\ conn = "auth" /\ breaks < MaxBreaks
    /\ conn' = "down" /\ ws' = "closed" /\ breaks' = breaks + 1
    /\ UNCHANGED <<settingVars, beatVars, loop, period, late, health>>

\* auth_ok: metricsLoop starts only when the master's caps name metrics_split.
AuthOk(split) ==
    /\ conn = "auth" /\ conn' = "serve"
    /\ loop' = [l \in Loop |-> IF l = "heartbeat" \/ (l = "metrics" /\ split)
                               THEN "new" ELSE loop[l]]
    /\ UNCHANGED <<settingVars, beatVars, ws, breaks, period, late, health>>

\* The network goes away unnoticed, or TriggerReconnect closes the socket.
Break ==
    /\ conn = "serve" /\ ws = "open" /\ breaks < MaxBreaks
    /\ breaks' = breaks + 1
    /\ ws' \in {"dead", "closed"}
    /\ UNCHANGED <<settingVars, conn, beatVars, loop, period, late, health>>

\* ReadMessage fails (at once, or at the read deadline): connectAndServe returns, cancels
\* its loops and clears c.ws.  Bound: one earlier connection at a time has late loops.
ReadFails ==
    /\ conn = "serve" /\ ws # "open"
    /\ \A l \in PerConn \cap Loop : late[l] = "none"
    /\ conn' = "down" /\ ws' = "closed"
    /\ late' = [l \in Loop |-> IF l \notin PerConn \/ loop[l] = "ended" THEN "none"
                               ELSE IF loop[l] = "new" THEN "select" ELSE loop[l]]
    /\ frame' = [now |-> 0, late |-> frame.now]
    /\ loop' = [l \in Loop |-> IF l \in PerConn THEN "ended" ELSE loop[l]]
    /\ period' = [l \in Loop |-> IF l \in PerConn THEN 0 ELSE period[l]]
    /\ UNCHANGED <<settingVars, kick, told, breaks, health>>

\* TriggerHeartbeat: the supervisor gave up; one kick is enough for any number of alerts.
TriggerHeartbeat ==
    /\ health < MaxAlerts
    /\ health' = health + 1
    /\ kick' = TRUE
    /\ UNCHANGED <<settingVars, connVars, frame, told, loop, period, late>>

-----------------------------------------------------------------------------
LoopsInit ==
    /\ rt = [f \in Field |-> 0]
    /\ queue = [l \in Loop |-> 0] /\ missed = {}
    /\ loop = [l \in Loop |-> IF l \in PerConn THEN "ended" ELSE "new"]
    /\ period = [l \in Loop |-> 0]
    /\ late = [l \in Loop |-> "none"]
    /\ kick = FALSE /\ conn = "down" /\ ws = "closed"
    /\ health = 0 /\ told = 0 /\ frame = [now |-> 0, late |-> 0]
    /\ pushes = 0 /\ breaks = 0

LoopStep(l) ==
    \/ BeginLoop(l) \/ TakeReset(l) \/ TickerFires(l) \/ RoundDone(l)
    \/ WriteOk(l) \/ WriteFails(l)
    \/ LateDone(l) \/ LateReset(l) \/ LateTick(l) \/ LateWriteOk(l) \/ LateWriteFails(l)

LoopsNext ==
    \/ \E p \in Payload : ApplyAgentSettings(p)
    \/ \E l \in Loop : LoopStep(l)
    \/ TakeKick \/ LateKick \/ TriggerHeartbeat
    \/ Dial \/ AuthFails \/ Break \/ ReadFails
    \/ \E split \in BOOLEAN : AuthOk(split)

LoopsSpec == LoopsInit /\ [][LoopsNext]_loopVars

\* Goroutines run, tickers fire, writes return, the dial is retried, a dead socket is
\* found by the read deadline, and select, which picks at random, picks ctx.Done in the end.
LoopsFairness ==
    /\ WF_loopVars(Dial) /\ WF_loopVars(\E split \in BOOLEAN : AuthOk(split)) /\ WF_loopVars(ReadFails)
    /\ \A l \in Loop :
         /\ WF_loopVars(BeginLoop(l)) /\ WF_loopVars(TickerFires(l))
         /\ WF_loopVars(WriteOk(l) \/ WriteFails(l))
         /\ WF_loopVars(LateWriteOk(l) \/ LateWriteFails(l))
         /\ SF_loopVars(LateDone(l))

FairLoopsSpec == LoopsSpec /\ LoopsFairness

-----------------------------------------------------------------------------
LoopsTypeOK ==
    /\ rt \in [Field -> Nat] /\ queue \in [Loop -> Nat] /\ period \in [Loop -> Nat]
    /\ \A l \in Loop : loop[l] \in Waiting => period[l] > 0     \* NewTicker panics on 0
    /\ missed \subseteq Loop
    /\ loop \in [Loop -> {"new", "ended"} \cup Waiting]
    /\ late \in [Loop -> {"none"} \cup Waiting]
    /\ kick \in BOOLEAN
    /\ conn \in {"down", "auth", "serve"} /\ ws \in {"open", "dead", "closed"}
    /\ health \in 0..MaxAlerts /\ told \in 0..MaxAlerts
    /\ frame \in [now : 0..MaxAlerts, late : 0..MaxAlerts]
    /\ pushes \in 0..MaxPushes /\ breaks \in 0..MaxBreaks

\* A loop that has taken its last reset runs at the period in force, however pushes, new
\* connections, kicks and a change of master were interleaved: unless its last change was
\* dropped because its channel was full or was taken by a late loop (client.go:925).
RunsAtEffective ==
    \A l \in Loop \ missed :
        loop[l] \in Waiting /\ queue[l] = 0 => period[l] = Effective(l)

\* The comment at client.go:925: a reset that finds the channel full is dropped, and the next
\* push makes up for it.  After a push, a loop whose channel was empty runs at the period in
\* force or is about to.
NextPushRepairs ==
    [][\A l \in Loop :
          pushes' # pushes /\ loop[l] \in Waiting /\ queue[l] = 0
             => PeriodUnder(rt', l) \in {period[l], queue'[l]}]_loopVars

\* An alert reaches the master, and the master keeps knowing: the frame may be lost with its
\* connection, the kick may go to a late loop, a late loop may repeat an older state
\* (client.go:664-693, 820-828).
AlertArrives == <>[](told = health)
=============================================================================
