------------------------------ MODULE NodeProofs ------------------------------
(***************************************************************************)
(* Theorems about the parts of the agent that MCNode runs together.        *)
(*                                                                         *)
(* AgentLoops: type correctness, and that a loop with nothing left to take *)
(* and no change missed runs at the period in force.  The invariant is     *)
(* inductive once it says what the channels hold: a reset that was not     *)
(* overtaken by another change is the period in force.                     *)
(*                                                                         *)
(* GeoUpdate: no file is torn but for a fault or an overlap, a failed      *)
(* update puts back what it found, and what stays is a combination that    *)
(* was tested.  GeoInv says how far the updater has come: what it has      *)
(* replaced and saved, and what the files will be when the rest is done.   *)
(*                                                                         *)
(* DaemonControl: while the control is calm, one command at a time acts,   *)
(* on processes that it knows.                                             *)
(***************************************************************************)
EXTENDS MCNode, SequenceTheorems, FiniteSetTheorems, TLAPS

-----------------------------------------------------------------------------
(* The loops of the agent (AgentLoops) *)

LEMMA PeriodPositive ==
    ASSUME NEW r \in [Field -> Nat], NEW l \in Loop
    PROVE  PeriodUnder(r, l) \in Nat \ {0}
<1>1. \A f \in Field : Given(r, f) \in Nat \ {0}
  BY SettingsAssumption DEF Given, Field
<1>2. l = "collect" => Least(CollectYaml, Given(r, "report")) \in Nat \ {0}
  BY <1>1, SettingsAssumption DEF Least, Field
<1>3. l \notin {"collect", "online"} => l \in Field
  BY LoopAssumption DEF AllLoops, PerConn, Field
<1> QED BY <1>1, <1>2, <1>3 DEF PeriodUnder, Field

LEMMA ClampPositive ==
    ASSUME NEW d \in Nat, NEW f \in Field
    PROVE  ClampInterval(d, MinInterval[f]) \in Nat
  BY SettingsAssumption DEF ClampInterval, Least, MinInterval, Field

LEMMA SettledType ==
    ASSUME NEW r \in [Field -> Nat], NEW p \in Payload
    PROVE  Settled(r, p) \in [Field -> Nat]
  BY ClampPositive, SettingsAssumption DEF Settled

LEMMA EffectivePositive == LoopsTypeOK => \A l \in Loop : Effective(l) \in Nat \ {0}
  BY PeriodPositive DEF LoopsTypeOK, Effective

LEMMA LoopsTypeInit == LoopsInit => LoopsTypeOK
<1> SUFFICES ASSUME LoopsInit PROVE LoopsTypeOK
  OBVIOUS
<1>1. rt \in [Field -> Nat] /\ queue \in [Loop -> Nat] /\ period \in [Loop -> Nat]
  BY DEF LoopsInit
<1>2. \A l \in Loop : loop[l] \in {"new", "ended"}
  BY DEF LoopsInit
<1>3. loop \in [Loop -> {"new", "ended"} \cup Waiting] /\ late \in [Loop -> {"none"} \cup Waiting]
  BY DEF LoopsInit
<1>4. health \in 0..MaxAlerts /\ told \in 0..MaxAlerts
      /\ frame \in [now : 0..MaxAlerts, late : 0..MaxAlerts]
      /\ pushes \in 0..MaxPushes /\ breaks \in 0..MaxBreaks
  BY BoundAssumption DEF LoopsInit
<1>5. \A l \in Loop : loop[l] \in Waiting => period[l] > 0
  BY <1>2 DEF Waiting
<1> QED BY <1>1, <1>3, <1>4, <1>5 DEF LoopsInit, LoopsTypeOK

LEMMA LoopsTypeStep == LoopsTypeOK /\ [LoopsNext]_loopVars => LoopsTypeOK'
<1> SUFFICES ASSUME LoopsTypeOK, [LoopsNext]_loopVars PROVE LoopsTypeOK'
  OBVIOUS
<1> USE LoopAssumption, BoundAssumption DEF Waiting
<1>0. Loop \cap {"heartbeat"} = {"heartbeat"} /\ \A l \in Loop : Effective(l) \in Nat \ {0}
  BY EffectivePositive
<1>1. ASSUME NEW p \in Payload, ApplyAgentSettings(p) PROVE LoopsTypeOK'
  <2>1. rt' \in [Field -> Nat]
    BY <1>1, SettledType DEF ApplyAgentSettings, LoopsTypeOK
  <2>2. \A l \in Loop : PeriodUnder(rt', l) \in Nat
    BY <2>1, PeriodPositive
  <2>3. queue' \in [Loop -> Nat] /\ missed' \subseteq Loop
    BY <1>1, <2>2 DEF ApplyAgentSettings, LoopsTypeOK
  <2> QED BY <1>1, <2>1, <2>3 DEF ApplyAgentSettings, LoopsTypeOK, connVars, beatVars
<1>2. ASSUME NEW l \in Loop, LoopStep(l) PROVE LoopsTypeOK'
  <2>1. CASE BeginLoop(l)
    BY <2>1, <1>0 DEF BeginLoop, LoopsTypeOK, connVars, beatVars
  <2>2. CASE TakeReset(l)
    BY <2>2 DEF TakeReset, LoopsTypeOK, connVars, beatVars
  <2>3. CASE TickerFires(l)
    BY <2>3 DEF TickerFires, LoopsTypeOK, connVars, settingVars
  <2>4. CASE RoundDone(l)
    BY <2>4 DEF RoundDone, LoopsTypeOK, connVars, beatVars, settingVars
  <2>5. CASE WriteOk(l)
    <3>1. told' \in 0..MaxAlerts
      BY <2>5 DEF WriteOk, Receives, LoopsTypeOK
    <3>2. frame' \in [now : 0..MaxAlerts, late : 0..MaxAlerts]
      BY <2>5 DEF WriteOk, Sent, LoopsTypeOK
    <3>3. period' \in [Loop -> Nat] /\ missed' \subseteq Loop
      BY <2>5, <1>0 DEF WriteOk, LoopsTypeOK
    <3>4. loop' \in [Loop -> {"new", "ended"} \cup Waiting]
      BY <2>5 DEF WriteOk, LoopsTypeOK
    <3>5. \A k \in Loop : loop'[k] \in Waiting => period'[k] > 0
      <4>1. CASE loop[l] = "kick"
        BY <2>5, <4>1, <1>0 DEF WriteOk, LoopsTypeOK
      <4>2. CASE loop[l] # "kick"
        BY <2>5, <4>2 DEF WriteOk, LoopsTypeOK
      <4> QED BY <4>1, <4>2
    <3> QED BY <2>5, <3>1, <3>2, <3>3, <3>4, <3>5 DEF WriteOk, LoopsTypeOK, connVars
  <2>6. CASE WriteFails(l)
    BY <2>6 DEF WriteFails, Sent, LoopsTypeOK, settingVars, PerConn
  <2>7. CASE LateDone(l)
    BY <2>7 DEF LateDone, LoopsTypeOK, connVars, beatVars, settingVars
  <2>8. CASE LateReset(l)
    BY <2>8 DEF LateReset, LoopsTypeOK, connVars, beatVars
  <2>9. CASE LateTick(l)
    BY <2>9 DEF LateTick, LoopsTypeOK, connVars, settingVars
  <2>10. CASE LateWriteOk(l)
    BY <2>10 DEF LateWriteOk, Receives, Sent, LoopsTypeOK, connVars, settingVars
  <2>11. CASE LateWriteFails(l)
    BY <2>11 DEF LateWriteFails, Sent, LoopsTypeOK, connVars, settingVars
  <2> QED BY <1>2, <2>1, <2>2, <2>3, <2>4, <2>5, <2>6, <2>7, <2>8, <2>9, <2>10, <2>11
          DEF LoopStep
<1>3. CASE TakeKick
  BY <1>3, <1>0 DEF TakeKick, LoopsTypeOK, connVars, settingVars
<1>4. CASE LateKick
  BY <1>4, <1>0 DEF LateKick, LoopsTypeOK, connVars, settingVars
<1>5. CASE TriggerHeartbeat
  BY <1>5 DEF TriggerHeartbeat, LoopsTypeOK, connVars, settingVars
<1>6. CASE Dial \/ AuthFails \/ Break
  BY <1>6 DEF Dial, AuthFails, Break, LoopsTypeOK, beatVars, settingVars
<1>7. CASE ReadFails
  BY <1>7 DEF ReadFails, LoopsTypeOK, settingVars, PerConn
<1>8. ASSUME NEW split \in BOOLEAN, AuthOk(split) PROVE LoopsTypeOK'
  BY <1>8 DEF AuthOk, LoopsTypeOK, beatVars, settingVars
<1>9. CASE UNCHANGED loopVars
  BY <1>9 DEF LoopsTypeOK, loopVars, connVars, beatVars, settingVars
<1> QED BY <1>1, <1>2, <1>3, <1>4, <1>5, <1>6, <1>7, <1>8, <1>9 DEF LoopsNext

-----------------------------------------------------------------------------
\* A reset that was not overtaken is the period in force.
QueueCurrent == \A l \in Loop \ missed : queue[l] > 0 => queue[l] = Effective(l)

LoopsInv == LoopsTypeOK /\ QueueCurrent /\ RunsAtEffective

LEMMA LoopsInvInit == LoopsInit => LoopsInv
  BY LoopsTypeInit, LoopAssumption
     DEF LoopsInit, LoopsInv, QueueCurrent, RunsAtEffective, Waiting, PerConn

\* Steps that leave the settings alone can only disturb the loop they are about.
LEMMA SettingsKept ==
    ASSUME LoopsInv, UNCHANGED settingVars,
           \A l \in Loop : loop'[l] \in Waiting => loop[l] \in Waiting /\ period'[l] = period[l]
    PROVE  QueueCurrent' /\ RunsAtEffective'
  BY DEF LoopsInv, settingVars, QueueCurrent, RunsAtEffective, Effective

LEMMA LoopsInvStep == LoopsInv /\ [LoopsNext]_loopVars => LoopsInv'
<1> SUFFICES ASSUME LoopsInv, [LoopsNext]_loopVars PROVE LoopsInv'
  OBVIOUS
<1>0. LoopsTypeOK' /\ LoopsTypeOK
  BY LoopsTypeStep DEF LoopsInv
<1> SUFFICES QueueCurrent' /\ RunsAtEffective'
  BY <1>0 DEF LoopsInv
<1> USE <1>0 DEF Waiting
<1>1. ASSUME NEW p \in Payload, ApplyAgentSettings(p) PROVE QueueCurrent' /\ RunsAtEffective'
  <2>1. CASE rt' = rt
    BY <1>1, <2>1 DEF ApplyAgentSettings, LoopsInv, QueueCurrent, RunsAtEffective, Effective
  <2>2. CASE rt' # rt
    <3>1. \A l \in Loop : queue'[l] > 0
      BY <1>1, <2>2, PeriodPositive DEF ApplyAgentSettings, LoopsTypeOK
    <3>2. \A l \in Loop : l \notin missed' => queue'[l] = PeriodUnder(rt', l)
      BY <1>1, <2>2 DEF ApplyAgentSettings
    <3> QED BY <3>1, <3>2 DEF QueueCurrent, RunsAtEffective, Effective
  <2> QED BY <2>1, <2>2
<1>2. ASSUME NEW l \in Loop, LoopStep(l) PROVE QueueCurrent' /\ RunsAtEffective'
  <2>1. CASE BeginLoop(l)
    BY <2>1 DEF BeginLoop, LoopsInv, LoopsTypeOK, QueueCurrent, RunsAtEffective, Effective
  <2>2. CASE TakeReset(l)
    BY <2>2 DEF TakeReset, LoopsInv, LoopsTypeOK, QueueCurrent, RunsAtEffective, Effective
  <2>3. CASE WriteOk(l) /\ loop[l] = "kick"
    BY <2>3 DEF WriteOk, LoopsInv, LoopsTypeOK, QueueCurrent, RunsAtEffective, Effective
  <2>4. CASE WriteOk(l) /\ loop[l] # "kick"
    BY <2>4, SettingsKept DEF WriteOk, LoopsTypeOK, settingVars
  <2>5. CASE LateReset(l)
    BY <2>5 DEF LateReset, LoopsInv, LoopsTypeOK, QueueCurrent, RunsAtEffective, Effective
  <2>6. CASE TickerFires(l) \/ RoundDone(l) \/ WriteFails(l)
    BY <2>6, SettingsKept DEF TickerFires, RoundDone, WriteFails, LoopsTypeOK
  <2>7. CASE LateDone(l) \/ LateTick(l) \/ LateWriteOk(l) \/ LateWriteFails(l)
    BY <2>7, SettingsKept DEF LateDone, LateTick, LateWriteOk, LateWriteFails
  <2> QED BY <1>2, <2>1, <2>2, <2>3, <2>4, <2>5, <2>6, <2>7 DEF LoopStep
<1>3. CASE TakeKick
  BY <1>3, SettingsKept DEF TakeKick, LoopsTypeOK
<1>4. CASE LateKick \/ TriggerHeartbeat \/ Dial \/ AuthFails \/ Break
  BY <1>4, SettingsKept DEF LateKick, TriggerHeartbeat, Dial, AuthFails, Break
<1>5. CASE ReadFails
  BY <1>5, SettingsKept DEF ReadFails, LoopsTypeOK
<1>6. ASSUME NEW split \in BOOLEAN, AuthOk(split) PROVE QueueCurrent' /\ RunsAtEffective'
  BY <1>6, SettingsKept DEF AuthOk, LoopsTypeOK
<1>7. CASE UNCHANGED loopVars
  BY <1>7, SettingsKept DEF loopVars
<1> QED BY <1>1, <1>2, <1>3, <1>4, <1>5, <1>6, <1>7 DEF LoopsNext

-----------------------------------------------------------------------------
\* Every reachable state is well typed; a running ticker has a positive period, for any
\* settings (client.go:856-890: NewTicker and Reset panic on a period that is not).
THEOREM LoopsTypeCorrect == LoopsSpec => []LoopsTypeOK
<1>1. LoopsInit => LoopsTypeOK BY LoopsTypeInit
<1>2. LoopsTypeOK /\ [LoopsNext]_loopVars => LoopsTypeOK' BY LoopsTypeStep
<1> QED BY <1>1, <1>2, PTL DEF LoopsSpec

\* A loop with nothing left to take and no change missed runs at the period in force
\* (client.go:856-948), for any loops, settings and number of pushes.
THEOREM LoopsRunAtEffective == LoopsSpec => []RunsAtEffective
<1>1. LoopsInit => LoopsInv BY LoopsInvInit
<1>2. LoopsInv /\ [LoopsNext]_loopVars => LoopsInv' BY LoopsInvStep
<1>3. LoopsInv => RunsAtEffective BY DEF LoopsInv
<1> QED BY <1>1, <1>2, <1>3, PTL DEF LoopsSpec

-----------------------------------------------------------------------------
(* The update of the geo files (GeoUpdate) *)

ReplaceJob == [at : {"compare", "backup", "open", "write", "same", "changed", "failed"},
               file : GeoFile, data : Content \cup {Torn}, had : BOOLEAN, shared : BOOLEAN]

DoneEntry == [file : GeoFile, had : BOOLEAN]

GeoTypes ==
    /\ installed \in [GeoFile -> Known] /\ prev \in [GeoFile -> Known]
    /\ before \in [GeoFile -> Known]
    /\ data \in [GeoFile -> Content \cup {Missing}]
    /\ rep \in [Writer -> ReplaceJob \cup {None}]
    /\ done \in Seq(DoneEntry)
    /\ upd \in {"off", "idle", "fetch", "replace", "undo", "updated", "failed"}
    /\ sync \subseteq GeoFile /\ overlapped \subseteq GeoFile
    /\ clean \in BOOLEAN /\ spoilt \in BOOLEAN
    /\ geoFaults \in 0..MaxGeoFaults /\ syncs \in 0..MaxSyncs

\* The updater replaces each file once, undoes the last first, and finds a .prev for what
\* was there.
StagesInv ==
    /\ rep["geo"] # None \/ done # <<>> => upd \in {"replace", "undo"}
    /\ \A f \in GeoFile \ Wanted : data[f] = Missing
    /\ sync = {} <=> rep["kernel"] = None
    /\ upd = "replace" /\ rep["geo"] # None => rep["geo"].data = data[rep["geo"].file]
    /\ upd = "undo" /\ rep["geo"] # None => done # <<>> /\ rep["geo"].file = done[Len(done)].file
    /\ \A i \in 1..Len(done) : /\ data[done[i].file] = Missing
                               /\ done[i].had => prev[done[i].file] # Missing
                               /\ \A j \in 1..Len(done) : done[i].file = done[j].file => i = j
    /\ \A w \in Writer : rep[w] # None /\ rep[w].had => prev[rep[w].file] # Missing

\* Data is mixed only where both writers had the same file open.
TornInv ==
    /\ NeverTorn
    /\ rep["kernel"] # None => rep["kernel"].data # Torn
    /\ \A w \in Writer : rep[w] # None /\ rep[w].file \notin overlapped
         => rep[w].data # Torn /\ ~rep[w].shared

\* d says how to bring back the file as it was when the update began.
Saved(d) == IF d.had THEN prev[d.file] = before[d.file] ELSE before[d.file] = Missing

Undoing == upd = "undo" /\ rep["geo"] # None

CleanInv ==
    upd \notin {"idle", "off"} /\ clean =>
      /\ rep["kernel"] = None
      /\ rep["geo"] # None => ~rep["geo"].shared
      /\ upd # "updated" =>
           \A f \in GeoFile : \/ installed[f] = before[f]
                              \/ \E i \in 1..Len(done) : done[i].file = f
                              \/ (rep["geo"].at = "changed" /\ rep["geo"].file = f)
      /\ \A i \in 1..Len(done) : (Undoing /\ i = Len(done)) \/ Saved(done[i])
      /\ upd = "replace" /\ rep["geo"].at \in {"open", "write", "changed"} => Saved(rep["geo"])
      /\ Undoing => /\ rep["geo"].data = before[rep["geo"].file]
                    /\ rep["geo"].at \in {"same", "changed"}
                         => installed[rep["geo"].file] = before[rep["geo"].file]

\* What will be installed when every file still in data is replaced.
Planned == [f \in GeoFile |-> IF data[f] = Missing THEN installed[f] ELSE data[f]]

WorksInv ==
    /\ upd \notin {"idle", "off"} /\ ~clean => spoilt
    /\ rep["kernel"] # None => spoilt
    /\ ~spoilt => IF upd \in {"replace", "undo"} THEN before \in Works ELSE installed \in Works
    /\ upd = "replace" /\ clean =>
         /\ Planned \in Works
         /\ rep["geo"].at \in {"same", "changed"} => installed[rep["geo"].file] = rep["geo"].data

GeoInv == GeoTypes /\ StagesInv /\ TornInv /\ CleanInv /\ WorksInv

Ats == {"compare", "backup", "open", "write", "same", "changed", "failed"}

LEMMA TwoWriters == Other("geo") = "kernel" /\ Other("kernel") = "geo"
  BY DEF Other, Writer

LEMMA JobPut ==
    ASSUME NEW j \in ReplaceJob
    PROVE  /\ j # None /\ j.at \in Ats /\ j.file \in GeoFile /\ j.had \in BOOLEAN /\ j.shared \in BOOLEAN
           /\ j.data \in Content \cup {Torn}
           /\ \A a \in Ats : /\ [j EXCEPT !.at = a] \in ReplaceJob /\ [j EXCEPT !.at = a].at = a
                             /\ [j EXCEPT !.at = a].file = j.file /\ [j EXCEPT !.at = a].data = j.data
                             /\ [j EXCEPT !.at = a].had = j.had /\ [j EXCEPT !.at = a].shared = j.shared
           /\ \A h \in BOOLEAN : 
                             /\ [j EXCEPT !.had = h] \in ReplaceJob /\ [j EXCEPT !.had = h].at = j.at
                             /\ [j EXCEPT !.had = h].file = j.file /\ [j EXCEPT !.had = h].data = j.data
                             /\ [j EXCEPT !.had = h].had = h /\ [j EXCEPT !.had = h].shared = j.shared
           /\ \A h \in BOOLEAN : 
                             /\ [j EXCEPT !.shared = h] \in ReplaceJob /\ [j EXCEPT !.shared = h].at = j.at
                             /\ [j EXCEPT !.shared = h].file = j.file /\ [j EXCEPT !.shared = h].data = j.data
                             /\ [j EXCEPT !.shared = h].had = j.had /\ [j EXCEPT !.shared = h].shared = h
<1>1. /\ j # None /\ j.at \in Ats /\ j.file \in GeoFile /\ j.had \in BOOLEAN /\ j.shared \in BOOLEAN
         /\ j.data \in Content \cup {Torn}
  BY DEF ReplaceJob, None, Ats
<1>2. \A a \in Ats : /\ [j EXCEPT !.at = a] \in ReplaceJob /\ [j EXCEPT !.at = a].at = a
                           /\ [j EXCEPT !.at = a].file = j.file /\ [j EXCEPT !.at = a].data = j.data
                           /\ [j EXCEPT !.at = a].had = j.had /\ [j EXCEPT !.at = a].shared = j.shared
  BY Zenon DEF ReplaceJob, Ats
<1>3. \A h \in BOOLEAN : 
                           /\ [j EXCEPT !.had = h] \in ReplaceJob /\ [j EXCEPT !.had = h].at = j.at
                           /\ [j EXCEPT !.had = h].file = j.file /\ [j EXCEPT !.had = h].data = j.data
                           /\ [j EXCEPT !.had = h].had = h /\ [j EXCEPT !.had = h].shared = j.shared
  BY Zenon DEF ReplaceJob
<1>4. \A h \in BOOLEAN : 
                           /\ [j EXCEPT !.shared = h] \in ReplaceJob /\ [j EXCEPT !.shared = h].at = j.at
                           /\ [j EXCEPT !.shared = h].file = j.file /\ [j EXCEPT !.shared = h].data = j.data
                           /\ [j EXCEPT !.shared = h].had = j.had /\ [j EXCEPT !.shared = h].shared = h
  BY Zenon DEF ReplaceJob
<1> QED BY <1>1, <1>2, <1>3, <1>4

LEMMA Jobs ==
    ASSUME rep \in [Writer -> ReplaceJob \cup {None}], NEW w \in Writer
    PROVE  /\ rep[w].at \in Ats \cup {"none"}
           /\ rep[w].at = "none" <=> rep[w] = None
           /\ rep[w] # None => rep[w] \in ReplaceJob
  BY DEF ReplaceJob, None, Ats

LEMMA NewJob ==
    ASSUME NEW f \in GeoFile, NEW c \in Content \cup {Torn}
    PROVE  /\ Replacing(f, c) \in ReplaceJob /\ Replacing(f, c).at = "compare"
           /\ Replacing(f, c).file = f /\ Replacing(f, c).data = c
           /\ Replacing(f, c).had = FALSE /\ Replacing(f, c).shared = FALSE
  BY DEF Replacing, ReplaceJob

RepType == [Writer -> ReplaceJob \cup {None}]

\* What a step of ReplaceGeoFile leaves of the job of its writer.
JobStep(w, at) ==
    /\ rep[w] \in ReplaceJob /\ rep'[w] \in ReplaceJob /\ rep' \in RepType
    /\ rep'[w].file = rep[w].file /\ rep'[w].data = rep[w].data
    /\ rep'[w].at = at

Alone(w) == \A v \in Writer \ {w} : rep'[v] = rep[v]

LEMMA JobMoves ==
    ASSUME rep \in RepType, NEW w \in Writer, rep[w] # None, NEW a \in Ats,
           rep' = [rep EXCEPT ![w].at = a]
    PROVE  /\ JobStep(w, a) /\ rep'[w].had = rep[w].had /\ rep'[w].shared = rep[w].shared
           /\ Alone(w)
<1>1. rep[w] \in ReplaceJob
  BY Jobs DEF RepType
<1> DEFINE n == [rep[w] EXCEPT !.at = a]
<1>2. rep' = [rep EXCEPT ![w] = n]
  BY Zenon
<1>4. n \in ReplaceJob /\ n.at = a /\ n.file = rep[w].file /\ n.data = rep[w].data
      /\ n.had = rep[w].had /\ n.shared = rep[w].shared
  BY <1>1, JobPut
<1> HIDE DEF n
<1>5. rep' \in RepType /\ rep'[w] = n /\ Alone(w)
  BY <1>2, <1>4 DEF RepType, Alone
<1> QED BY <1>1, <1>4, <1>5 DEF JobStep

LEMMA CompareMoves ==
    ASSUME rep \in RepType, NEW w \in Writer, Compare(w)
    PROVE  /\ rep[w].at = "compare" /\ Alone(w)
           /\ JobStep(w, IF installed[rep[w].file] = rep[w].data THEN "same" ELSE "backup")
           /\ rep'[w].had = rep[w].had /\ rep'[w].shared = rep[w].shared
<1>1. rep[w].at = "compare" /\ rep[w] # None
  BY Jobs DEF Compare, None
<1> DEFINE a == IF installed[rep[w].file] = rep[w].data THEN "same" ELSE "backup"
<1>2. rep' = [rep EXCEPT ![w].at = a] /\ a \in Ats
  BY DEF Compare, Ats
<1> HIDE DEF a
<1> QED BY <1>1, <1>2, JobMoves DEF a

LEMMA FailsMoves ==
    ASSUME rep \in RepType, NEW w \in Writer, ReplaceFails(w)
    PROVE  /\ rep[w].at \in {"backup", "open", "write"} /\ Alone(w) /\ JobStep(w, "failed")
           /\ rep'[w].had = rep[w].had /\ rep'[w].shared = rep[w].shared
<1>1. rep[w].at \in {"backup", "open", "write"} /\ rep[w] # None
  BY DEF ReplaceFails, None
<1>2. rep' = [rep EXCEPT ![w].at = "failed"] /\ "failed" \in Ats
  BY DEF ReplaceFails, Ats
<1> QED BY <1>1, <1>2, JobMoves

LEMMA BackupMoves ==
    ASSUME rep \in RepType, NEW w \in Writer, BackupFile(w)
    PROVE  /\ rep[w].at = "backup" /\ Alone(w) /\ JobStep(w, "open")
           /\ rep'[w].had = (installed[rep[w].file] # Missing) /\ rep'[w].shared = rep[w].shared
           /\ prev' = IF installed[rep[w].file] = Missing THEN prev
                       ELSE [prev EXCEPT ![rep[w].file] = installed[rep[w].file]]
<1>1. rep[w].at = "backup" /\ rep[w] \in ReplaceJob
  BY Jobs DEF BackupFile, None, RepType
<1> DEFINE h == installed[rep[w].file] # Missing
           m == [rep[w] EXCEPT !.at = "open"]
           n == [m EXCEPT !.had = h]
<1>2. rep' = [rep EXCEPT ![w] = n]
  BY Zenon DEF BackupFile
<1>3. m \in ReplaceJob /\ m.at = "open" /\ m.file = rep[w].file /\ m.data = rep[w].data
      /\ m.shared = rep[w].shared
  BY <1>1, JobPut DEF Ats
<1>4. h \in BOOLEAN
  OBVIOUS
<1> HIDE DEF m
<1>5. n \in ReplaceJob /\ n.at = m.at /\ n.file = m.file /\ n.data = m.data
      /\ n.shared = m.shared /\ n.had = h
  <2> HIDE DEF h
  <2> QED BY <1>3, <1>4, JobPut
<1> HIDE DEF n, h
<1>6. rep' \in RepType /\ rep'[w] = n /\ Alone(w)
  BY <1>2, <1>5 DEF RepType, Alone
<1>7. prev' = IF installed[rep[w].file] = Missing THEN prev
              ELSE [prev EXCEPT ![rep[w].file] = installed[rep[w].file]]
  BY DEF BackupFile
<1>8. JobStep(w, "open")
  BY <1>1, <1>3, <1>5, <1>6 DEF JobStep
<1> QED BY <1>1, <1>3, <1>5, <1>6, <1>7, <1>8, Zenon DEF h

LEMMA OpenMoves ==
    ASSUME rep \in RepType, NEW w \in Writer, OpenTmp(w), NEW v \in Writer, v # w
    PROVE  LET both == rep[v].at = "write" /\ rep[v].file = rep[w].file IN
           /\ rep[w].at = "open" /\ JobStep(w, "write")
           /\ rep'[w].had = rep[w].had /\ (rep'[w].shared <=> both)
           /\ overlapped' = IF both THEN overlapped \cup {rep[w].file} ELSE overlapped
           /\ ~both => rep'[v] = rep[v]
           /\ both => JobStep(v, "write") /\ rep'[v].had = rep[v].had /\ rep'[v].shared
<1> DEFINE both == rep[v].at = "write" /\ rep[v].file = rep[w].file
<1>0. Other(w) = v /\ both \in BOOLEAN /\ Writer = {v, w}
  BY TwoWriters DEF Writer
<1>1. rep[w].at = "open" /\ rep[w] \in ReplaceJob
  BY Jobs DEF OpenTmp, None, RepType
<1> DEFINE m == [rep[w] EXCEPT !.at = "write"]
           n == [m EXCEPT !.shared = both]
           x == IF both THEN [rep[v] EXCEPT !.shared = TRUE] ELSE rep[v]
<1>2. rep' = [u \in Writer |-> IF u = w THEN n ELSE IF both THEN [rep[u] EXCEPT !.shared = TRUE] ELSE rep[u]]
      /\ overlapped' = IF both THEN overlapped \cup {rep[w].file} ELSE overlapped
  BY <1>0, Zenon DEF OpenTmp, HasOpen
<1>3. m \in ReplaceJob /\ m.at = "write" /\ m.file = rep[w].file /\ m.data = rep[w].data
      /\ m.had = rep[w].had
  BY <1>1, JobPut DEF Ats
<1> HIDE DEF m
<1>5. n \in ReplaceJob /\ n.at = m.at /\ n.file = m.file /\ n.data = m.data
      /\ n.shared = both /\ n.had = m.had
  <2> HIDE DEF both
  <2> QED BY <1>0, <1>3, JobPut
<1>6. both => rep[v] \in ReplaceJob /\ x \in ReplaceJob /\ x.at = "write" /\ x.file = rep[v].file
              /\ x.data = rep[v].data /\ x.had = rep[v].had /\ x.shared
  <2> SUFFICES ASSUME both PROVE /\ rep[v] \in ReplaceJob /\ x \in ReplaceJob /\ x.at = "write"
              /\ x.file = rep[v].file /\ x.data = rep[v].data /\ x.had = rep[v].had /\ x.shared
    OBVIOUS
  <2>1. rep[v] \in ReplaceJob
    BY Jobs DEF RepType, None
  <2>2. x = [rep[v] EXCEPT !.shared = TRUE]
    BY Zenon
  <2> HIDE DEF x
  <2> QED BY <2>1, <2>2, JobPut
<1>7. ~both => x = rep[v]
  BY Zenon
<1>8. rep'[w] = n /\ rep'[v] = x
  BY <1>2, Zenon
<1>9. x \in ReplaceJob \cup {None}
  BY <1>6, <1>7, Jobs DEF RepType
<1> HIDE DEF n, x
<1>10. rep' \in RepType
  <2>1. rep' = [u \in Writer |-> rep'[u]]
    BY <1>2, Zenon
  <2> QED BY <2>1, <1>0, <1>5, <1>8, <1>9 DEF RepType
<1> QED BY <1>1, <1>2, <1>3, <1>5, <1>6, <1>7, <1>8, <1>10 DEF JobStep

LEMMA RenameMoves ==
    ASSUME rep \in RepType, NEW w \in Writer, RenameTmp(w) \/ RenameShared(w)
    PROVE  /\ rep[w].at = "write" /\ Alone(w) /\ JobStep(w, "changed")
           /\ rep'[w].had = rep[w].had /\ rep'[w].shared = rep[w].shared
           /\ \E c \in Content \cup {Torn} : installed' = [installed EXCEPT ![rep[w].file] = c]
           /\ ~rep[w].shared => installed' = [installed EXCEPT ![rep[w].file] = rep[w].data]
<1>1. rep[w].at = "write" /\ rep[w] # None
  BY DEF RenameTmp, RenameShared, None
<1>2. PICK c : Renamed(w, c) /\ c \in {rep[w].data, Torn, rep[Other(w)].data}
               /\ (c = rep[Other(w)].data => rep[Other(w)].at # "none" \/ c = rep[w].data \/ c = Torn)
               /\ (~rep[w].shared => c = rep[w].data)
  BY Zenon DEF RenameTmp, RenameShared
<1>3. rep' = [rep EXCEPT ![w].at = "changed"] /\ "changed" \in Ats
  BY <1>2 DEF Renamed, Ats
<1>4. Other(w) \in Writer
  BY TwoWriters DEF Writer
<1>5. rep[w].data \in Content \cup {Torn} /\ (rep[Other(w)].at # "none" => rep[Other(w)].data \in Content \cup {Torn})
  BY <1>1, <1>4, Jobs, JobPut DEF RepType
<1>6. c \in Content \cup {Torn}
  BY <1>2, <1>5
<1>7. installed' = [installed EXCEPT ![rep[w].file] = c]
  BY <1>2 DEF Renamed
<1> QED BY <1>1, <1>2, <1>3, <1>6, <1>7, JobMoves

LEMMA DoneTyped ==
    ASSUME done \in Seq(DoneEntry), NEW i \in 1..Len(done)
    PROVE  done[i] \in DoneEntry /\ done[i].file \in GeoFile /\ done[i].had \in BOOLEAN
<1>1. done[i] \in DoneEntry
  OBVIOUS
<1> QED BY <1>1 DEF DoneEntry

\* The updater's own step of ReplaceGeoFile, while clean promises something.
OwnJob ==
    /\ rep["geo"] # None /\ rep["geo"].at # "changed" /\ rep["geo"] \in ReplaceJob
    /\ rep'["geo"].file = rep["geo"].file /\ rep'["geo"].data = rep["geo"].data
    /\ rep'["geo"] # None /\ rep'["kernel"] = rep["kernel"] /\ ~rep'["geo"].shared

OwnFiles ==
    /\ \A f \in GeoFile : \/ installed'[f] = installed[f]
                          \/ rep'["geo"].at = "changed" /\ rep'["geo"].file = f
    /\ \A f \in GeoFile : prev'[f] = prev[f] \/ f = rep["geo"].file

OwnBackup ==
    upd = "replace" /\ rep'["geo"].at \in {"open", "write", "changed"}
         => IF rep'["geo"].had THEN prev'[rep["geo"].file] = before[rep["geo"].file]
            ELSE before[rep["geo"].file] = Missing

OwnResult ==
    rep'["geo"].at \in {"same", "changed"} => installed'[rep["geo"].file] = rep["geo"].data

OwnRun == UNCHANGED <<upd, data, done, before, clean>> /\ upd \notin {"idle", "off"} /\ clean

OwnStep == OwnRun /\ OwnJob /\ OwnFiles /\ OwnBackup /\ OwnResult

LEMMA CleanKept == GeoInv /\ OwnStep => CleanInv'
<1> SUFFICES ASSUME GeoInv, OwnStep PROVE CleanInv'
  OBVIOUS
<1> USE DEF OwnStep, OwnRun, OwnJob, OwnFiles, OwnBackup, OwnResult
<1>0. /\ GeoTypes /\ StagesInv /\ CleanInv /\ rep["geo"] \in ReplaceJob
      /\ rep["geo"].file \in GeoFile /\ rep["geo"].data # Missing
      /\ upd' = upd /\ done' = done /\ before' = before /\ clean' = clean
      /\ rep'["geo"].file = rep["geo"].file /\ rep'["geo"].data = rep["geo"].data
      /\ upd \in {"replace", "undo"}
  <2>1. GeoTypes /\ StagesInv /\ CleanInv
    BY DEF GeoInv
  <2>2. rep["geo"] \in ReplaceJob /\ rep'["geo"].file = rep["geo"].file /\ rep'["geo"].data = rep["geo"].data
    OBVIOUS
  <2>3. rep["geo"].file \in GeoFile /\ rep["geo"].data \in Content \cup {Torn}
    BY <2>2, JobPut
  <2>4. rep["geo"].data # Missing
    BY <2>3, GeoAssumption
  <2>5. upd \in {"replace", "undo"}
    BY <2>1 DEF StagesInv
  <2> QED BY <2>1, <2>2, <2>3, <2>4, <2>5
<1>1. upd' = "replace" /\ rep'["geo"].at \in {"open", "write", "changed"} => Saved(rep["geo"])'
  BY <1>0 DEF Saved
<1>2. \A f \in GeoFile : \/ installed'[f] = before'[f]
                         \/ \E i \in 1..Len(done') : done'[i].file = f
                         \/ rep'["geo"].at = "changed" /\ rep'["geo"].file = f
  BY <1>0 DEF CleanInv
<1>3. \A i \in 1..Len(done') : (Undoing' /\ i = Len(done')) \/ Saved(done[i])'
  <2> SUFFICES ASSUME NEW i \in 1..Len(done), ~(upd = "undo" /\ i = Len(done))
               PROVE  Saved(done[i])'
    BY <1>0 DEF Undoing
  <2>1. done[i].file \in GeoFile
    BY <1>0, DoneTyped DEF GeoTypes
  <2>2. done[i].file # rep["geo"].file
    BY <1>0 DEF StagesInv, GeoTypes
  <2>3. prev'[done[i].file] = prev[done[i].file]
    BY <2>1, <2>2
  <2>4. Saved(done[i])
    BY <1>0 DEF CleanInv, Undoing
  <2> QED BY <1>0, <2>3, <2>4 DEF Saved
<1>4. Undoing' => /\ rep'["geo"].data = before'[rep'["geo"].file]
                  /\ rep'["geo"].at \in {"same", "changed"}
                       => installed'[rep'["geo"].file] = before'[rep'["geo"].file]
  BY <1>0 DEF CleanInv, Undoing
<1> QED BY <1>0, <1>1, <1>2, <1>3, <1>4 DEF CleanInv

LEMMA GeoReplaceStep ==
    ASSUME GeoInv, NEW w \in Writer, ReplaceStep(w)
    PROVE  GeoInv'
<1>0. rep \in RepType /\ GeoTypes /\ StagesInv /\ TornInv /\ CleanInv /\ WorksInv
  BY DEF GeoInv, GeoTypes, RepType
<1>v. Writer = {"geo", "kernel"}
  BY DEF Writer
<1>c. UNCHANGED <<progress, sync, before, clean, spoilt>> /\ rep[w] # None
  BY DEF ReplaceStep, Compare, BackupFile, OpenTmp, RenameTmp, RenameShared, Renamed, ReplaceFails, geoGhost, None
<1>f. rep[w] \in ReplaceJob /\ rep[w].file \in GeoFile /\ rep[w].data \in Content \cup {Torn}
  BY <1>0, <1>c, Jobs, JobPut DEF RepType
<1>d. \A i \in 1..Len(done) : done[i].file \in GeoFile /\ done[i].had \in BOOLEAN
  BY <1>0, DoneTyped DEF GeoTypes
\* A kernel upgrade at work is what clean excludes.
<1>k. ASSUME w = "kernel" \/ upd \in {"idle", "off"} \/ ~clean
      PROVE  CleanInv'
  BY <1>0, <1>c, <1>k DEF CleanInv, progress
<1>s. w = "geo" /\ upd \notin {"idle", "off"} /\ clean =>
        rep["kernel"] = None /\ ~rep["geo"].shared
  BY <1>0, <1>c DEF CleanInv
<1>1. CASE Compare(w)
  <2>1. GeoTypes'
    BY <1>0, <1>c, <1>f, <1>1, CompareMoves, GeoAssumption DEF GeoTypes, JobStep, RepType, Known, ReplaceJob, Compare, progress, files, geoGhost, geoCount, GeoFault
  <2>2. StagesInv'
    BY <1>0, <1>v, <1>c, <1>d, <1>f, <1>1, CompareMoves DEF GeoTypes, StagesInv, JobStep, Alone, Compare, progress, files, None
  <2>3. TornInv'
    BY <1>0, <1>v, <1>c, <1>f, <1>1, CompareMoves DEF GeoTypes, TornInv, NeverTorn, JobStep, Alone, Compare, files, geoGhost
  <2>4. CleanInv'
    <3> SUFFICES ASSUME w = "geo", upd \notin {"idle", "off"}, clean PROVE CleanInv'
      BY <1>k, <1>v
    <3>1. /\ rep["geo"].at # "changed" /\ JobStep("geo", rep'["geo"].at) /\ rep'["kernel"] = rep["kernel"]
          /\ ~rep'["geo"].shared
      BY <1>0, <1>v, <1>s, <1>1, CompareMoves DEF JobStep, Alone, None
    <3>2. \A f \in GeoFile : \/ installed'[f] = installed[f]
                             \/ rep'["geo"].at = "changed" /\ rep'["geo"].file = f
      BY <1>0, <1>f, <1>s, <1>1, CompareMoves DEF JobStep, GeoTypes, Compare, files
    <3>3. \A f \in GeoFile : prev'[f] = prev[f] \/ f = rep["geo"].file
      BY <1>0, <1>f, <1>1, CompareMoves DEF GeoTypes, Compare, files
    <3>4. OwnBackup
      BY <1>0, <1>c, <1>f, <1>1, CompareMoves DEF OwnBackup, JobStep, CleanInv, StagesInv, GeoTypes, Saved, Compare, files
    <3>5. OwnResult
      BY <1>0, <1>f, <1>s, <1>1, CompareMoves DEF OwnResult, JobStep, GeoTypes, Compare, files
    <3>6. OwnRun
      BY <1>c DEF OwnRun, progress
    <3>7. OwnFiles
      BY <3>2, <3>3 DEF OwnFiles
    <3>8. rep'["geo"] # None
      BY <3>1 DEF JobStep, None, ReplaceJob
    <3>9. OwnJob
      BY <1>c, <3>1, <3>8 DEF JobStep, OwnJob
    <3>10. OwnStep
      BY <3>4, <3>5, <3>6, <3>7, <3>9 DEF OwnStep
    <3> QED BY <3>10, CleanKept
  <2>5. WorksInv'
    BY <1>0, <1>v, <1>c, <1>f, <1>1, CompareMoves DEF GeoTypes, WorksInv, CleanInv, StagesInv, Planned, JobStep, Alone, Compare, progress, files
  <2> QED BY <2>1, <2>2, <2>3, <2>4, <2>5 DEF GeoInv
<1>2. CASE BackupFile(w)
  <2>1. GeoTypes'
    BY <1>0, <1>c, <1>f, <1>2, BackupMoves, GeoAssumption DEF GeoTypes, JobStep, RepType, Known, ReplaceJob, BackupFile, progress, files, geoGhost, geoCount, GeoFault
  <2>2. StagesInv'
    <3>1. /\ rep[w].at = "backup" /\ Alone(w) /\ rep'[w] # None
          /\ rep'[w].file = rep[w].file /\ rep'[w].data = rep[w].data
          /\ rep'[w].had = (installed[rep[w].file] # Missing)
          /\ prev' = IF installed[rep[w].file] = Missing THEN prev
                      ELSE [prev EXCEPT ![rep[w].file] = installed[rep[w].file]]
      BY <1>0, <1>2, BackupMoves, Jobs DEF JobStep, ReplaceJob, None
    <3>2. upd' = upd /\ data' = data /\ done' = done /\ sync' = sync
      BY <1>c DEF progress
    <3>3. \A f \in GeoFile : prev[f] # Missing => prev'[f] # Missing
      BY <1>0, <1>f, <3>1 DEF GeoTypes
    <3>4. rep'["geo"] = None <=> rep["geo"] = None
      BY <1>v, <1>c, <3>1 DEF Alone
    <3>5. rep'["kernel"] = None <=> rep["kernel"] = None
      BY <1>v, <1>c, <3>1 DEF Alone
    <3>6. rep["geo"] # None => rep'["geo"].file = rep["geo"].file /\ rep'["geo"].data = rep["geo"].data
      BY <1>v, <3>1 DEF Alone
    <3>7. \A u \in Writer : rep'[u] # None /\ rep'[u].had => prev'[rep'[u].file] # Missing
      <4> SUFFICES ASSUME NEW u \in Writer, rep'[u] # None, rep'[u].had PROVE prev'[rep'[u].file] # Missing
        OBVIOUS
      <4>1. CASE u = w
        <5>1. installed[rep[w].file] # Missing
          BY <3>1, <4>1
        <5> QED BY <1>0, <1>f, <3>1, <4>1, <5>1 DEF GeoTypes
      <4>2. CASE u # w
        <5>1. rep'[u] = rep[u]
          BY <3>1, <4>2 DEF Alone
        <5>2. prev[rep[u].file] # Missing
          BY <1>0, <5>1 DEF StagesInv
        <5>3. rep[u].file \in GeoFile
          BY <1>0, <5>1, Jobs, JobPut DEF RepType
        <5> QED BY <3>3, <5>1, <5>2, <5>3
      <4> QED BY <4>1, <4>2
    <3>8. \A i \in 1..Len(done) : done[i].had => prev'[done[i].file] # Missing
      BY <1>0, <1>d, <3>3 DEF StagesInv
    <3> QED BY <1>0, <3>2, <3>4, <3>5, <3>6, <3>7, <3>8 DEF StagesInv
  <2>3. TornInv'
    BY <1>0, <1>v, <1>c, <1>f, <1>2, BackupMoves DEF GeoTypes, TornInv, NeverTorn, JobStep, Alone, BackupFile, files, geoGhost
  <2>4. CleanInv'
    <3> SUFFICES ASSUME w = "geo", upd \notin {"idle", "off"}, clean PROVE CleanInv'
      BY <1>k, <1>v
    <3>1. /\ rep["geo"].at # "changed" /\ JobStep("geo", rep'["geo"].at) /\ rep'["kernel"] = rep["kernel"]
          /\ ~rep'["geo"].shared
      BY <1>0, <1>v, <1>s, <1>2, BackupMoves DEF JobStep, Alone, None
    <3>2. \A f \in GeoFile : \/ installed'[f] = installed[f]
                             \/ rep'["geo"].at = "changed" /\ rep'["geo"].file = f
      BY <1>0, <1>f, <1>s, <1>2, BackupMoves DEF JobStep, GeoTypes, BackupFile, files
    <3>3. \A f \in GeoFile : prev'[f] = prev[f] \/ f = rep["geo"].file
      BY <1>0, <1>f, <1>2, BackupMoves DEF GeoTypes, BackupFile, files
    <3>4. OwnBackup
      <4> SUFFICES ASSUME upd = "replace" PROVE OwnBackup
        BY DEF OwnBackup
      <4>1. /\ rep'["geo"].had = (installed[rep["geo"].file] # Missing)
            /\ prev' = IF installed[rep["geo"].file] = Missing THEN prev
                       ELSE [prev EXCEPT ![rep["geo"].file] = installed[rep["geo"].file]]
            /\ rep["geo"].at = "backup"
        BY <1>0, <1>2, BackupMoves
      <4>2. rep["geo"].data = data[rep["geo"].file] /\ rep["geo"].data # Missing
        BY <1>0, <1>c, <1>f, GeoAssumption DEF StagesInv
      <4>3. \A i \in 1..Len(done) : done[i].file # rep["geo"].file
        BY <1>0, <4>2 DEF StagesInv
      <4>4. installed[rep["geo"].file] = before[rep["geo"].file]
        BY <1>0, <1>f, <4>1, <4>3 DEF CleanInv
      <4>5. prev \in [GeoFile -> Known]
        BY <1>0 DEF GeoTypes
      <4> QED BY <1>f, <4>1, <4>4, <4>5 DEF OwnBackup
    <3>5. OwnResult
      BY <1>0, <1>f, <1>s, <1>2, BackupMoves DEF OwnResult, JobStep, GeoTypes, BackupFile, files
    <3>6. OwnRun
      BY <1>c DEF OwnRun, progress
    <3>7. OwnFiles
      BY <3>2, <3>3 DEF OwnFiles
    <3>8. rep'["geo"] # None
      BY <3>1 DEF JobStep, None, ReplaceJob
    <3>9. OwnJob
      BY <1>c, <3>1, <3>8 DEF JobStep, OwnJob
    <3>10. OwnStep
      BY <3>4, <3>5, <3>6, <3>7, <3>9 DEF OwnStep
    <3> QED BY <3>10, CleanKept
  <2>5. WorksInv'
    BY <1>0, <1>v, <1>c, <1>f, <1>2, BackupMoves DEF GeoTypes, WorksInv, CleanInv, StagesInv, Planned, JobStep, Alone, BackupFile, progress, files
  <2> QED BY <2>1, <2>2, <2>3, <2>4, <2>5 DEF GeoInv
<1>3. CASE OpenTmp(w)
  <2> DEFINE v == Other(w)
             both == rep[v].at = "write" /\ rep[v].file = rep[w].file
  <2>0. v \in Writer /\ v # w /\ Writer = {v, w}
    BY <1>v, TwoWriters
  <2>m. /\ rep[w].at = "open" /\ JobStep(w, "write")
        /\ rep'[w].had = rep[w].had /\ (rep'[w].shared <=> both)
        /\ overlapped' = IF both THEN overlapped \cup {rep[w].file} ELSE overlapped
        /\ ~both => rep'[v] = rep[v]
        /\ both => JobStep(v, "write") /\ rep'[v].had = rep[v].had /\ rep'[v].shared
    BY <1>0, <1>3, <2>0, OpenMoves
  <2>u. UNCHANGED <<files, geoCount>>
    BY <1>3 DEF OpenTmp
  <2> HIDE DEF v
  <2>1. GeoTypes'
    BY <1>0, <1>c, <1>f, <2>0, <2>m, <2>u, GeoAssumption DEF GeoTypes, JobStep, RepType, Known, ReplaceJob, files, geoCount, progress, files, geoGhost, geoCount, GeoFault
  <2>2. StagesInv'
    BY <1>0, <1>v, <1>c, <1>d, <1>f, <2>0, <2>m, <2>u DEF GeoTypes, StagesInv, JobStep, Alone, files, geoCount, progress, files, None
  <2>3. TornInv'
    <3>1. rep'[w] # None /\ rep'[w].data = rep[w].data /\ rep'[w].file = rep[w].file
          /\ rep'[v].data = rep[v].data /\ rep'[v].file = rep[v].file
          /\ (rep'[v] # None => rep[v] # None)
      <4>1. rep'[w] # None
        BY <2>m DEF JobStep, ReplaceJob, None
      <4>2. ~both => rep'[v].data = rep[v].data /\ rep'[v].file = rep[v].file /\ (rep'[v] # None => rep[v] # None)
        BY <2>m
      <4>3. both => rep'[v].data = rep[v].data /\ rep'[v].file = rep[v].file /\ rep[v] # None
        BY <2>m DEF JobStep, None
      <4> QED BY <2>m, <4>1, <4>2, <4>3 DEF JobStep
    <3>2. rep'["kernel"] # None => rep'["kernel"].data # Torn
      BY <1>0, <1>c, <2>0, <3>1 DEF TornInv, Writer
    <3>3. NeverTorn'
      BY <1>0, <2>m, <2>u DEF TornInv, NeverTorn, files
    <3>4. rep'[w].file \notin overlapped' => rep'[w].data # Torn /\ ~rep'[w].shared
      BY <1>0, <1>c, <1>f, <2>m, <3>1 DEF TornInv, JobStep
    <3>5. rep'[v] # None /\ rep'[v].file \notin overlapped' => rep'[v].data # Torn /\ ~rep'[v].shared
      BY <1>0, <2>0, <2>m, <3>1 DEF TornInv, JobStep
    <3> QED BY <2>0, <3>2, <3>3, <3>4, <3>5 DEF TornInv
  <2>4. CleanInv'
    <3> SUFFICES ASSUME w = "geo", upd \notin {"idle", "off"}, clean PROVE CleanInv'
      BY <1>k, <1>v
    <3>1. /\ rep["geo"].at # "changed" /\ JobStep("geo", rep'["geo"].at) /\ rep'["kernel"] = rep["kernel"]
          /\ ~rep'["geo"].shared
      BY <1>0, <1>v, <1>s, <2>0, <2>m, <2>u DEF JobStep, Alone, None
    <3>2. \A f \in GeoFile : \/ installed'[f] = installed[f]
                             \/ rep'["geo"].at = "changed" /\ rep'["geo"].file = f
      BY <1>0, <1>f, <1>s, <2>0, <2>m, <2>u DEF JobStep, GeoTypes, files, geoCount, files
    <3>3. \A f \in GeoFile : prev'[f] = prev[f] \/ f = rep["geo"].file
      BY <1>0, <1>f, <2>0, <2>m, <2>u DEF GeoTypes, files, geoCount, files
    <3>4. OwnBackup
      BY <1>0, <1>c, <1>f, <2>0, <2>m, <2>u DEF OwnBackup, JobStep, CleanInv, StagesInv, GeoTypes, Saved, files, geoCount, files
    <3>5. OwnResult
      BY <1>0, <1>f, <1>s, <2>0, <2>m, <2>u DEF OwnResult, JobStep, GeoTypes, files, geoCount, files
    <3>6. OwnRun
      BY <1>c DEF OwnRun, progress
    <3>7. OwnFiles
      BY <3>2, <3>3 DEF OwnFiles
    <3>8. rep'["geo"] # None
      BY <3>1 DEF JobStep, None, ReplaceJob
    <3>9. OwnJob
      BY <1>c, <3>1, <3>8 DEF JobStep, OwnJob
    <3>10. OwnStep
      BY <3>4, <3>5, <3>6, <3>7, <3>9 DEF OwnStep
    <3> QED BY <3>10, CleanKept
  <2>5. WorksInv'
    <3>1. /\ upd' = upd /\ data' = data /\ before' = before /\ installed' = installed
          /\ clean' = clean /\ spoilt' = spoilt /\ Planned' = Planned
      BY <1>c, <2>u DEF progress, files, Planned
    <3>2. rep'["kernel"] # None => rep["kernel"] # None
      <4>1. CASE w = "kernel"
        BY <1>c, <4>1
      <4>2. CASE v = "kernel"
        BY <2>m, <4>2 DEF None
      <4> QED BY <2>0, <4>1, <4>2 DEF Writer
    <3>3. upd = "replace" /\ clean => w = "geo" /\ rep'["geo"].at = "write"
      BY <1>0, <1>v, <1>c, <2>m DEF CleanInv, JobStep
    <3> QED BY <1>0, <3>1, <3>2, <3>3 DEF WorksInv
  <2> QED BY <2>1, <2>2, <2>3, <2>4, <2>5 DEF GeoInv
<1>4. CASE RenameTmp(w) \/ RenameShared(w)
  <2>1. GeoTypes'
    BY <1>0, <1>c, <1>f, <1>4, RenameMoves, GeoAssumption DEF GeoTypes, JobStep, RepType, Known, ReplaceJob, RenameTmp, RenameShared, Renamed, progress, files, geoGhost, geoCount, GeoFault
  <2>2. StagesInv'
    BY <1>0, <1>v, <1>c, <1>d, <1>f, <1>4, RenameMoves DEF GeoTypes, StagesInv, JobStep, Alone, RenameTmp, RenameShared, Renamed, progress, files, None
  <2>3. TornInv'
    BY <1>0, <1>v, <1>c, <1>f, <1>4, RenameMoves DEF GeoTypes, TornInv, NeverTorn, JobStep, Alone, RenameTmp, RenameShared, Renamed, files, geoGhost
  <2>4. CleanInv'
    <3> SUFFICES ASSUME w = "geo", upd \notin {"idle", "off"}, clean PROVE CleanInv'
      BY <1>k, <1>v
    <3>1. /\ rep["geo"].at # "changed" /\ JobStep("geo", rep'["geo"].at) /\ rep'["kernel"] = rep["kernel"]
          /\ ~rep'["geo"].shared
      BY <1>0, <1>v, <1>s, <1>4, RenameMoves DEF JobStep, Alone, None
    <3>2. \A f \in GeoFile : \/ installed'[f] = installed[f]
                             \/ rep'["geo"].at = "changed" /\ rep'["geo"].file = f
      BY <1>0, <1>f, <1>s, <1>4, RenameMoves DEF JobStep, GeoTypes, RenameTmp, RenameShared, Renamed, files
    <3>3. \A f \in GeoFile : prev'[f] = prev[f] \/ f = rep["geo"].file
      BY <1>0, <1>f, <1>4, RenameMoves DEF GeoTypes, RenameTmp, RenameShared, Renamed, files
    <3>4. OwnBackup
      BY <1>0, <1>c, <1>f, <1>4, RenameMoves DEF OwnBackup, JobStep, CleanInv, StagesInv, GeoTypes, Saved, RenameTmp, RenameShared, Renamed, files
    <3>5. OwnResult
      BY <1>0, <1>f, <1>s, <1>4, RenameMoves DEF OwnResult, JobStep, GeoTypes, RenameTmp, RenameShared, Renamed, files
    <3>6. OwnRun
      BY <1>c DEF OwnRun, progress
    <3>7. OwnFiles
      BY <3>2, <3>3 DEF OwnFiles
    <3>8. rep'["geo"] # None
      BY <3>1 DEF JobStep, None, ReplaceJob
    <3>9. OwnJob
      BY <1>c, <3>1, <3>8 DEF JobStep, OwnJob
    <3>10. OwnStep
      BY <3>4, <3>5, <3>6, <3>7, <3>9 DEF OwnStep
    <3> QED BY <3>10, CleanKept
  <2>5. WorksInv'
    <3>1. /\ rep'[w].at = "changed" /\ upd' = upd /\ data' = data /\ before' = before
          /\ clean' = clean /\ spoilt' = spoilt
      BY <1>0, <1>c, <1>4, RenameMoves DEF JobStep, progress
    <3>2. w = "geo" => upd \in {"replace", "undo"}
      BY <1>0, <1>c DEF StagesInv
    <3>3. w = "kernel" => spoilt
      BY <1>0, <1>c DEF WorksInv
    <3>4. rep'["kernel"] # None => spoilt'
      BY <1>0, <1>v, <1>c, <3>1, <3>3, <1>4, RenameMoves DEF WorksInv, Alone
    <3>5. ~spoilt' => IF upd' \in {"replace", "undo"} THEN before' \in Works ELSE installed' \in Works
      BY <1>0, <1>v, <3>1, <3>2, <3>3 DEF WorksInv
    <3>6. ASSUME upd' = "replace", clean'
          PROVE  /\ Planned' \in Works
                 /\ installed'[rep'["geo"].file] = rep'["geo"].data
      <4>1. w = "geo" /\ ~rep["geo"].shared
        BY <1>0, <1>v, <1>c, <3>1, <3>6 DEF CleanInv
      <4>2. /\ installed' = [installed EXCEPT ![rep["geo"].file] = rep["geo"].data]
            /\ rep'["geo"].file = rep["geo"].file /\ rep'["geo"].data = rep["geo"].data
        BY <1>0, <1>4, <4>1, RenameMoves DEF JobStep
      <4>3. rep["geo"].data = data[rep["geo"].file]
        BY <1>0, <1>c, <3>1, <3>6, <4>1 DEF StagesInv
      <4>4. Planned \in Works
        BY <1>0, <3>1, <3>6 DEF WorksInv
      <4>5. installed \in [GeoFile -> Known]
        BY <1>0 DEF GeoTypes
      <4>6. rep["geo"].data # Missing
        BY <1>f, <4>1, GeoAssumption
      <4>7. ASSUME NEW f \in GeoFile
            PROVE  (IF data'[f] = Missing THEN installed'[f] ELSE data'[f])
                     = (IF data[f] = Missing THEN installed[f] ELSE data[f])
        BY <3>1, <4>2, <4>3, <4>5, <4>6
      <4>8. Planned' = Planned
        BY <4>7 DEF Planned
      <4> QED BY <1>f, <4>1, <4>2, <4>4, <4>5, <4>8
    <3>7. upd' \notin {"idle", "off"} /\ ~clean' => spoilt'
      BY <1>0, <3>1 DEF WorksInv
    <3> QED BY <3>4, <3>5, <3>6, <3>7 DEF WorksInv
  <2> QED BY <2>1, <2>2, <2>3, <2>4, <2>5 DEF GeoInv
<1>5. CASE ReplaceFails(w)
  <2>1. GeoTypes'
    BY <1>0, <1>c, <1>f, <1>5, FailsMoves, GeoAssumption DEF GeoTypes, JobStep, RepType, Known, ReplaceJob, ReplaceFails, progress, files, geoGhost, geoCount, GeoFault
  <2>2. StagesInv'
    BY <1>0, <1>v, <1>c, <1>d, <1>f, <1>5, FailsMoves DEF GeoTypes, StagesInv, JobStep, Alone, ReplaceFails, progress, files, None
  <2>3. TornInv'
    BY <1>0, <1>v, <1>c, <1>f, <1>5, FailsMoves DEF GeoTypes, TornInv, NeverTorn, JobStep, Alone, ReplaceFails, files, geoGhost
  <2>4. CleanInv'
    <3> SUFFICES ASSUME w = "geo", upd \notin {"idle", "off"}, clean PROVE CleanInv'
      BY <1>k, <1>v
    <3>1. /\ rep["geo"].at # "changed" /\ JobStep("geo", rep'["geo"].at) /\ rep'["kernel"] = rep["kernel"]
          /\ ~rep'["geo"].shared
      BY <1>0, <1>v, <1>s, <1>5, FailsMoves DEF JobStep, Alone, None
    <3>2. \A f \in GeoFile : \/ installed'[f] = installed[f]
                             \/ rep'["geo"].at = "changed" /\ rep'["geo"].file = f
      BY <1>0, <1>f, <1>s, <1>5, FailsMoves DEF JobStep, GeoTypes, ReplaceFails, files
    <3>3. \A f \in GeoFile : prev'[f] = prev[f] \/ f = rep["geo"].file
      BY <1>0, <1>f, <1>5, FailsMoves DEF GeoTypes, ReplaceFails, files
    <3>4. OwnBackup
      BY <1>0, <1>c, <1>f, <1>5, FailsMoves DEF OwnBackup, JobStep, CleanInv, StagesInv, GeoTypes, Saved, ReplaceFails, files
    <3>5. OwnResult
      BY <1>0, <1>f, <1>s, <1>5, FailsMoves DEF OwnResult, JobStep, GeoTypes, ReplaceFails, files
    <3>6. OwnRun
      BY <1>c DEF OwnRun, progress
    <3>7. OwnFiles
      BY <3>2, <3>3 DEF OwnFiles
    <3>8. rep'["geo"] # None
      BY <3>1 DEF JobStep, None, ReplaceJob
    <3>9. OwnJob
      BY <1>c, <3>1, <3>8 DEF JobStep, OwnJob
    <3>10. OwnStep
      BY <3>4, <3>5, <3>6, <3>7, <3>9 DEF OwnStep
    <3> QED BY <3>10, CleanKept
  <2>5. WorksInv'
    BY <1>0, <1>v, <1>c, <1>f, <1>5, FailsMoves DEF GeoTypes, WorksInv, CleanInv, StagesInv, Planned, JobStep, Alone, ReplaceFails, progress, files
  <2> QED BY <2>1, <2>2, <2>3, <2>4, <2>5 DEF GeoInv
<1> QED BY <1>1, <1>2, <1>3, <1>4, <1>5 DEF ReplaceStep

LEMMA LastDone ==
    ASSUME done \in Seq(DoneEntry), done # <<>>
    PROVE  /\ Len(done) \in Nat /\ Len(done) >= 1
           /\ Last(done) = done[Len(done)] /\ Last(done) \in DoneEntry
           /\ Front(done) \in Seq(DoneEntry) /\ Len(Front(done)) = Len(done) - 1
           /\ \A i \in 1..(Len(done) - 1) : Front(done)[i] = done[i]
<1>1. Len(done) \in Nat /\ Len(done) >= 1
  OBVIOUS
<1>2. Front(done) = SubSeq(done, 1, Len(done) - 1) /\ Last(done) = done[Len(done)]
  BY DEF Front, Last
<1>3. Last(done) \in DoneEntry
  BY <1>1, <1>2
<1> DEFINE n == Len(done) - 1
<1>5. n \in Int /\ 1 \in Int /\ (1 <= n \/ n = 0) /\ \A i \in 1..n : done[i] \in DoneEntry
  <2>1. n \in Int /\ (1 <= n \/ n = 0)
    <3>1. \A k \in Nat : k >= 1 => k - 1 \in Int /\ (1 <= k - 1 \/ k - 1 = 0)
      OBVIOUS
    <3> QED BY <1>1, <3>1
  <2>2. \A i \in 1..n : i \in 1..Len(done)
    BY <1>1
  <2>3. \A i \in 1..Len(done) : done[i] \in DoneEntry
    OBVIOUS
  <2> QED BY <2>1, <2>2, <2>3
<1>6. /\ SubSeq(done, 1, n) \in Seq(DoneEntry)
      /\ Len(SubSeq(done, 1, n)) = IF 1 <= n THEN n - 1 + 1 ELSE 0
      /\ \A i \in 1..(n - 1 + 1) : SubSeq(done, 1, n)[i] = done[1 + i - 1]
  <2> HIDE DEF n
  <2> QED BY <1>5, SubSeqProperties
<1>7. n - 1 + 1 = n /\ \A i \in 1..n : 1 + i - 1 = i
  BY <1>5
<1>8. /\ Len(SubSeq(done, 1, n)) = n
      /\ \A i \in 1..n : SubSeq(done, 1, n)[i] = done[i]
  <2> HIDE DEF n
  <2> QED BY <1>5, <1>6, <1>7
<1> QED BY <1>1, <1>2, <1>3, <1>6, <1>8

LEMMA MoreDone ==
    ASSUME done \in Seq(DoneEntry), NEW d \in DoneEntry
    PROVE  /\ Append(done, d) \in Seq(DoneEntry) /\ Len(Append(done, d)) = Len(done) + 1
           /\ \A i \in 1..Len(done) : Append(done, d)[i] = done[i]
           /\ Append(done, d)[Len(done) + 1] = d
  OBVIOUS

\* The steps of Update outside ReplaceGeoFile.
LEMMA GeoRunStep ==
    ASSUME GeoInv, StartUpdate \/ FetchAndTest \/ FetchFails \/ ReplaceFailed \/ UndoEnds \/ AllReplaced \/ SaveState
    PROVE  GeoInv'
<1>0. GeoTypes /\ StagesInv /\ TornInv /\ CleanInv /\ WorksInv /\ rep \in RepType
  BY DEF GeoInv, GeoTypes, RepType
<1>v. Writer = {"geo", "kernel"}
  BY DEF Writer
<1>e. installed \in [GeoFile -> Known] /\ before \in [GeoFile -> Known]
  BY <1>0 DEF GeoTypes
<1>q. Len(<<>>) = 0 /\ <<>> \in Seq(DoneEntry)
  OBVIOUS
<1>n. NoFile \in [GeoFile -> Content \cup {Missing}] /\ NoFile \in [GeoFile -> Known]
      /\ \A f \in GeoFile : NoFile[f] = Missing
  BY DEF NoFile, Known
\* Outside a replacement a clean run has the files it began with.
<1>b. ASSUME upd \notin {"idle", "off", "updated"}, clean, rep["geo"] = None, done = <<>>
      PROVE  installed = before
  <2>1. \A f \in GeoFile : installed[f] = before[f]
    BY <1>0, <1>b, <1>q DEF CleanInv, None
  <2> QED BY <1>e, <2>1
<1>1. CASE StartUpdate
  <2>1. GeoTypes'
    BY <1>0, <1>1 DEF GeoTypes, StartUpdate, files, geoCount
  <2>2. StagesInv'
    BY <1>0, <1>1 DEF StagesInv, StartUpdate, files, geoCount
  <2>3. TornInv'
    BY <1>0, <1>1 DEF TornInv, NeverTorn, StartUpdate, files, geoCount
  <2>4. rep["geo"] = None /\ done = <<>>
    BY <1>0, <1>1 DEF StagesInv, StartUpdate
  <2>5. CleanInv'
    <3>1. /\ upd' = "fetch" /\ before' = installed /\ installed' = installed /\ rep' = rep /\ done' = done
          /\ (clean' => rep["kernel"] = None)
      BY <1>1 DEF StartUpdate, files
    <3> QED BY <1>q, <2>4, <3>1 DEF CleanInv, Undoing, None
  <2>6. WorksInv'
    BY <1>0, <1>1 DEF WorksInv, StagesInv, StartUpdate, files, geoCount
  <2> QED BY <2>1, <2>2, <2>3, <2>5, <2>6 DEF GeoInv
<1>2. CASE FetchAndTest
  <2>1. PICK d \in [Wanted -> Content] : data' = [f \in GeoFile |-> IF f \in Wanted THEN d[f] ELSE Missing]
    BY <1>2 DEF FetchAndTest
  <2>2. /\ data' \in [GeoFile -> Content \cup {Missing}]
        /\ \A f \in GeoFile : IF f \in Wanted THEN data'[f] # Missing ELSE data'[f] = Missing
    BY <2>1, GeoAssumption
  <2>3. upd = "fetch" /\ rep["geo"] = None /\ done = <<>>
    BY <1>0, <1>2 DEF StagesInv, FetchAndTest
  <2>4. GeoTypes'
    BY <1>0, <1>2, <2>2, GeoAssumption DEF GeoTypes, FetchAndTest, GeoFault, files, geoGhost
  <2>5. StagesInv'
    BY <1>0, <1>2, <1>q, <2>2, <2>3 DEF StagesInv, FetchAndTest, files, None
  <2>6. TornInv'
    BY <1>0, <1>2 DEF TornInv, NeverTorn, FetchAndTest, files, geoGhost
  <2>7. CleanInv'
    BY <1>0, <1>2, <1>q, <2>3 DEF CleanInv, Undoing, FetchAndTest, files, geoGhost, None
  <2>8. upd' = "replace" => Planned' \in Works
    <3>1. Planned' = Staged
      BY <1>2, <2>2 DEF Planned, Staged, FetchAndTest, files
    <3> QED BY <1>2, <3>1 DEF FetchAndTest
  <2>9. /\ installed' = installed /\ before' = before /\ clean' = clean /\ spoilt' = spoilt /\ rep' = rep
        /\ upd' \in {"replace", "failed"}
    BY <1>2 DEF FetchAndTest, files, geoGhost
  <2>10. ~spoilt => installed \in Works /\ before \in Works
    BY <1>0, <1>b, <2>3 DEF WorksInv
  <2>11. WorksInv'
    BY <1>0, <2>3, <2>8, <2>9, <2>10 DEF WorksInv, None
  <2> QED BY <2>4, <2>5, <2>6, <2>7, <2>11 DEF GeoInv
<1>3. CASE FetchFails
  <2>1. GeoTypes'
    BY <1>0, <1>3, GeoAssumption DEF GeoTypes, FetchFails, GeoFault, files, geoGhost
  <2>2. StagesInv'
    BY <1>0, <1>3 DEF StagesInv, FetchFails, files
  <2>3. TornInv'
    BY <1>0, <1>3 DEF TornInv, NeverTorn, FetchFails, files, geoGhost
  <2>4. CleanInv'
    BY <1>0, <1>3 DEF CleanInv, StagesInv, Undoing, FetchFails, files, geoGhost, Saved
  <2>5. WorksInv'
    BY <1>0, <1>3 DEF WorksInv, FetchFails, files, geoGhost
  <2> QED BY <2>1, <2>2, <2>3, <2>4, <2>5 DEF GeoInv
<1>4. CASE ReplaceFailed
  <2>1. rep' = [rep EXCEPT !["geo"] = None] /\ rep' \in RepType /\ rep'["geo"] = None /\ rep'["kernel"] = rep["kernel"]
    BY <1>0, <1>4, <1>v DEF ReplaceFailed, RepType
  <2>2. /\ upd = "replace" /\ upd' = "undo" /\ data' = data /\ done' = done /\ sync' = sync
        /\ installed' = installed /\ prev' = prev /\ rep["geo"] # None /\ rep["geo"].at = "failed"
        /\ before' = before /\ clean' = clean /\ spoilt' = spoilt /\ overlapped' = overlapped
        /\ geoFaults' = geoFaults /\ syncs' = syncs
    BY <1>4 DEF ReplaceFailed, files, geoGhost, geoCount, None
  <2>3. GeoTypes'
    BY <1>0, <2>1, <2>2 DEF GeoTypes, RepType
  <2>4. StagesInv'
    BY <1>0, <1>v, <2>1, <2>2 DEF StagesInv
  <2>5. TornInv'
    BY <1>0, <1>v, <2>1, <2>2 DEF TornInv, NeverTorn
  <2>6. clean => \A i \in 1..Len(done) : Saved(done[i])'
    BY <1>0, <2>2 DEF CleanInv, Undoing, Saved
  <2>7. CleanInv'
    BY <1>0, <2>1, <2>2, <2>6 DEF CleanInv, Undoing, None
  <2>8. WorksInv'
    BY <1>0, <2>1, <2>2 DEF WorksInv
  <2> QED BY <2>3, <2>4, <2>5, <2>7, <2>8 DEF GeoInv
<1>5. CASE UndoEnds
  <2>1. GeoTypes'
    BY <1>0, <1>5 DEF GeoTypes, UndoEnds, files, geoGhost, geoCount
  <2>2. StagesInv'
    BY <1>0, <1>5 DEF StagesInv, UndoEnds, files
  <2>3. TornInv'
    BY <1>0, <1>5 DEF TornInv, NeverTorn, UndoEnds, files, geoGhost
  <2>4. CleanInv'
    BY <1>0, <1>5, <1>q DEF CleanInv, Undoing, UndoEnds, files, geoGhost, None
  <2>5. clean => installed = before
    BY <1>b, <1>5 DEF UndoEnds
  <2>6. WorksInv'
    BY <1>0, <1>5, <2>5 DEF WorksInv, UndoEnds, files, geoGhost
  <2> QED BY <2>1, <2>2, <2>3, <2>4, <2>6 DEF GeoInv
<1>6. CASE AllReplaced
  <2>1. GeoTypes'
    BY <1>0, <1>6, <1>q DEF GeoTypes, AllReplaced, files, geoCount
  <2>2. StagesInv'
    BY <1>0, <1>6, <1>q DEF StagesInv, AllReplaced, files, geoCount
  <2>3. TornInv'
    BY <1>0, <1>6 DEF TornInv, NeverTorn, AllReplaced, files, geoCount
  <2>4. CleanInv'
    BY <1>0, <1>6, <1>q DEF CleanInv, Undoing, AllReplaced, files, None
  <2>5. clean => installed \in Works
    <3>1. \A f \in GeoFile : data[f] = Missing
      BY <1>0, <1>6 DEF StagesInv, AllReplaced
    <3>2. Planned = installed
      BY <1>e, <3>1 DEF Planned
    <3> QED BY <1>0, <1>6, <3>2 DEF WorksInv, AllReplaced
  <2>6. clean => rep["kernel"] = None
    BY <1>0, <1>6 DEF CleanInv, AllReplaced
  <2>7. WorksInv'
    BY <1>0, <1>6, <2>5, <2>6 DEF WorksInv, AllReplaced, files, GeoTypes
  <2> QED BY <2>1, <2>2, <2>3, <2>4, <2>7 DEF GeoInv
<1>7. CASE SaveState
  <2>1. rep["geo"] = None /\ done = <<>>
    BY <1>0, <1>7 DEF StagesInv, SaveState
  <2>2. GeoTypes'
    BY <1>0, <1>7, <1>n DEF GeoTypes, SaveState, files, geoCount
  <2>3. StagesInv'
    BY <1>0, <1>7, <1>n, <1>q, <2>1 DEF StagesInv, SaveState, files
  <2>4. TornInv'
    BY <1>0, <1>7 DEF TornInv, NeverTorn, SaveState, files
  <2>5. CleanInv'
    BY <1>7 DEF CleanInv, SaveState
  <2>6. WorksInv'
    BY <1>0, <1>7 DEF WorksInv, SaveState, files
  <2> QED BY <2>2, <2>3, <2>4, <2>5, <2>6 DEF GeoInv
<1> QED BY <1>1, <1>2, <1>3, <1>4, <1>5, <1>6, <1>7

\* The updater takes up a file, and puts it away.
LEMMA GeoFileStep ==
    ASSUME GeoInv, Replaced \/ \E f \in GeoFile : ReplaceNext(f)
    PROVE  GeoInv'
<1>0. GeoTypes /\ StagesInv /\ TornInv /\ CleanInv /\ WorksInv /\ rep \in RepType
  BY DEF GeoInv, GeoTypes, RepType
<1>v. Writer = {"geo", "kernel"} /\ "geo" \in Writer
  BY DEF Writer
<1>e. /\ installed \in [GeoFile -> Known] /\ data \in [GeoFile -> Content \cup {Missing}]
      /\ done \in Seq(DoneEntry)
  BY <1>0 DEF GeoTypes
<1>1. ASSUME NEW f \in GeoFile, ReplaceNext(f)
      PROVE  GeoInv'
  <2> DEFINE n == Replacing(f, data[f])
  <2>1. n \in ReplaceJob /\ n.at = "compare" /\ n.file = f /\ n.data = data[f] /\ n.had = FALSE /\ n.shared = FALSE
        /\ data[f] # Torn /\ n # None
    <3>1. data[f] \in Content \cup {Torn} /\ data[f] # Torn
      BY <1>e, <1>1, GeoAssumption DEF ReplaceNext
    <3>2. n \in ReplaceJob /\ n.at = "compare" /\ n.file = f /\ n.data = data[f] /\ n.had = FALSE /\ n.shared = FALSE
      BY <3>1, NewJob
    <3> HIDE DEF n
    <3> QED BY <3>1, <3>2, JobPut
  <2>2. /\ upd = "replace" /\ upd' = upd /\ data' = data /\ done' = done /\ sync' = sync
        /\ installed' = installed /\ prev' = prev /\ rep["geo"] = None
        /\ before' = before /\ clean' = clean /\ spoilt' = spoilt /\ overlapped' = overlapped
        /\ geoFaults' = geoFaults /\ syncs' = syncs /\ rep' = [rep EXCEPT !["geo"] = n]
    BY <1>1 DEF ReplaceNext, files, progress, geoGhost, geoCount
  <2> HIDE DEF n
  <2>3. rep' \in RepType /\ rep'["geo"] = n /\ rep'["kernel"] = rep["kernel"]
    BY <1>0, <1>v, <2>1, <2>2 DEF RepType
  <2>4. GeoTypes'
    BY <1>0, <2>2, <2>3 DEF GeoTypes, RepType
  <2>5. StagesInv'
    BY <1>0, <1>v, <2>1, <2>2, <2>3 DEF StagesInv
  <2>6. TornInv'
    BY <1>0, <1>v, <2>1, <2>2, <2>3 DEF TornInv, NeverTorn
  <2>7. clean => \A i \in 1..Len(done) : Saved(done[i])'
    BY <1>0, <2>2 DEF CleanInv, Undoing, Saved
  <2>8. CleanInv'
    BY <1>0, <2>1, <2>2, <2>3, <2>7 DEF CleanInv, Undoing, None
  <2>9. Planned' = Planned
    BY <2>2 DEF Planned
  <2>10. WorksInv'
    BY <1>0, <2>1, <2>2, <2>3, <2>9 DEF WorksInv
  <2> QED BY <2>4, <2>5, <2>6, <2>8, <2>10 DEF GeoInv
<1>2. CASE Replaced
  <2> DEFINE j == rep["geo"]
             d == [file |-> j.file, had |-> j.had]
  <2>1. /\ upd = "replace" /\ j.at \in {"same", "changed"} /\ rep' = [rep EXCEPT !["geo"] = None]
        /\ data' = [data EXCEPT ![j.file] = Missing]
        /\ done' = IF j.at = "changed" THEN Append(done, d) ELSE done
        /\ upd' = upd /\ sync' = sync
        /\ installed' = installed /\ prev' = prev
        /\ before' = before /\ clean' = clean /\ spoilt' = spoilt /\ overlapped' = overlapped
        /\ geoFaults' = geoFaults /\ syncs' = syncs
    BY <1>2 DEF Replaced, files, geoGhost, geoCount
  <2>2. rep' \in RepType /\ rep'["geo"] = None /\ rep'["kernel"] = rep["kernel"]
    BY <1>0, <1>v, <2>1 DEF RepType
  <2>3. /\ j # None /\ j \in ReplaceJob /\ j.file \in GeoFile /\ j.had \in BOOLEAN
        /\ j.data \in Content \cup {Torn} /\ j.data # Missing /\ j.data = data[j.file]
    <3>1. j # None
      BY <2>1 DEF None
    <3>2. j \in ReplaceJob
      BY <1>0, <1>v, <3>1, Jobs DEF RepType
    <3>3. j.file \in GeoFile /\ j.had \in BOOLEAN /\ j.data \in Content \cup {Torn}
      BY <3>2, JobPut
    <3> QED BY <1>0, <2>1, <3>1, <3>2, <3>3, GeoAssumption DEF StagesInv
  <2>4. d \in DoneEntry /\ d.file = j.file /\ d.had = j.had
    BY <2>3 DEF DoneEntry
  <2>5. /\ data' \in [GeoFile -> Content \cup {Missing}] /\ data'[j.file] = Missing
        /\ \A f \in GeoFile : f # j.file => data'[f] = data[f]
    BY <1>e, <2>1, <2>3
  <2>6. \A i \in 1..Len(done) : done[i].file \in GeoFile /\ done[i].file # j.file
    BY <1>0, <1>e, <2>3, DoneTyped DEF StagesInv
  <2>7. /\ done' \in Seq(DoneEntry)
        /\ \A i \in 1..Len(done') : (i \in 1..Len(done) /\ done'[i] = done[i])
                                    \/ (j.at = "changed" /\ i = Len(done) + 1 /\ done'[i] = d)
        /\ \A i \in 1..Len(done) : i \in 1..Len(done') /\ done'[i] = done[i]
        /\ j.at = "changed" => Len(done) + 1 \in 1..Len(done') /\ done'[Len(done) + 1] = d
    <3> HIDE DEF d, j
    <3>1. CASE j.at = "changed"
      BY <1>e, <2>1, <2>4, <3>1, MoreDone
    <3>2. CASE j.at # "changed"
      BY <1>e, <2>1, <3>2
    <3> QED BY <3>1, <3>2
  <2>8. GeoTypes'
    BY <1>0, <2>1, <2>2, <2>5, <2>7 DEF GeoTypes, RepType
  <2>9. StagesInv'
    <3>1. \A f \in GeoFile \ Wanted : data'[f] = Missing
      BY <1>0, <2>5 DEF StagesInv
    <3>2. \A i \in 1..Len(done') : /\ data'[done'[i].file] = Missing
                                   /\ done'[i].had => prev'[done'[i].file] # Missing
      BY <1>0, <2>1, <2>3, <2>4, <2>5, <2>6, <2>7, <1>v DEF StagesInv
    <3>3. \A i \in 1..Len(done') : \A k \in 1..Len(done') : done'[i].file = done'[k].file => i = k
      BY <1>0, <2>4, <2>6, <2>7 DEF StagesInv
    <3> QED BY <1>0, <1>v, <2>1, <2>2, <3>1, <3>2, <3>3 DEF StagesInv
  <2>10. TornInv'
    BY <1>0, <1>v, <2>1, <2>2 DEF TornInv, NeverTorn
  <2>11. CleanInv'
    <3> SUFFICES ASSUME clean PROVE CleanInv'
      BY <2>1 DEF CleanInv
    <3>1. \A i \in 1..Len(done') : Saved(done[i])'
      <4> SUFFICES ASSUME NEW i \in 1..Len(done') PROVE Saved(done[i])'
        OBVIOUS
      <4>1. CASE i \in 1..Len(done) /\ done'[i] = done[i]
        BY <1>0, <2>1, <4>1 DEF CleanInv, Undoing, Saved
      <4>2. CASE j.at = "changed" /\ done'[i] = d
        <5>1. Saved(j)
          BY <1>0, <2>1, <4>2 DEF CleanInv
        <5> QED BY <2>1, <2>4, <4>2, <5>1 DEF Saved
      <4> QED BY <2>7, <4>1, <4>2
    <3>2. \A f \in GeoFile : installed'[f] = before'[f] \/ \E i \in 1..Len(done') : done'[i].file = f
      <4> SUFFICES ASSUME NEW f \in GeoFile, installed[f] # before[f]
                   PROVE  \E i \in 1..Len(done') : done'[i].file = f
        BY <2>1
      <4>1. CASE \E i \in 1..Len(done) : done[i].file = f
        BY <2>7, <4>1
      <4>2. CASE j.at = "changed" /\ j.file = f
        BY <2>4, <2>7, <4>2
      <4> QED BY <1>0, <2>1, <4>1, <4>2 DEF CleanInv
    <3> QED BY <1>0, <2>1, <2>2, <3>1, <3>2 DEF CleanInv, Undoing, None
  <2>12. WorksInv'
    <3>1. ASSUME clean PROVE Planned' \in Works
      <4>1. installed[j.file] = j.data /\ Planned \in Works
        BY <1>0, <2>1, <3>1 DEF WorksInv
      <4>2. \A f \in GeoFile : (IF data'[f] = Missing THEN installed'[f] ELSE data'[f])
                                 = (IF data[f] = Missing THEN installed[f] ELSE data[f])
        BY <2>1, <2>3, <2>5, <4>1
      <4>3. Planned' = Planned
        BY <4>2 DEF Planned
      <4> QED BY <4>1, <4>3
    <3> QED BY <1>0, <2>1, <2>2, <3>1 DEF WorksInv, None
  <2> QED BY <2>8, <2>9, <2>10, <2>11, <2>12 DEF GeoInv
<1> QED BY <1>1, <1>2

\* The updater undoes the last of what it replaced.
LEMMA GeoUndoStep ==
    ASSUME GeoInv, UndoNext \/ Undone
    PROVE  GeoInv'
<1>0. GeoTypes /\ StagesInv /\ TornInv /\ CleanInv /\ WorksInv /\ rep \in RepType
  BY DEF GeoInv, GeoTypes, RepType
<1>v. Writer = {"geo", "kernel"} /\ "geo" \in Writer
  BY DEF Writer
<1>e. /\ installed \in [GeoFile -> Known] /\ prev \in [GeoFile -> Known]
      /\ done \in Seq(DoneEntry)
  BY <1>0 DEF GeoTypes
<1> DEFINE n == Len(done)
           f == done[n].file
           k == Front(done)
<1>1. upd = "undo" /\ done # <<>>
  BY <1>0 DEF UndoNext, Undone, StagesInv, None
<1>2. /\ n \in Nat /\ n >= 1 /\ n \in 1..n /\ Last(done) = done[n] /\ done[n] \in DoneEntry
      /\ k \in Seq(DoneEntry) /\ Len(k) = n - 1
      /\ \A i \in 1..(n - 1) : k[i] = done[i] /\ i \in 1..n /\ i # n
      /\ f \in GeoFile /\ done[n].had \in BOOLEAN
  <2>1. n \in Nat /\ n >= 1 /\ Last(done) = done[n] /\ Last(done) \in DoneEntry
        /\ k \in Seq(DoneEntry) /\ Len(k) = n - 1 /\ \A i \in 1..(n - 1) : k[i] = done[i]
    BY <1>1, <1>e, LastDone
  <2> HIDE DEF n, k
  <2>2. n \in 1..n /\ \A i \in 1..(n - 1) : i \in 1..n /\ i # n
    BY <2>1
  <2>3. f \in GeoFile /\ done[n].had \in BOOLEAN
    BY <2>1 DEF DoneEntry
  <2> QED BY <2>1, <2>2, <2>3
<1>3. /\ \A i \in 1..n : done[i].file \in GeoFile
      /\ \A i \in 1..(n - 1) : done[i].file # f
      /\ \A i \in 1..n : data[done[i].file] = Missing /\ (done[i].had => prev[done[i].file] # Missing)
      /\ \A i \in 1..n : \A m \in 1..n : done[i].file = done[m].file => i = m
  <2>1. \A i \in 1..n : done[i].file \in GeoFile
    BY <1>e, DoneTyped
  <2>2. /\ \A i \in 1..n : data[done[i].file] = Missing /\ (done[i].had => prev[done[i].file] # Missing)
        /\ \A i \in 1..n : \A m \in 1..n : done[i].file = done[m].file => i = m
    BY <1>0 DEF StagesInv
  <2> HIDE DEF n
  <2> QED BY <1>2, <2>1, <2>2
<1>4. ASSUME NEW i \in 1..n PROVE i = n \/ i \in 1..(n - 1)
  <2> HIDE DEF n
  <2> QED BY <1>2
<1> HIDE DEF n, k
<1>5. CASE UndoNext /\ Last(done).had
  <2> DEFINE j == Replacing(f, prev[f])
  <2>1. done[n].had /\ prev[f] # Missing /\ prev[f] \in Content \cup {Torn}
    BY <1>e, <1>2, <1>3, <1>5 DEF Known
  <2>2. j \in ReplaceJob /\ j.at = "compare" /\ j.file = f /\ j.data = prev[f] /\ j.had = FALSE /\ j.shared = FALSE
        /\ j # None
    <3>1. j \in ReplaceJob /\ j.at = "compare" /\ j.file = f /\ j.data = prev[f] /\ j.had = FALSE /\ j.shared = FALSE
      <4>1. \A g \in GeoFile : \A c \in Content \cup {Torn} :
              /\ Replacing(g, c) \in ReplaceJob /\ Replacing(g, c).at = "compare"
              /\ Replacing(g, c).file = g /\ Replacing(g, c).data = c
              /\ Replacing(g, c).had = FALSE /\ Replacing(g, c).shared = FALSE
        BY NewJob
      <4>2. f \in GeoFile /\ prev[f] \in Content \cup {Torn}
        BY <1>2, <2>1
      <4> HIDE DEF f
      <4> QED BY <4>1, <4>2
    <3> HIDE DEF j
    <3> QED BY <3>1, JobPut
  <2>3. /\ upd' = upd /\ data' = data /\ done' = done /\ sync' = sync
        /\ installed' = installed /\ prev' = prev /\ rep["geo"] = None
        /\ before' = before /\ clean' = clean /\ spoilt' = spoilt /\ overlapped' = overlapped
        /\ geoFaults' = geoFaults /\ syncs' = syncs /\ rep' = [rep EXCEPT !["geo"] = j]
    BY <1>2, <1>5 DEF UndoNext, files, progress, geoGhost, geoCount
  <2> HIDE DEF j
  <2>4. rep' \in RepType /\ rep'["geo"] = j /\ rep'["kernel"] = rep["kernel"]
    BY <1>0, <1>v, <2>2, <2>3 DEF RepType
  <2>5. GeoTypes'
    BY <1>0, <2>3, <2>4 DEF GeoTypes, RepType
  <2>6. StagesInv'
    BY <1>0, <1>1, <1>v, <2>2, <2>3, <2>4 DEF StagesInv, n
  <2>7. TornInv'
    BY <1>0, <1>2, <1>v, <2>2, <2>3, <2>4 DEF TornInv, NeverTorn
  <2>8. clean => \A i \in 1..Len(done) : Saved(done[i])
    BY <1>0, <1>1, <2>3 DEF CleanInv, Undoing
  <2>9. clean => prev[f] = before[f]
    BY <1>2, <2>1, <2>8 DEF Saved, n
  <2>10. clean => \A i \in 1..Len(done) : Saved(done[i])'
    BY <2>3, <2>8 DEF Saved
  <2>11. CleanInv'
    BY <1>0, <1>1, <2>2, <2>3, <2>4, <2>9, <2>10 DEF CleanInv, Undoing, None
  <2>12. WorksInv'
    BY <1>0, <1>1, <2>3, <2>4 DEF WorksInv
  <2> QED BY <2>5, <2>6, <2>7, <2>11, <2>12 DEF GeoInv
<1>6. CASE UndoNext /\ ~Last(done).had
  <2>1. /\ upd' = upd /\ data' = data /\ done' = k /\ sync' = sync /\ rep' = rep
        /\ installed' = [installed EXCEPT ![f] = Missing] /\ prev' = prev /\ rep["geo"] = None
        /\ before' = before /\ clean' = clean /\ spoilt' = spoilt /\ overlapped' = overlapped
        /\ geoFaults' = geoFaults /\ syncs' = syncs
    BY <1>2, <1>6 DEF UndoNext, files, progress, geoGhost, geoCount, k
  <2>2. installed' \in [GeoFile -> Known] /\ installed'[f] = Missing
        /\ \A g \in GeoFile : g # f => installed'[g] = installed[g]
    BY <1>e, <1>2, <2>1 DEF Known
  <2>3. GeoTypes'
    BY <1>0, <1>2, <2>1, <2>2 DEF GeoTypes, RepType
  <2>4. StagesInv'
    BY <1>0, <1>1, <1>2, <1>3, <1>v, <2>1 DEF StagesInv
  <2>5. TornInv'
    BY <1>0, <1>v, <2>1, <2>2, GeoAssumption DEF TornInv, NeverTorn
  <2>6. clean => \A i \in 1..n : Saved(done[i])
    BY <1>0, <1>1, <2>1 DEF CleanInv, Undoing, n
  <2>7. clean => before[f] = Missing
    BY <1>2, <1>6, <2>6 DEF Saved
  <2>8. clean => \A i \in 1..Len(done') : Saved(done[i])'
    BY <1>2, <2>1, <2>6 DEF Saved
  <2>9. clean => \A g \in GeoFile : installed'[g] = before'[g] \/ \E i \in 1..Len(done') : done'[i].file = g
    <3> SUFFICES ASSUME clean, NEW g \in GeoFile, g # f, installed[g] # before[g]
                 PROVE  \E i \in 1..(n - 1) : k[i].file = g
      BY <1>2, <2>1, <2>2, <2>7
    <3>1. PICK i \in 1..n : done[i].file = g
      BY <1>0, <1>1, <2>1 DEF CleanInv, None, n
    <3> QED BY <1>2, <1>4, <3>1
  <2>10. CleanInv'
    BY <1>0, <1>1, <2>1, <2>8, <2>9 DEF CleanInv, Undoing, None
  <2>11. WorksInv'
    BY <1>0, <1>1, <2>1 DEF WorksInv
  <2> QED BY <2>3, <2>4, <2>5, <2>10, <2>11 DEF GeoInv
<1>7. CASE Undone
  <2> DEFINE failed == rep["geo"].at = "failed"
  <2>1. /\ upd' = upd /\ data' = data /\ done' = k /\ sync' = sync /\ rep' = [rep EXCEPT !["geo"] = None]
        /\ installed' = installed /\ prev' = prev /\ rep["geo"] # None
        /\ before' = before /\ overlapped' = overlapped
        /\ (clean' <=> clean /\ ~failed) /\ (spoilt' <=> spoilt \/ failed)
        /\ clean' \in BOOLEAN /\ spoilt' \in BOOLEAN
        /\ geoFaults' = geoFaults /\ syncs' = syncs
        /\ (~failed => rep["geo"].at \in {"same", "changed"})
    <3>1. clean' = (clean /\ ~failed) /\ spoilt' = (spoilt \/ failed)
      BY <1>7 DEF Undone
    <3>2. /\ upd' = upd /\ data' = data /\ done' = k /\ sync' = sync /\ rep' = [rep EXCEPT !["geo"] = None]
          /\ installed' = installed /\ prev' = prev /\ rep["geo"] # None
          /\ before' = before /\ overlapped' = overlapped
          /\ geoFaults' = geoFaults /\ syncs' = syncs
          /\ (~failed => rep["geo"].at \in {"same", "changed"})
      BY <1>7 DEF Undone, files, progress, geoGhost, geoCount, k, None
    <3> QED BY <3>1, <3>2
  <2>2. rep' \in RepType /\ rep'["geo"] = None /\ rep'["kernel"] = rep["kernel"]
    BY <1>0, <1>v, <2>1 DEF RepType
  <2>3. GeoTypes'
    BY <1>0, <1>2, <2>1, <2>2 DEF GeoTypes, RepType
  <2>4. StagesInv'
    BY <1>0, <1>1, <1>2, <1>3, <1>v, <2>1, <2>2 DEF StagesInv
  <2>5. TornInv'
    BY <1>0, <1>v, <2>1, <2>2 DEF TornInv, NeverTorn
  <2>6. rep["geo"].file = f
    BY <1>0, <1>1, <2>1 DEF StagesInv, n
  <2>7. clean' => installed[f] = before[f]
    BY <1>0, <1>1, <2>1, <2>6 DEF CleanInv, Undoing
  <2>8. clean' => \A i \in 1..(n - 1) : Saved(done[i])
    BY <1>0, <1>1, <1>2, <2>1 DEF CleanInv, n
  <2>9. clean' => \A i \in 1..Len(done') : Saved(done[i])'
    BY <1>2, <2>1, <2>8 DEF Saved
  <2>10. clean' => \A g \in GeoFile : installed'[g] = before'[g] \/ \E i \in 1..Len(done') : done'[i].file = g
    <3> SUFFICES ASSUME clean', NEW g \in GeoFile, g # f, installed[g] # before[g]
                 PROVE  \E i \in 1..(n - 1) : k[i].file = g
      BY <1>2, <2>1, <2>7
    <3>1. PICK i \in 1..n : done[i].file = g
      BY <1>0, <1>1, <2>1, <2>6 DEF CleanInv, n
    <3> QED BY <1>2, <1>4, <3>1
  <2>11. CleanInv'
    BY <1>0, <1>1, <2>1, <2>2, <2>9, <2>10 DEF CleanInv, Undoing, None
  <2>12. WorksInv'
    BY <1>0, <1>1, <2>1, <2>2 DEF WorksInv
  <2> QED BY <2>3, <2>4, <2>5, <2>11, <2>12 DEF GeoInv
<1> QED BY <1>5, <1>6, <1>7

\* What a kernel upgrade and a crash do to the files of an update.
LEMMA GeoOtherStep ==
    ASSUME GeoInv, SyncNext \/ GeoCrash \/ \E c \in Bundle : KernelSync(c)
    PROVE  GeoInv'
<1>0. GeoTypes /\ StagesInv /\ TornInv /\ CleanInv /\ WorksInv /\ rep \in RepType
  BY DEF GeoInv, GeoTypes, RepType
<1>v. Writer = {"geo", "kernel"} /\ "kernel" \in Writer
  BY DEF Writer
<1>g. GeoFile # {}
  BY GeoAssumption
<1>o. \A S : S # {} => FirstOf(S) \in S
  BY DEF FirstOf
<1>n. NoFile \in [GeoFile -> Content \cup {Missing}] /\ NoFile \in [GeoFile -> Known]
      /\ \A f \in GeoFile : NoFile[f] = Missing
  BY DEF NoFile, Known
<1>1. ASSUME NEW c \in Bundle, KernelSync(c)
      PROVE  GeoInv'
  <2> DEFINE n == Replacing(FirstOf(GeoFile), c)
  <2>1. n \in ReplaceJob /\ n # None /\ n.data # Torn /\ n.file \in GeoFile /\ n.had = FALSE /\ n.shared = FALSE
    <3>1. c \in Content \cup {Torn} /\ c # Torn /\ FirstOf(GeoFile) \in GeoFile
      BY <1>g, <1>o, GeoAssumption
    <3>2. n \in ReplaceJob /\ n.data = c /\ n.file = FirstOf(GeoFile) /\ n.had = FALSE /\ n.shared = FALSE
      BY <3>1, NewJob
    <3> HIDE DEF n
    <3> QED BY <3>1, <3>2, JobPut
  <2>2. /\ upd' = upd /\ data' = data /\ done' = done /\ sync' = GeoFile
        /\ installed' = installed /\ prev' = prev /\ rep["kernel"] = None
        /\ before' = before /\ spoilt' = TRUE /\ overlapped' = overlapped
        /\ geoFaults' = geoFaults /\ syncs' = syncs + 1 /\ syncs < MaxSyncs
        /\ rep' = [rep EXCEPT !["kernel"] = n]
    BY <1>1 DEF KernelSync, files, progress
  <2>3. clean' \in BOOLEAN /\ (clean' <=> upd \in {"idle", "off"})
    <3>1. clean' = (upd \in {"idle", "off"})
      BY <1>1, Zenon DEF KernelSync
    <3> DEFINE b == upd \in {"idle", "off"}
    <3>2. b \in BOOLEAN /\ clean' = b
      BY <3>1
    <3> HIDE DEF b
    <3>3. clean' \in BOOLEAN /\ (clean' <=> b)
      BY <3>2, Zenon
    <3> QED BY <3>3 DEF b
  <2> HIDE DEF n
  <2>4. rep' \in RepType /\ rep'["kernel"] = n /\ rep'["geo"] = rep["geo"]
    BY <1>0, <1>v, <2>1, <2>2 DEF RepType
  <2>5. GeoTypes'
    BY <1>0, <2>2, <2>3, <2>4, GeoAssumption DEF GeoTypes, RepType
  <2>6. StagesInv'
    BY <1>0, <1>v, <1>g, <2>1, <2>2, <2>4 DEF StagesInv
  <2>7. TornInv'
    BY <1>0, <1>v, <2>1, <2>2, <2>4 DEF TornInv, NeverTorn
  <2>8. CleanInv'
    BY <2>2, <2>3 DEF CleanInv
  <2>9. WorksInv'
    BY <2>2, <2>3 DEF WorksInv
  <2> QED BY <2>5, <2>6, <2>7, <2>8, <2>9 DEF GeoInv
<1>2. CASE SyncNext
  <2> DEFINE j == rep["kernel"]
             n == IF sync' = {} THEN None ELSE Replacing(FirstOf(sync'), j.data)
  <2>1. /\ sync' = sync \ {j.file} /\ rep' = [rep EXCEPT !["kernel"] = n]
        /\ upd' = upd /\ data' = data /\ done' = done
        /\ installed' = installed /\ prev' = prev /\ rep["kernel"] # None
        /\ before' = before /\ clean' = clean /\ spoilt' = spoilt /\ overlapped' = overlapped
        /\ geoFaults' = geoFaults /\ syncs' = syncs
    BY <1>2 DEF SyncNext, files, progress, geoGhost, geoCount, None
  <2>2. sync' \subseteq GeoFile
    BY <1>0, <2>1 DEF GeoTypes
  <2>3. j.data \in Content \cup {Torn} /\ j.data # Torn
    <3>1. j \in ReplaceJob
      BY <1>0, <1>v, <2>1, Jobs DEF RepType
    <3> QED BY <1>0, <2>1, <3>1, JobPut DEF TornInv
  <2>4. IF sync' = {} THEN n = None
        ELSE n \in ReplaceJob /\ n # None /\ n.data # Torn /\ n.file \in GeoFile /\ n.had = FALSE /\ n.shared = FALSE
    <3>1. CASE sync' = {}
      BY <3>1
    <3>2. CASE sync' # {}
      <4> DEFINE m == Replacing(FirstOf(sync'), j.data)
      <4>1. FirstOf(sync') \in GeoFile
        BY <1>o, <2>2, <3>2
      <4>2. m \in ReplaceJob /\ m.data = j.data /\ m.file = FirstOf(sync') /\ m.had = FALSE /\ m.shared = FALSE
        BY <2>3, <4>1, NewJob
      <4>3. n = m
        BY <3>2
      <4> HIDE DEF m, n, j
      <4> QED BY <2>3, <3>2, <4>1, <4>2, <4>3, JobPut
    <3> QED BY <3>1, <3>2
  <2> HIDE DEF n, j
  <2>5. rep' \in RepType /\ rep'["kernel"] = n /\ rep'["geo"] = rep["geo"]
    BY <1>0, <1>v, <2>1, <2>4 DEF RepType
  <2>6. GeoTypes'
    BY <1>0, <2>1, <2>2, <2>5 DEF GeoTypes, RepType
  <2>7. StagesInv'
    BY <1>0, <1>v, <2>1, <2>4, <2>5 DEF StagesInv
  <2>8. TornInv'
    BY <1>0, <1>v, <2>1, <2>4, <2>5 DEF TornInv, NeverTorn
  <2>9. CleanInv'
    BY <1>0, <2>1 DEF CleanInv
  <2>10. Planned' = Planned
    BY <2>1 DEF Planned
  <2>11. WorksInv'
    BY <1>0, <2>1, <2>5, <2>10 DEF WorksInv
  <2> QED BY <2>6, <2>7, <2>8, <2>9, <2>11 DEF GeoInv
<1>3. CASE GeoCrash
  <2>1. /\ upd' \in {"idle", "off"} /\ data' = NoFile /\ done' = <<>> /\ sync' = {}
        /\ installed' = installed /\ prev' = prev /\ rep' = [w \in Writer |-> None]
        /\ before' = NoFile /\ clean' = TRUE /\ overlapped' = overlapped
        /\ geoFaults' = geoFaults + 1 /\ geoFaults < MaxGeoFaults /\ syncs' = syncs
    BY <1>3 DEF GeoCrash, files, GeoFault
  <2>2. spoilt' \in BOOLEAN /\ (spoilt' <=> spoilt \/ upd \in {"replace", "undo"})
    BY <1>3 DEF GeoCrash
  <2>3. Len(<<>>) = 0 /\ <<>> \in Seq(DoneEntry)
    OBVIOUS
  <2>4. rep' \in RepType /\ \A w \in Writer : rep'[w] = None
    BY <2>1 DEF RepType
  <2>5. GeoTypes'
    BY <1>0, <1>n, <2>1, <2>2, <2>3, <2>4, GeoAssumption DEF GeoTypes, RepType
  <2>6. StagesInv'
    BY <1>v, <1>n, <2>1, <2>3, <2>4 DEF StagesInv
  <2>7. TornInv'
    BY <1>0, <1>v, <2>1, <2>4 DEF TornInv, NeverTorn
  <2>8. CleanInv'
    BY <2>1 DEF CleanInv
  <2>9. WorksInv'
    BY <1>0, <1>v, <2>1, <2>2, <2>4 DEF WorksInv
  <2> QED BY <2>5, <2>6, <2>7, <2>8, <2>9 DEF GeoInv
<1> QED BY <1>1, <1>2, <1>3

LEMMA GeoInitInv == GeoInit => GeoInv
<1> SUFFICES ASSUME GeoInit PROVE GeoInv
  OBVIOUS
<1>1. PICK d \in Works \cup {NoFile} : installed = d /\ spoilt = (d \notin Works)
  BY DEF GeoInit
<1>2. NoFile \in [GeoFile -> Content \cup {Missing}] /\ NoFile \in [GeoFile -> Known]
      /\ \A f \in GeoFile : NoFile[f] = Missing
  BY DEF NoFile, Known
<1>3. installed \in [GeoFile -> Content \cup {Missing}]
  BY <1>1, <1>2, GeoAssumption
<1>4. installed \in [GeoFile -> Known] /\ \A f \in GeoFile : installed[f] # Torn
  <2>1. Content \cup {Missing} \subseteq Known /\ Torn \notin Content \cup {Missing}
    BY GeoAssumption DEF Known
  <2> QED BY <1>3, <2>1
<1>5. /\ prev = NoFile /\ before = NoFile /\ rep = [w \in Writer |-> None] /\ sync = {}
      /\ upd \in {"idle", "off"} /\ data = NoFile /\ done = <<>>
      /\ clean = TRUE /\ overlapped = {} /\ geoFaults = 0 /\ syncs = 0
  BY DEF GeoInit
<1>6. rep \in RepType /\ \A w \in Writer : rep[w] = None
  BY <1>5 DEF RepType
<1>7. Len(<<>>) = 0 /\ <<>> \in Seq(DoneEntry) /\ Writer = {"geo", "kernel"}
  BY DEF Writer
<1>8. spoilt \in BOOLEAN /\ (spoilt <=> installed \notin Works)
  BY <1>1
<1>9. GeoTypes
  BY <1>2, <1>4, <1>5, <1>6, <1>7, <1>8, GeoAssumption DEF GeoTypes, RepType
<1>10. StagesInv
  BY <1>2, <1>5, <1>6, <1>7 DEF StagesInv
<1>11. TornInv
  BY <1>2, <1>4, <1>5, <1>6, <1>7, GeoAssumption DEF TornInv, NeverTorn
<1>12. CleanInv
  BY <1>5 DEF CleanInv
<1>13. WorksInv
  BY <1>5, <1>6, <1>7, <1>8 DEF WorksInv
<1> QED BY <1>9, <1>10, <1>11, <1>12, <1>13 DEF GeoInv

LEMMA GeoInvStep == GeoInv /\ [GeoNext]_geoVars => GeoInv'
<1> SUFFICES ASSUME GeoInv, [GeoNext]_geoVars PROVE GeoInv'
  OBVIOUS
<1>1. CASE \E w \in Writer : ReplaceStep(w)
  BY <1>1, GeoReplaceStep
<1>2. CASE StartUpdate \/ UpdateStep
  <2>1. CASE UndoNext \/ Undone
    BY <2>1, GeoUndoStep
  <2>2. CASE Replaced \/ \E f \in GeoFile : ReplaceNext(f)
    BY <2>2, GeoFileStep
  <2>3. CASE StartUpdate \/ FetchAndTest \/ FetchFails \/ ReplaceFailed \/ UndoEnds \/ AllReplaced \/ SaveState
    BY <2>3, GeoRunStep
  <2> QED BY <1>2, <2>1, <2>2, <2>3 DEF UpdateStep
<1>3. CASE SyncNext \/ GeoCrash \/ \E c \in Bundle : KernelSync(c)
  BY <1>3, GeoOtherStep
<1>4. CASE UNCHANGED geoVars
  BY <1>4 DEF geoVars, files, progress, geoGhost, geoCount, GeoInv, GeoTypes, StagesInv, TornInv,
              NeverTorn, CleanInv, Saved, Undoing, WorksInv, Planned
<1> QED BY <1>1, <1>2, <1>3, <1>4 DEF GeoNext

\* What the updater knows of the files and of its own progress holds in every reachable state,
\* through any faults, crashes and kernel upgrades (geo.go, geofile.go).
THEOREM GeoInvariant == GeoSpec => []GeoInv
<1> QED BY GeoInitInv, GeoInvStep, PTL DEF GeoSpec

LEMMA GeoTyped == GeoInv => GeoTypeOK
<1> SUFFICES ASSUME GeoInv PROVE GeoTypeOK
  OBVIOUS
<1>1. GeoTypes
  BY DEF GeoInv
<1>2. ASSUME NEW w \in Writer, rep[w] # None
      PROVE  rep[w].file \in GeoFile /\ rep[w].data \in Content \cup {Torn}
  BY <1>1, <1>2, Jobs, JobPut DEF GeoTypes
<1> QED BY <1>1, <1>2 DEF GeoTypes, GeoTypeOK

\* The variables of the updater keep their types, and its faults and syncs their bounds.
THEOREM GeoTyping == GeoSpec => []GeoTypeOK
<1> QED BY GeoTyped, GeoInvariant, PTL

\* A file is torn only where both writers had it open at once, whenever a write failed or
\* the process died.
THEOREM GeoNeverTorn == GeoSpec => []NeverTorn
<1>1. GeoInv => NeverTorn
  BY DEF GeoInv, TornInv
<1> QED BY <1>1, GeoInvariant, PTL

\* An update that failed, wherever it failed, has left the files as it found them.
THEOREM GeoFailureRestores == GeoSpec => []FailureRestores
<1>1. GeoInv => FailureRestores
  <2> SUFFICES ASSUME GeoInv, upd = "failed", clean PROVE installed = before
    BY DEF FailureRestores
  <2>1. GeoTypes /\ StagesInv /\ CleanInv
    BY DEF GeoInv
  <2>2. rep["geo"] = None /\ done = <<>> /\ Len(<<>>) = 0
    BY <2>1 DEF StagesInv
  <2>3. \A f \in GeoFile : installed[f] = before[f]
    BY <2>1, <2>2 DEF CleanInv, None
  <2> QED BY <2>1, <2>3 DEF GeoTypes
<1> QED BY <1>1, GeoInvariant, PTL

\* Between updates the files work together, unless something that is not the updater's
\* own success or failure came in between.
THEOREM GeoInstalledWorks == GeoSpec => []InstalledWorks
<1>1. GeoInv => InstalledWorks
  BY DEF GeoInv, WorksInv, InstalledWorks
<1> QED BY <1>1, GeoInvariant, PTL

-----------------------------------------------------------------------------
(* The control of the daemon (DaemonControl) *)

CmdType == [op : {"none", "start", "stop", "restart"},
            at : {"idle", "look", "kill", "remove", "spawn", "write", "confirm", "report",
                  "stopXray", "startXray", "end"},
            pids : SUBSET AgentId, child : AgentId \cup {NoPid}]

ProcType == [at : {"free", "spawned", "stopping"}, pid : XrayId \cup {NoPid}]

DaemonTypes ==
    /\ agent \in [AgentId -> {"none", "load", "cleanup", "wait", "boot", "begin",
                              "up", "stop", "leave", "gone"}]
    /\ started \in [AgentId -> BOOLEAN] /\ reviving \in [AgentId -> BOOLEAN]
    /\ proc \in [Owner -> ProcType]
    /\ \A o \in Owner : IF proc[o].at = "free" THEN proc[o] = FreeProc ELSE proc[o].pid \in XrayId
    /\ xray \in [XrayId -> {"none", "running", "ending"}]
    /\ xrayPid \in XrayId \cup {NoPid} /\ agentPid \in AgentId \cup {NoPid}
    /\ cmd \in [Terminal -> CmdType]
    /\ calm \in BOOLEAN /\ unrecorded \subseteq XrayId

\* What no command beside another changes: only live processes hold a Proc, and a command
\* only where it stops or starts xray itself.
HoldersInv ==
    /\ \A p \in AgentId : reviving[p] => agent[p] \in {"up", "stop", "leave"}
    /\ \A p \in AgentId : agent[p] \in {"none", "load", "cleanup", "wait", "boot", "gone"}
                            => proc[p].at = "free"
    /\ \A p \in AgentId : agent[p] \in {"begin", "up"} => proc[p].at # "stopping"
    /\ \A t \in Terminal : cmd[t].op = "none" <=> cmd[t].at = "idle"
    /\ \A t \in Terminal : proc[t].at # "free" => cmd[t].at \in {"startXray", "end"}
    /\ \A t \in Terminal : cmd[t].op = "stop" => proc[t].at # "spawned"
    /\ \A t \in Terminal : cmd[t].at \in {"stopXray", "startXray"} => cmd[t].op = "restart"

\* One command at a time, and the agents it has seen to.
OneAtATime ==
    /\ \A t, u \in Terminal : cmd[t].op # "none" /\ cmd[u].op # "none" => t = u
    /\ \A p, q \in Alive : p = q
    /\ \A t \in Terminal :
          /\ cmd[t].at \in {"remove", "spawn", "stopXray", "startXray", "report", "end"} => Alive = {}
          /\ cmd[t].at = "kill" => Alive \subseteq cmd[t].pids

\* The running xray is the one of xray.pid, or of the only Proc that is about to write it.
KnownXray ==
    /\ \A x \in XrayId : xray[x] # "none"
         => x = xrayPid \/ x \in unrecorded \/ \E o \in Owner : proc[o].at = "spawned" /\ proc[o].pid = x
    /\ \A o \in Owner : /\ proc[o].at = "spawned" => ~IsRunning
                        /\ proc[o].at = "stopping" => xrayPid = proc[o].pid
    /\ \A t \in Terminal : cmd[t].op = "stop" /\ cmd[t].at = "end" /\ proc[t].at = "free" => ~IsRunning

\* An agent has ended the xrays of others before it starts its own.
OwnXray ==
    \A p \in AgentId :
       /\ agent[p] \in {"wait", "boot"} => \A x \in XrayId : xray[x] # "running"
       /\ agent[p] \in {"begin", "up"} =>
            \A x \in XrayId : xray[x] = "running"
               => x = IF proc[p].at = "spawned" THEN proc[p].pid ELSE xrayPid

DaemonInv ==
    /\ DaemonTypes /\ HoldersInv
    /\ calm => OneAtATime /\ KnownXray /\ OwnXray

LEMMA OnlyHolder ==
    ASSUME DaemonInv, calm, NEW o \in Owner, proc[o].at # "free"
    PROVE  /\ \A q \in Owner : proc[q].at # "free" => q = o
           /\ \A p \in Alive : p = o
<1>1. HoldersInv /\ OneAtATime /\ DaemonTypes
  BY DEF DaemonInv
<1>2. \A p \in AgentId : proc[p].at # "free" => p \in Alive
  BY <1>1 DEF HoldersInv, Alive, DaemonTypes
<1>3. \A t \in Terminal : proc[t].at # "free" => cmd[t].op # "none" /\ Alive = {}
  BY <1>1 DEF HoldersInv, OneAtATime
<1>4. \A t, u \in Terminal : cmd[t].op # "none" /\ cmd[u].op # "none" => t = u
  BY <1>1 DEF OneAtATime
<1>5. \A p, q \in Alive : p = q
  BY <1>1 DEF OneAtATime
<1> QED BY <1>2, <1>3, <1>4, <1>5 DEF Owner

LEMMA GoesTo ==
    ASSUME DaemonTypes, NEW t \in Terminal,
           NEW a \in {"look", "kill", "remove", "spawn", "write", "confirm", "report",
                      "stopXray", "startXray", "end"},
           Goes(t, a)
    PROVE  /\ cmd' \in [Terminal -> CmdType]
           /\ cmd'[t].op = cmd[t].op /\ cmd'[t].at = a /\ cmd'[t].pids = cmd[t].pids
           /\ cmd'[t].child = cmd[t].child
           /\ \A u \in Terminal \ {t} : cmd'[u] = cmd[u]
<1> DEFINE r == [cmd[t] EXCEPT !.at = a]
<1>1. cmd[t] \in CmdType /\ cmd \in [Terminal -> CmdType]
  BY DEF DaemonTypes
<1>2. r \in CmdType /\ r.op = cmd[t].op /\ r.at = a /\ r.pids = cmd[t].pids /\ r.child = cmd[t].child
  BY <1>1 DEF CmdType
<1>3. cmd' = [cmd EXCEPT ![t] = r]
  BY DEF Goes
<1> HIDE DEF r
<1> QED BY <1>1, <1>2, <1>3

LEMMA CommandEnded ==
    ASSUME DaemonTypes, NEW t \in Terminal, Ends(t)
    PROVE  /\ cmd' \in [Terminal -> CmdType]
           /\ cmd'[t].op = "none" /\ cmd'[t].at = "idle"
           /\ \A u \in Terminal \ {t} : cmd'[u] = cmd[u]
<1>1. NoCommand \in CmdType /\ NoCommand.op = "none" /\ NoCommand.at = "idle"
  BY DEF NoCommand, CmdType
<1> QED BY <1>1 DEF Ends, DaemonTypes

LEMMA CommandOnly ==
    ASSUME DaemonInv, NEW t \in Terminal,
           LookFindsNone(t) \/ StartFindsOne(t) \/ AllGone(t) \/ RemovePidFile(t)
             \/ WriteAgentPid(t) \/ WaitAlive(t) \/ CommandEnds(t)
    PROVE  DaemonInv'
<1>0. DaemonTypes /\ HoldersInv /\ (calm => OneAtATime /\ KnownXray /\ OwnXray)
  BY DEF DaemonInv
<1>a. Terminal \cap AgentId = {} /\ Owner = AgentId \cup Terminal /\ NoPid \notin AgentId \cup XrayId
  BY DaemonAssumption DEF Owner
<1>u. UNCHANGED <<agents, xrays, calm, commands, kills>>
  BY DEF LookFindsNone, StartFindsOne, AllGone, RemovePidFile, WriteAgentPid, WaitAlive, CommandEnds
<1>1. ASSUME LookFindsNone(t) \/ AllGone(t) \/ RemovePidFile(t) \/ WriteAgentPid(t)
      PROVE  DaemonInv'
  <2>1. /\ cmd[t].op # "none" /\ cmd[t].at \notin {"startXray", "end"} /\ proc[t].at = "free"
        /\ \E a \in {"remove", "spawn", "stopXray", "report", "confirm"} :
              /\ Goes(t, a)
              /\ calm /\ a # "confirm" => Alive = {}
              /\ a = "stopXray" => cmd[t].op = "restart"
    <3>1. CASE LookFindsNone(t)
      <4>1. cmd[t].at = "look" /\ cmd[t].op \in {"start", "stop", "restart"} /\ Alive = {}
        BY <1>0, <3>1 DEF LookFindsNone, AgentPids, HoldersInv, DaemonTypes, CmdType
      <4>2. \E a \in {"remove", "spawn", "stopXray"} : Goes(t, a) /\ (a = "stopXray" => cmd[t].op = "restart")
        BY <3>1, <4>1 DEF LookFindsNone
      <4> QED BY <1>0, <4>1, <4>2 DEF HoldersInv
    <3>2. CASE AllGone(t)
      <4>1. cmd[t].at = "kill" /\ Goes(t, "remove") /\ \A p \in cmd[t].pids : p \notin Alive
        BY <3>2 DEF AllGone, ProcessAlive
      <4> QED BY <1>0, <4>1 DEF HoldersInv, OneAtATime
    <3>3. CASE RemovePidFile(t)
      BY <1>0, <3>3 DEF RemovePidFile, HoldersInv, OneAtATime
    <3>4. CASE WriteAgentPid(t)
      BY <1>0, <3>4 DEF WriteAgentPid, HoldersInv
    <3> QED BY <1>1, <3>1, <3>2, <3>3, <3>4
  <2>2. PICK a \in {"remove", "spawn", "stopXray", "report", "confirm"} :
          Goes(t, a) /\ (calm /\ a # "confirm" => Alive = {})
          /\ (a = "stopXray" => cmd[t].op = "restart")
    BY <2>1
  <2>3. /\ cmd' \in [Terminal -> CmdType] /\ cmd'[t].op = cmd[t].op /\ cmd'[t].at = a
        /\ \A u \in Terminal \ {t} : cmd'[u] = cmd[u]
    BY <1>0, <2>2, GoesTo
  <2>4. agentPid' \in AgentId \cup {NoPid}
    <3>1. cmd[t].child \in AgentId \cup {NoPid} /\ agentPid \in AgentId \cup {NoPid}
      BY <1>0 DEF DaemonTypes, CmdType
    <3> QED BY <1>1, <3>1 DEF LookFindsNone, AllGone, RemovePidFile, WriteAgentPid
  <2>5. DaemonTypes'
    BY <1>0, <1>u, <2>3, <2>4 DEF DaemonTypes, agents, xrays
  <2>6. HoldersInv'
    BY <1>0, <1>u, <2>1, <2>2, <2>3 DEF HoldersInv, agents, xrays
  <2>7. calm' => OneAtATime'
    BY <1>0, <1>u, <2>1, <2>2, <2>3 DEF OneAtATime, Alive, agents
  <2>8. calm' => KnownXray'
    BY <1>0, <1>u, <2>2, <2>3 DEF KnownXray, IsRunning, XrayAlive, xrays
  <2>9. calm' => OwnXray'
    BY <1>0, <1>u DEF OwnXray, xrays, agents
  <2> QED BY <2>5, <2>6, <2>7, <2>8, <2>9 DEF DaemonInv
<1>2. ASSUME StartFindsOne(t) \/ WaitAlive(t) \/ CommandEnds(t)
      PROVE  DaemonInv'
  <2>1. Ends(t) /\ proc[t].at = "free"
    BY <1>0, <1>2 DEF StartFindsOne, WaitAlive, CommandEnds, HoldersInv
  <2>2. /\ cmd' \in [Terminal -> CmdType] /\ cmd'[t].op = "none" /\ cmd'[t].at = "idle"
        /\ \A u \in Terminal \ {t} : cmd'[u] = cmd[u]
    BY <1>0, <2>1, CommandEnded
  <2>3. agentPid' \in AgentId \cup {NoPid}
    BY <1>0, <1>2 DEF StartFindsOne, WaitAlive, CommandEnds, DaemonTypes
  <2>5. DaemonTypes'
    BY <1>0, <1>u, <2>2, <2>3 DEF DaemonTypes, agents, xrays
  <2>6. HoldersInv'
    BY <1>0, <1>u, <2>1, <2>2 DEF HoldersInv, agents, xrays
  <2>7. calm' => OneAtATime'
    BY <1>0, <1>u, <2>2 DEF OneAtATime, Alive, agents
  <2>8. calm' => KnownXray'
    BY <1>0, <1>u, <2>2 DEF KnownXray, IsRunning, XrayAlive, xrays
  <2>9. calm' => OwnXray'
    BY <1>0, <1>u DEF OwnXray, xrays, agents
  <2> QED BY <2>5, <2>6, <2>7, <2>8, <2>9 DEF DaemonInv
<1> QED BY <1>1, <1>2

LEMMA CommandBegins ==
    ASSUME DaemonInv, NEW t \in Terminal, NEW op \in {"start", "stop", "restart"}, Begin(t, op)
    PROVE  DaemonInv'
<1>0. DaemonTypes /\ HoldersInv /\ (calm => OneAtATime /\ KnownXray /\ OwnXray)
  BY DEF DaemonInv
<1>a. Terminal \cap AgentId = {} /\ Owner = AgentId \cup Terminal /\ NoPid \notin AgentId \cup XrayId
  BY DaemonAssumption DEF Owner
<1> DEFINE m == [NoCommand EXCEPT !.op = op]
           r == [m EXCEPT !.at = "look"]
<1>1. m \in CmdType /\ m.op = op
  BY DEF NoCommand, CmdType
<1>2. r \in CmdType /\ r.op = op /\ r.at = "look"
  <2> HIDE DEF m
  <2> QED BY <1>1 DEF CmdType
<1>3. cmd' = [cmd EXCEPT ![t] = r]
  BY DEF Begin
<1>4. cmd[t].op = "none" /\ UNCHANGED <<agents, xrays, agentPid>>
  BY DEF Begin, Busy
<1>5. calm' \in BOOLEAN /\ (calm' => calm /\ \A u \in Terminal : cmd[u].op = "none")
  BY DEF Begin, Busy
<1> HIDE DEF m, r
<1>6. /\ cmd' \in [Terminal -> CmdType] /\ cmd'[t] = r
      /\ \A u \in Terminal \ {t} : cmd'[u] = cmd[u]
  BY <1>0, <1>2, <1>3 DEF DaemonTypes
<1>7. proc[t].at = "free"
  BY <1>0, <1>4 DEF HoldersInv
<1>8. DaemonTypes'
  BY <1>0, <1>4, <1>5, <1>6 DEF DaemonTypes, agents, xrays
<1>9. HoldersInv'
  BY <1>0, <1>2, <1>4, <1>6, <1>7 DEF HoldersInv, agents, xrays
<1>10. calm' => OneAtATime'
  BY <1>0, <1>2, <1>4, <1>5, <1>6 DEF OneAtATime, Alive, agents
<1>11. calm' => KnownXray'
  BY <1>0, <1>2, <1>4, <1>5, <1>6 DEF KnownXray, IsRunning, XrayAlive, xrays
<1>12. calm' => OwnXray'
  BY <1>0, <1>4, <1>5 DEF OwnXray, xrays, agents
<1> QED BY <1>8, <1>9, <1>10, <1>11, <1>12 DEF DaemonInv

\* An agent is started where none is, as long as commands do not overlap.
LEMMA AgentAppears ==
    ASSUME DaemonInv, (\E t \in Terminal : SpawnDetached(t)) \/ \E p \in AgentId : Foreground(p)
    PROVE  DaemonInv'
<1>0. DaemonTypes /\ HoldersInv /\ (calm => OneAtATime /\ KnownXray /\ OwnXray)
  BY DEF DaemonInv
<1>a. Terminal \cap AgentId = {} /\ Owner = AgentId \cup Terminal /\ NoPid \notin AgentId \cup XrayId
  BY DaemonAssumption DEF Owner
<1>u. UNCHANGED <<started, reviving, xrays, agentPid>>
  BY DEF SpawnDetached, Foreground
<1>1. PICK p \in AgentId : agent[p] = "none" /\ agent' = [agent EXCEPT ![p] = "load"]
  BY DEF SpawnDetached, Foreground
<1>2. calm' \in BOOLEAN /\ (calm' => calm)
  <2>1. CASE \E t \in Terminal : SpawnDetached(t)
    BY <1>0, <2>1 DEF SpawnDetached, DaemonTypes
  <2>2. CASE \E q \in AgentId : Foreground(q)
    BY <2>2 DEF Foreground
  <2> QED BY <2>1, <2>2
<1>3. /\ cmd' \in [Terminal -> CmdType]
      /\ \A u \in Terminal : /\ cmd'[u].op = cmd[u].op
                             /\ cmd'[u].at = cmd[u].at \/ (cmd'[u].at = "write" /\ cmd[u].at = "spawn")
                             /\ cmd'[u].pids = cmd[u].pids
      /\ calm' => /\ Alive = {}
                  /\ \A u \in Terminal : cmd'[u].at \in {"idle", "write"}
  <2>1. ASSUME NEW t \in Terminal, SpawnDetached(t)
        PROVE  /\ cmd' \in [Terminal -> CmdType]
               /\ \A u \in Terminal : /\ cmd'[u].op = cmd[u].op
                                      /\ cmd'[u].at = cmd[u].at \/ (cmd'[u].at = "write" /\ cmd[u].at = "spawn")
                                      /\ cmd'[u].pids = cmd[u].pids
               /\ calm' => /\ Alive = {}
                           /\ \A u \in Terminal : cmd'[u].at \in {"idle", "write"}
    <3>1. PICK q \in AgentId : cmd' = [cmd EXCEPT ![t].at = "write", ![t].child = q]
      BY <2>1 DEF SpawnDetached
    <3> DEFINE m == [cmd[t] EXCEPT !.at = "write"]
               r == [m EXCEPT !.child = q]
    <3>2. cmd' = [cmd EXCEPT ![t] = r]
      BY <3>1, Zenon
    <3>3. cmd[t] \in CmdType /\ cmd \in [Terminal -> CmdType]
      BY <1>0 DEF DaemonTypes
    <3>4. m \in CmdType /\ m.op = cmd[t].op /\ m.at = "write" /\ m.pids = cmd[t].pids
      BY <3>3 DEF CmdType
    <3> HIDE DEF m
    <3>5. r \in CmdType /\ r.op = m.op /\ r.at = m.at /\ r.pids = m.pids
      BY <3>4 DEF CmdType
    <3> HIDE DEF r
    <3>6. /\ cmd' \in [Terminal -> CmdType] /\ cmd'[t] = r
          /\ \A u \in Terminal \ {t} : cmd'[u] = cmd[u]
      BY <3>2, <3>3, <3>5
    <3>7. cmd[t].at = "spawn" /\ cmd[t].op # "none" /\ calm' = calm
      BY <1>0, <2>1 DEF SpawnDetached, HoldersInv
    <3>8. calm => Alive = {} /\ \A u \in Terminal \ {t} : cmd[u].at = "idle"
      BY <1>0, <3>7 DEF OneAtATime, HoldersInv
    <3> QED BY <3>4, <3>5, <3>6, <3>7, <3>8
  <2>2. ASSUME NEW q \in AgentId, Foreground(q)
        PROVE  /\ cmd' = cmd
               /\ calm' => Alive = {} /\ \A u \in Terminal : cmd[u].at = "idle"
    BY <1>0, <2>2 DEF Foreground, Busy, HoldersInv
  <2>3. CASE \E t \in Terminal : SpawnDetached(t)
    BY <2>1, <2>3
  <2>4. CASE \E q \in AgentId : Foreground(q)
    BY <1>0, <2>2, <2>4 DEF DaemonTypes
  <2> QED BY <2>3, <2>4
<1>4. DaemonTypes'
  BY <1>0, <1>1, <1>2, <1>3, <1>u DEF DaemonTypes, xrays
<1>5. HoldersInv'
  BY <1>0, <1>1, <1>3, <1>u DEF HoldersInv, DaemonTypes, xrays
<1>6. calm' => OneAtATime'
  <2>1. calm' => \A q \in Alive' : q = p
    BY <1>0, <1>1, <1>3 DEF Alive, DaemonTypes
  <2> QED BY <1>0, <1>2, <1>3, <2>1 DEF OneAtATime
<1>7. calm' => KnownXray'
  BY <1>0, <1>2, <1>3, <1>u DEF KnownXray, IsRunning, XrayAlive, xrays
<1>8. calm' => OwnXray'
  BY <1>0, <1>1, <1>2, <1>u DEF OwnXray, xrays, DaemonTypes
<1> QED BY <1>4, <1>5, <1>6, <1>7, <1>8 DEF DaemonInv

\* main() goes on.
LEMMA AgentGoesOn ==
    ASSUME DaemonInv, NEW p \in AgentId,
           LoadConfig(p) \/ CleanupStale(p) \/ CleanupEnds(p) \/ Run(p) \/ Check(p)
    PROVE  DaemonInv'
<1>0. DaemonTypes /\ HoldersInv /\ (calm => OneAtATime /\ KnownXray /\ OwnXray)
  BY DEF DaemonInv
<1>a. Terminal \cap AgentId = {} /\ Owner = AgentId \cup Terminal /\ NoPid \notin AgentId \cup XrayId
  BY DaemonAssumption DEF Owner
<1>u. UNCHANGED <<started, proc, xrayPid, unrecorded, agentPid, cmd, calm>>
  BY DEF LoadConfig, CleanupStale, CleanupEnds, Run, Check, xrays
<1>1. CASE LoadConfig(p) \/ CleanupEnds(p) \/ Run(p)
  <2>1. /\ UNCHANGED <<reviving, xray>>
        /\ \/ agent[p] = "load" /\ agent' = [agent EXCEPT ![p] = "cleanup"]
           \/ agent[p] = "wait" /\ agent' = [agent EXCEPT ![p] = "boot"]
           \/ agent[p] = "begin" /\ proc[p].at = "free" /\ agent' = [agent EXCEPT ![p] = "up"]
    BY <1>1 DEF LoadConfig, CleanupEnds, Run, xrays
  <2>2. Alive' = Alive
    BY <1>0, <2>1 DEF Alive, DaemonTypes
  <2>3. DaemonTypes'
    BY <1>0, <1>u, <2>1 DEF DaemonTypes
  <2>4. HoldersInv'
    BY <1>0, <1>u, <2>1 DEF HoldersInv, DaemonTypes
  <2>5. calm' => OneAtATime'
    BY <1>0, <1>u, <2>2 DEF OneAtATime
  <2>6. calm' => KnownXray'
    BY <1>0, <1>u, <2>1 DEF KnownXray, IsRunning, XrayAlive
  <2>7. calm' => OwnXray'
    BY <1>0, <1>u, <2>1 DEF OwnXray, DaemonTypes
  <2> QED BY <2>3, <2>4, <2>5, <2>6, <2>7 DEF DaemonInv
<1>2. CASE CleanupStale(p)
  <2>1. /\ UNCHANGED reviving /\ agent[p] = "cleanup" /\ agent' = [agent EXCEPT ![p] = "wait"]
        /\ xray' = [x \in XrayId |-> IF xray[x] = "running" THEN "ending" ELSE xray[x]]
    BY <1>2 DEF CleanupStale
  <2>2. Alive' = Alive
    BY <1>0, <2>1 DEF Alive, DaemonTypes
  <2>3. \A x \in XrayId : (xray'[x] = "none" <=> xray[x] = "none") /\ xray'[x] # "running"
    BY <1>0, <2>1 DEF DaemonTypes
  <2>4. DaemonTypes'
    BY <1>0, <1>u, <2>1 DEF DaemonTypes
  <2>5. HoldersInv'
    BY <1>0, <1>u, <2>1 DEF HoldersInv, DaemonTypes
  <2>6. calm' => OneAtATime'
    BY <1>0, <1>u, <2>2 DEF OneAtATime
  <2>7. IsRunning' <=> IsRunning
    BY <1>0, <1>u, <2>3 DEF IsRunning, XrayAlive, DaemonTypes
  <2>8. calm' => KnownXray'
    BY <1>0, <1>u, <2>3, <2>7 DEF KnownXray
  <2>9. calm' => OwnXray'
    BY <1>0, <1>u, <2>3 DEF OwnXray
  <2> QED BY <2>4, <2>5, <2>6, <2>8, <2>9 DEF DaemonInv
<1>3. CASE Check(p)
  <2>1. /\ agent[p] = "up" /\ reviving' = [reviving EXCEPT ![p] = TRUE] /\ agent' = agent /\ xray' = xray
    BY <1>3 DEF Check, xrays
  <2>2. Alive' = Alive
    BY <2>1 DEF Alive
  <2>4. DaemonTypes'
    BY <1>0, <1>u, <2>1 DEF DaemonTypes
  <2>5. HoldersInv'
    BY <1>0, <1>u, <2>1 DEF HoldersInv, DaemonTypes
  <2>6. calm' => OneAtATime'
    BY <1>0, <1>u, <2>2 DEF OneAtATime
  <2>8. calm' => KnownXray'
    BY <1>0, <1>u, <2>1 DEF KnownXray, IsRunning, XrayAlive
  <2>9. calm' => OwnXray'
    BY <1>0, <1>u, <2>1 DEF OwnXray
  <2> QED BY <2>4, <2>5, <2>6, <2>8, <2>9 DEF DaemonInv
<1> QED BY <1>1, <1>2, <1>3

\* What the end of processes leaves: those of E are gone, with what they held, and of the
\* agents that stay some begin their exit.
ProcessesGone(E) ==
    /\ agent' \in [AgentId -> {"none", "load", "cleanup", "wait", "boot", "begin",
                               "up", "stop", "leave", "gone"}]
    /\ \A p \in AgentId : \/ agent'[p] = "gone" /\ p \in E
                          \/ agent'[p] = agent[p] /\ p \notin E
                          \/ agent'[p] = "stop" /\ agent[p] = "up" /\ p \notin E
    /\ reviving' \in [AgentId -> BOOLEAN]
    /\ \A p \in AgentId : reviving'[p] => reviving[p] /\ p \notin E
    /\ proc' = [o \in Owner |-> IF o \in E THEN FreeProc ELSE proc[o]]
    /\ unrecorded' = unrecorded \cup Held(E)
    /\ UNCHANGED <<started, xray, xrayPid, agentPid, calm>>
    /\ cmd' \in [Terminal -> CmdType]
    /\ \A t \in Terminal : t \notin E \/ cmd'[t].op = "none"
    /\ \A t \in Terminal : \/ cmd'[t] = cmd[t]
                           \/ cmd'[t].at = "idle" /\ cmd'[t].op = "none" /\ (t \in E \/ cmd[t].op = "none")
                           \/ /\ cmd[t].at = "look" /\ cmd'[t].at = "kill" /\ cmd'[t].op = cmd[t].op
                              /\ Alive' \subseteq cmd'[t].pids
                           \/ /\ cmd[t].at = "kill" /\ cmd'[t].at = "remove" /\ cmd'[t].op = cmd[t].op
                              /\ cmd[t].pids \cap Alive' = {}

LEMMA GoneKeeps ==
    ASSUME DaemonInv, NEW E \in SUBSET Owner, ProcessesGone(E)
    PROVE  DaemonInv'
<1>0. DaemonTypes /\ HoldersInv /\ (calm => OneAtATime /\ KnownXray /\ OwnXray)
  BY DEF DaemonInv
<1>a. Terminal \cap AgentId = {} /\ Owner = AgentId \cup Terminal /\ NoPid \notin AgentId \cup XrayId
  BY DaemonAssumption DEF Owner
<1>1. agent \in [AgentId -> {"none", "load", "cleanup", "wait", "boot", "begin",
                             "up", "stop", "leave", "gone"}] /\ proc \in [Owner -> ProcType]
      /\ FreeProc.at = "free" /\ FreeProc \in ProcType
  BY <1>0 DEF DaemonTypes, FreeProc, ProcType
<1>2. Alive' \subseteq Alive
  BY <1>1 DEF ProcessesGone, Alive
<1>3. \A o \in Owner : IF o \in E THEN proc'[o] = FreeProc ELSE proc'[o] = proc[o]
  BY DEF ProcessesGone
<1>4. Held(E) \subseteq XrayId
  BY <1>0, <1>1 DEF Held, DaemonTypes
<1>5. DaemonTypes'
  <2>1. proc' \in [Owner -> ProcType]
    BY <1>1 DEF ProcessesGone
  <2> QED BY <1>0, <1>1, <1>3, <1>4, <2>1 DEF DaemonTypes, ProcessesGone
<1>6. HoldersInv'
  <2>1. \A p \in AgentId : reviving'[p] => agent'[p] \in {"up", "stop", "leave"}
    BY <1>0 DEF HoldersInv, ProcessesGone
  <2>2. \A p \in AgentId : /\ agent'[p] \in {"none", "load", "cleanup", "wait", "boot", "gone"}
                              => proc'[p].at = "free"
                           /\ agent'[p] \in {"begin", "up"} => proc'[p].at # "stopping"
    BY <1>0, <1>a, <1>1, <1>3 DEF HoldersInv, ProcessesGone
  <2>3. \A t \in Terminal : cmd'[t].op = "none" <=> cmd'[t].at = "idle"
    BY <1>0 DEF HoldersInv, ProcessesGone
  <2>4. \A t \in Terminal : proc'[t].at # "free" => cmd'[t].at \in {"startXray", "end"}
    BY <1>0, <1>a, <1>1, <1>3 DEF HoldersInv, ProcessesGone
  <2>5. \A t \in Terminal : /\ cmd'[t].op = "stop" => proc'[t].at # "spawned"
                            /\ cmd'[t].at \in {"stopXray", "startXray"} => cmd'[t].op = "restart"
    BY <1>0, <1>a, <1>1, <1>3 DEF HoldersInv, ProcessesGone
  <2> QED BY <2>1, <2>2, <2>3, <2>4, <2>5 DEF HoldersInv
<1>7. calm' => OneAtATime'
  <2> SUFFICES ASSUME calm PROVE OneAtATime'
    BY DEF ProcessesGone
  <2>1. \A t, u \in Terminal : cmd'[t].op # "none" /\ cmd'[u].op # "none" => t = u
    BY <1>0 DEF OneAtATime, ProcessesGone
  <2>2. \A p, q \in Alive' : p = q
    BY <1>0, <1>2 DEF OneAtATime
  <2>3. ASSUME NEW t \in Terminal
        PROVE  /\ cmd'[t].at \in {"remove", "spawn", "stopXray", "startXray", "report", "end"} => Alive' = {}
               /\ cmd'[t].at = "kill" => Alive' \subseteq cmd'[t].pids
    BY <1>0, <1>2 DEF OneAtATime, ProcessesGone
  <2> QED BY <2>1, <2>2, <2>3 DEF OneAtATime
<1>8. IsRunning' <=> IsRunning
  BY DEF ProcessesGone, IsRunning, XrayAlive
<1>9. calm' => KnownXray'
  <2> SUFFICES ASSUME calm PROVE KnownXray'
    BY DEF ProcessesGone
  <2>1. ASSUME NEW x \in XrayId, xray'[x] # "none"
        PROVE  x = xrayPid' \/ x \in unrecorded' \/ \E o \in Owner : proc'[o].at = "spawned" /\ proc'[o].pid = x
    <3>1. CASE \E o \in Owner : proc[o].at = "spawned" /\ proc[o].pid = x
      <4>1. PICK o \in Owner : proc[o].at = "spawned" /\ proc[o].pid = x
        BY <3>1
      <4>2. o \in E => x \in Held(E)
        BY <4>1 DEF Held
      <4> QED BY <1>3, <4>1, <4>2 DEF ProcessesGone
    <3> QED BY <1>0, <2>1, <3>1 DEF KnownXray, ProcessesGone
  <2>2. \A o \in Owner : /\ proc'[o].at = "spawned" => ~IsRunning'
                         /\ proc'[o].at = "stopping" => xrayPid' = proc'[o].pid
    BY <1>0, <1>1, <1>3, <1>8 DEF KnownXray, ProcessesGone
  <2>3. ASSUME NEW t \in Terminal, cmd'[t].op = "stop", cmd'[t].at = "end", proc'[t].at = "free" PROVE ~IsRunning'
    <3>1. cmd[t] = cmd'[t]
      BY <2>3 DEF ProcessesGone
    <3>2. proc[t].at = "free"
      BY <1>a, <1>3, <2>3 DEF ProcessesGone
    <3> QED BY <1>0, <1>8, <2>3, <3>1, <3>2 DEF KnownXray
  <2> QED BY <2>1, <2>2, <2>3 DEF KnownXray
<1>10. calm' => OwnXray'
  BY <1>0, <1>a, <1>3 DEF OwnXray, ProcessesGone
<1> QED BY <1>5, <1>6, <1>7, <1>9, <1>10 DEF DaemonInv

LEMMA ProcessesEndSteps ==
    ASSUME DaemonInv, (\E p \in AgentId : Exit(p) \/ AgentDies(p))
                        \/ (\E t \in Terminal : SIGKILL(t) \/ LookAndTerm(t))
    PROVE  DaemonInv'
<1>0. DaemonTypes /\ HoldersInv /\ (calm => OneAtATime /\ KnownXray /\ OwnXray)
  BY DEF DaemonInv
<1>a. Terminal \cap AgentId = {} /\ Owner = AgentId \cup Terminal /\ NoPid \notin AgentId \cup XrayId
  BY DaemonAssumption DEF Owner
<1>b. /\ agent \in [AgentId -> {"none", "load", "cleanup", "wait", "boot", "begin",
                             "up", "stop", "leave", "gone"}]
      /\ reviving \in [AgentId -> BOOLEAN] /\ cmd \in [Terminal -> CmdType]
      /\ agentPid \in AgentId \cup {NoPid}
  BY <1>0 DEF DaemonTypes
<1>1. ASSUME NEW p \in AgentId, Exit(p) \/ AgentDies(p)
      PROVE  DaemonInv'
  <2>1. ProcessesEnd({p}, {}) /\ UNCHANGED <<agentPid, cmd, calm>>
    BY <1>1 DEF Exit, AgentDies
  <2>2. ProcessesGone({p})
    BY <1>a, <1>b, <2>1 DEF ProcessesEnd, ProcessesGone
  <2> QED BY <1>a, <2>2, GoneKeeps
<1>2. ASSUME NEW t \in Terminal, SIGKILL(t)
      PROVE  DaemonInv'
  <2> DEFINE P == cmd[t].pids
  <2>1. ProcessesEnd(P, {}) /\ UNCHANGED <<agentPid, calm>> /\ Goes(t, "remove") /\ cmd[t].at = "kill"
    BY <1>2 DEF SIGKILL
  <2>2. /\ cmd' \in [Terminal -> CmdType] /\ cmd'[t].op = cmd[t].op /\ cmd'[t].at = "remove"
        /\ \A u \in Terminal \ {t} : cmd'[u] = cmd[u]
    BY <1>0, <2>1, GoesTo
  <2>3. P \in SUBSET AgentId
    BY <1>b DEF CmdType
  <2> HIDE DEF P
  <2>4. agent' = [q \in AgentId |-> IF q \in P THEN "gone" ELSE agent[q]]
    BY <2>1 DEF ProcessesEnd
  <2>5. P \cap Alive' = {}
    BY <2>3, <2>4 DEF Alive
  <2>6. ProcessesGone(P)
    <3>1. \A u \in Terminal : u \notin P
      BY <1>a, <2>3
    <3>2. \A u \in Terminal : \/ cmd'[u] = cmd[u]
                             \/ /\ cmd[u].at = "kill" /\ cmd'[u].at = "remove" /\ cmd'[u].op = cmd[u].op
                                /\ cmd[u].pids \cap Alive' = {}
      BY <2>1, <2>2, <2>5 DEF P
    <3> QED BY <1>b, <2>1, <2>2, <2>4, <3>1, <3>2 DEF ProcessesEnd, ProcessesGone
  <2> QED BY <1>a, <2>3, <2>6, GoneKeeps
<1>3. ASSUME NEW t \in Terminal, LookAndTerm(t)
      PROVE  DaemonInv'
  <2> DEFINE P == AgentPids
             C == OtherCommands(t)
             E == (P \cap Booting) \cup C
             m == [cmd[t] EXCEPT !.at = "kill"]
             r == [m EXCEPT !.pids = P]
  <2>1. /\ SIGTERM(P, C) /\ UNCHANGED <<agentPid, calm>> /\ cmd[t].at = "look"
        /\ cmd' = [u \in Terminal |-> IF u = t THEN r ELSE NoCommand]
    BY <1>3, Zenon DEF LookAndTerm
  <2>2. P \in SUBSET AgentId /\ Alive \subseteq P /\ C \in SUBSET Terminal /\ t \notin C
        /\ \A u \in Terminal \ {t} : u \in C \/ cmd[u].op = "none"
    BY <1>b DEF AgentPids, Alive, OtherCommands, Busy
  <2>3. m \in CmdType /\ m.op = cmd[t].op /\ m.at = "kill"
    BY <1>b DEF CmdType
  <2> HIDE DEF P, m
  <2>4. r \in CmdType /\ r.op = m.op /\ r.at = "kill" /\ r.pids = P
    BY <2>2, <2>3 DEF CmdType
  <2> HIDE DEF C, r
  <2>5. NoCommand \in CmdType /\ NoCommand.op = "none" /\ NoCommand.at = "idle"
    BY DEF NoCommand, CmdType
  <2>6. /\ cmd' \in [Terminal -> CmdType] /\ cmd'[t] = r
        /\ \A u \in Terminal : u # t => cmd'[u].op = "none" /\ cmd'[u].at = "idle"
    BY <2>1, <2>4, <2>5
  <2>7. /\ agent' = [q \in AgentId |-> IF q \in P \cap Booting THEN "gone"
                                     ELSE IF q \in P /\ agent[q] = "up" THEN "stop"
                                     ELSE agent[q]]
        /\ reviving' = [q \in AgentId |-> reviving[q] /\ q \notin P \cap Booting]
        /\ proc' = [o \in Owner |-> IF o \in E THEN FreeProc ELSE proc[o]]
        /\ unrecorded' = unrecorded \cup Held(E)
        /\ UNCHANGED <<started, xray, xrayPid>>
    BY <2>1 DEF SIGTERM
  <2>8. Alive' \subseteq P
    BY <1>b, <2>2, <2>7 DEF Alive
  <2>9. \A q \in AgentId : (q \in P \cap Booting <=> q \in E) /\ (q \in Booting => agent[q] # "up")
    BY <1>a, <2>2 DEF Booting
  <2>10. E \in SUBSET Owner
    BY <1>a, <2>2
  <2>11. \A u \in Terminal : /\ u \notin E \/ cmd'[u].op = "none"
                             /\ u # t => u \in E \/ cmd[u].op = "none"
    BY <1>a, <2>2, <2>6
  <2> HIDE DEF E
  <2>12. /\ agent' \in [AgentId -> {"none", "load", "cleanup", "wait", "boot", "begin",
                             "up", "stop", "leave", "gone"}]
         /\ \A p \in AgentId : \/ agent'[p] = "gone" /\ p \in E
                               \/ agent'[p] = agent[p] /\ p \notin E
                               \/ agent'[p] = "stop" /\ agent[p] = "up" /\ p \notin E
    BY <1>b, <2>7, <2>9
  <2>13. /\ reviving' \in [AgentId -> BOOLEAN]
         /\ \A p \in AgentId : reviving'[p] => reviving[p] /\ p \notin E
    BY <1>b, <2>7, <2>9
  <2>14. ProcessesGone(E)
    BY <2>1, <2>3, <2>4, <2>6, <2>7, <2>8, <2>11, <2>12, <2>13 DEF ProcessesGone
  <2> QED BY <2>10, <2>14, GoneKeeps
<1> QED BY <1>1, <1>2, <1>3

\* An agent that lives, and a command at its own start or stop of xray, find every Proc free.
LEMMA AllFree ==
    ASSUME DaemonInv, calm, NEW o \in Owner, proc[o].at = "free",
           o \in Alive \/ (o \in Terminal /\ cmd[o].at \in {"stopXray", "startXray", "report", "end"})
    PROVE  \A q \in Owner : proc[q].at = "free"
<1>0. DaemonTypes /\ HoldersInv /\ (calm => OneAtATime /\ KnownXray /\ OwnXray)
  BY DEF DaemonInv
<1>a. Terminal \cap AgentId = {} /\ Owner = AgentId \cup Terminal /\ NoPid \notin AgentId \cup XrayId
  BY DaemonAssumption DEF Owner
<1>1. SUFFICES ASSUME NEW q \in Owner, proc[q].at # "free" PROVE FALSE
  OBVIOUS
<1>2. \A p \in Alive : p = q
  BY <1>1, OnlyHolder
<1>3. o \in Terminal /\ Alive = {} /\ cmd[o].op # "none"
  BY <1>0, <1>1, <1>2 DEF OneAtATime, HoldersInv
<1>4. q \in AgentId => q \in Alive
  BY <1>0, <1>1 DEF HoldersInv, Alive, DaemonTypes
<1>5. q \in Terminal /\ cmd[q].op # "none"
  BY <1>0, <1>a, <1>1, <1>3, <1>4 DEF HoldersInv
<1> QED BY <1>0, <1>1, <1>3, <1>5 DEF OneAtATime

\* What Start does to the processes.
LEMMA StartMoves ==
    ASSUME DaemonInv, NEW o \in Owner, StartLocked(o)
    PROVE  /\ proc[o].at = "free" /\ xrayPid' = xrayPid /\ unrecorded' = unrecorded
           /\ xray' \in [XrayId -> {"none", "running", "ending"}] /\ proc' \in [Owner -> ProcType]
           /\ \A q \in Owner : IF proc'[q].at = "free" THEN proc'[q] = FreeProc ELSE proc'[q].pid \in XrayId
           /\ proc'[o].at \in {"free", "spawned"}
           /\ \A q \in Owner : q # o => proc'[q] = proc[q]
           /\ (IsRunning' <=> IsRunning)
           /\ \/ IsRunning /\ proc' = proc /\ xray' = xray
              \/ /\ ~IsRunning /\ proc'[o].at = "spawned" /\ proc'[o].pid \in XrayId
                 /\ \A y \in XrayId : y # proc'[o].pid => xray'[y] = xray[y]
<1>0. DaemonTypes /\ HoldersInv /\ (calm => OneAtATime /\ KnownXray /\ OwnXray)
  BY DEF DaemonInv
<1>a. Terminal \cap AgentId = {} /\ Owner = AgentId \cup Terminal /\ NoPid \notin AgentId \cup XrayId
  BY DaemonAssumption DEF Owner
<1>1. proc[o].at = "free" /\ xrayPid' = xrayPid /\ unrecorded' = unrecorded
  BY DEF StartLocked
<1>2. CASE IsRunning /\ UNCHANGED <<proc, xray>>
  BY <1>0, <1>1, <1>2 DEF DaemonTypes, IsRunning, XrayAlive
<1>3. ASSUME NEW x \in UnusedXray, ~IsRunning, xray' = [xray EXCEPT ![x] = "running"],
             proc' = [proc EXCEPT ![o] = [at |-> "spawned", pid |-> x]]
      PROVE  /\ xray' \in [XrayId -> {"none", "running", "ending"}] /\ proc' \in [Owner -> ProcType]
             /\ \A q \in Owner : IF proc'[q].at = "free" THEN proc'[q] = FreeProc ELSE proc'[q].pid \in XrayId
             /\ proc'[o].at = "spawned" /\ proc'[o].pid = x /\ x \in XrayId /\ ~IsRunning'
             /\ \A q \in Owner : q # o => proc'[q] = proc[q]
             /\ \A y \in XrayId : y # x => xray'[y] = xray[y]
  <2>1. x \in XrayId /\ x # xrayPid
    BY DEF UnusedXray
  <2>2. xray \in [XrayId -> {"none", "running", "ending"}] /\ proc \in [Owner -> ProcType]
    BY <1>0 DEF DaemonTypes
  <2> DEFINE n == [at |-> "spawned", pid |-> x]
  <2>3. n \in ProcType /\ n.at = "spawned" /\ n.pid = x
    BY <2>1 DEF ProcType
  <2>4. proc' = [proc EXCEPT ![o] = n]
    BY <1>3
  <2> HIDE DEF n
  <2>5. proc' \in [Owner -> ProcType] /\ proc'[o] = n /\ \A q \in Owner : q # o => proc'[q] = proc[q]
    BY <2>2, <2>3, <2>4
  <2>6. xray' \in [XrayId -> {"none", "running", "ending"}] /\ \A y \in XrayId : y # x => xray'[y] = xray[y]
    BY <1>3, <2>1, <2>2
  <2>7. ~IsRunning'
    BY <1>0, <1>1, <1>3, <2>1, <2>6 DEF IsRunning, XrayAlive, DaemonTypes
  <2>8. \A q \in Owner : IF proc'[q].at = "free" THEN proc'[q] = FreeProc ELSE proc'[q].pid \in XrayId
    BY <1>0, <2>1, <2>3, <2>5 DEF DaemonTypes
  <2> QED BY <2>1, <2>3, <2>5, <2>6, <2>7, <2>8
<1> QED BY <1>1, <1>2, <1>3 DEF StartLocked

\* Start, at boot, by the watchdog, or by restart.
LEMMA Starts ==
    ASSUME DaemonInv, (\E p \in AgentId : StartAtBoot(p) \/ CheckStarts(p))
                        \/ \E t \in Terminal : RestartStarts(t)
    PROVE  DaemonInv'
<1>0. DaemonTypes /\ HoldersInv /\ (calm => OneAtATime /\ KnownXray /\ OwnXray)
  BY DEF DaemonInv
<1>a. Terminal \cap AgentId = {} /\ Owner = AgentId \cup Terminal /\ NoPid \notin AgentId \cup XrayId
  BY DaemonAssumption DEF Owner
\* What is common to the three.
<1>k. ASSUME NEW o \in Owner, StartLocked(o), calm, DaemonTypes',
             o \in Alive \/ (o \in Terminal /\ cmd[o].at = "startXray"),
             \A t \in Terminal : cmd'[t].op = "stop" /\ cmd'[t].at = "end" =>
                                   t # o /\ cmd[t].op = "stop" /\ cmd[t].at = "end"
      PROVE  KnownXray'
  <2>1. /\ proc[o].at = "free" /\ xrayPid' = xrayPid /\ unrecorded' = unrecorded
        /\ \A q \in Owner : q # o => proc'[q] = proc[q]
        /\ (IsRunning' <=> IsRunning)
        /\ \/ IsRunning /\ proc' = proc /\ xray' = xray
           \/ /\ ~IsRunning /\ proc'[o].at = "spawned"
              /\ \A y \in XrayId : y # proc'[o].pid => xray'[y] = xray[y]
    BY <1>k, StartMoves
  <2>2. \A q \in Owner : proc[q].at = "free"
    BY <1>k, <2>1, AllFree
  <2>3. ASSUME NEW y \in XrayId, xray'[y] # "none"
        PROVE  y = xrayPid' \/ y \in unrecorded' \/ \E q \in Owner : proc'[q].at = "spawned" /\ proc'[q].pid = y
    BY <1>0, <1>k, <2>1, <2>2, <2>3 DEF KnownXray
  <2>4. \A q \in Owner : /\ proc'[q].at = "spawned" => ~IsRunning'
                         /\ proc'[q].at = "stopping" => xrayPid' = proc'[q].pid
    BY <2>1, <2>2
  <2>5. \A t \in Terminal : cmd'[t].op = "stop" /\ cmd'[t].at = "end" /\ proc'[t].at = "free" => ~IsRunning'
    BY <1>0, <1>a, <1>k, <2>1 DEF KnownXray
  <2> QED BY <2>3, <2>4, <2>5 DEF KnownXray
<1>1. ASSUME NEW p \in AgentId, StartAtBoot(p) \/ CheckStarts(p)
      PROVE  DaemonInv'
  <2>1. /\ StartLocked(p) /\ UNCHANGED <<agentPid, cmd, calm>>
        /\ agent[p] \in {"boot", "up", "stop", "leave"}
        /\ agent' \in [AgentId -> {"none", "load", "cleanup", "wait", "boot", "begin",
                            "up", "stop", "leave", "gone"}]
        /\ agent'[p] = IF agent[p] = "boot" THEN "begin" ELSE agent[p]
        /\ \A q \in AgentId : q # p => agent'[q] = agent[q]
        /\ started' \in [AgentId -> BOOLEAN] /\ reviving' \in [AgentId -> BOOLEAN]
        /\ \A q \in AgentId : reviving'[q] => reviving[q]
        /\ p \in Owner /\ p \in Alive
    <3>1. CASE StartAtBoot(p)
      BY <1>0, <1>a, <3>1 DEF StartAtBoot, SetsStarted, DaemonTypes, Alive
    <3>2. CASE CheckStarts(p)
      BY <1>0, <1>a, <3>2 DEF CheckStarts, SetsStarted, DaemonTypes, HoldersInv, Alive
    <3> QED BY <1>1, <3>1, <3>2
  <2>2. /\ proc[p].at = "free" /\ xrayPid' = xrayPid /\ unrecorded' = unrecorded
        /\ xray' \in [XrayId -> {"none", "running", "ending"}] /\ proc' \in [Owner -> ProcType]
        /\ \A q \in Owner : IF proc'[q].at = "free" THEN proc'[q] = FreeProc ELSE proc'[q].pid \in XrayId
        /\ proc'[p].at \in {"free", "spawned"}
        /\ \A q \in Owner : q # p => proc'[q] = proc[q]
    BY <2>1, StartMoves
  <2>3. Alive' = Alive
    BY <1>0, <2>1 DEF Alive, DaemonTypes
  <2>4. DaemonTypes'
    BY <1>0, <2>1, <2>2 DEF DaemonTypes
  <2>5. HoldersInv'
    BY <1>0, <1>a, <2>1, <2>2 DEF HoldersInv
  <2>6. calm' => OneAtATime'
    BY <1>0, <2>1, <2>3 DEF OneAtATime
  <2>7. calm' => KnownXray'
    BY <1>a, <1>k, <2>1, <2>4
  <2>8. calm' => OwnXray'
    <3> SUFFICES ASSUME calm, NEW q \in AgentId
                 PROVE  /\ agent'[q] \in {"wait", "boot"} => \A x \in XrayId : xray'[x] # "running"
                        /\ agent'[q] \in {"begin", "up"} =>
                             \A x \in XrayId : xray'[x] = "running"
                                => x = IF proc'[q].at = "spawned" THEN proc'[q].pid ELSE xrayPid'
      BY <2>1 DEF OwnXray
    <3>1. CASE q # p
      BY <1>0, <2>1, <3>1 DEF OneAtATime, Alive
    <3>2. CASE q = p
      <4>1. \/ IsRunning /\ proc' = proc /\ xray' = xray
            \/ /\ ~IsRunning /\ proc'[p].at = "spawned"
               /\ \A y \in XrayId : y # proc'[p].pid => xray'[y] = xray[y]
        BY <2>1, StartMoves
      <4>2. agent[p] \in {"boot", "up"} => \A x \in XrayId : xray[x] = "running" => x = xrayPid
        BY <1>0, <2>2 DEF OwnXray
      <4>3. ~IsRunning => \A x \in XrayId : x = xrayPid => xray[x] = "none"
        BY <1>a DEF IsRunning, XrayAlive
      <4> QED BY <2>1, <2>2, <3>2, <4>1, <4>2, <4>3
    <3> QED BY <3>1, <3>2
  <2> QED BY <2>4, <2>5, <2>6, <2>7, <2>8 DEF DaemonInv
<1>2. ASSUME NEW t \in Terminal, RestartStarts(t)
      PROVE  DaemonInv'
  <2>1. StartLocked(t) /\ Goes(t, "end") /\ cmd[t].at = "startXray" /\ UNCHANGED <<agents, agentPid, calm>>
        /\ t \in Owner
    BY <1>2, <1>a DEF RestartStarts
  <2>2. /\ proc[t].at = "free" /\ xrayPid' = xrayPid /\ unrecorded' = unrecorded
        /\ xray' \in [XrayId -> {"none", "running", "ending"}] /\ proc' \in [Owner -> ProcType]
        /\ \A q \in Owner : IF proc'[q].at = "free" THEN proc'[q] = FreeProc ELSE proc'[q].pid \in XrayId
        /\ proc'[t].at \in {"free", "spawned"}
        /\ \A q \in Owner : q # t => proc'[q] = proc[q]
    BY <2>1, StartMoves
  <2>3. /\ cmd' \in [Terminal -> CmdType] /\ cmd'[t].op = cmd[t].op /\ cmd'[t].at = "end"
        /\ \A u \in Terminal \ {t} : cmd'[u] = cmd[u]
    BY <1>0, <2>1, GoesTo
  <2>4. cmd[t].op = "restart" /\ (calm => Alive = {})
    BY <1>0, <2>1 DEF HoldersInv, OneAtATime
  <2>5. DaemonTypes'
    BY <1>0, <2>1, <2>2, <2>3 DEF DaemonTypes, agents
  <2>6. HoldersInv'
    BY <1>0, <1>a, <2>1, <2>2, <2>3, <2>4 DEF HoldersInv, agents
  <2>7. calm' => OneAtATime'
    BY <1>0, <2>1, <2>3, <2>4 DEF OneAtATime, Alive, agents
  <2>8. calm' => KnownXray'
    BY <1>k, <2>1, <2>3, <2>4, <2>5
  <2>9. calm' => OwnXray'
    BY <1>0, <2>1, <2>4 DEF OwnXray, Alive, agents
  <2> QED BY <2>5, <2>6, <2>7, <2>8, <2>9 DEF DaemonInv
<1> QED BY <1>1, <1>2

\* What Stop does to the processes.
LEMMA StopMoves ==
    ASSUME DaemonInv, NEW o \in Owner, StopLocked(o)
    PROVE  /\ proc[o].at = "free" /\ unrecorded' = unrecorded
           /\ xray' \in [XrayId -> {"none", "running", "ending"}] /\ proc' \in [Owner -> ProcType]
           /\ \A q \in Owner : IF proc'[q].at = "free" THEN proc'[q] = FreeProc ELSE proc'[q].pid \in XrayId
           /\ \A q \in Owner : q # o => proc'[q] = proc[q]
           /\ xrayPid' \in XrayId \cup {NoPid}
           /\ \A y \in XrayId : xray'[y] = "none" <=> xray[y] = "none"
           /\ \/ ~IsRunning /\ ~IsRunning' /\ proc' = proc
              \/ IsRunning /\ proc'[o].at = "stopping" /\ xrayPid' = xrayPid /\ proc'[o].pid = xrayPid
<1>0. DaemonTypes /\ HoldersInv /\ (calm => OneAtATime /\ KnownXray /\ OwnXray)
  BY DEF DaemonInv
<1>a. Terminal \cap AgentId = {} /\ Owner = AgentId \cup Terminal /\ NoPid \notin AgentId \cup XrayId
  BY DaemonAssumption DEF Owner
<1>1. proc[o].at = "free" /\ unrecorded' = unrecorded
  BY DEF StopLocked
<1>2. CASE ~IsRunning
  <2>1. xrayPid' = NoPid /\ proc' = proc /\ xray' = xray
    BY <1>2 DEF StopLocked
  <2> QED BY <1>0, <1>1, <1>2, <2>1 DEF DaemonTypes, IsRunning, XrayAlive
<1>3. CASE IsRunning
  <2>1. xrayPid \in XrayId /\ xray[xrayPid] # "none"
    BY <1>0, <1>3 DEF DaemonTypes, IsRunning, XrayAlive
  <2>2. xray \in [XrayId -> {"none", "running", "ending"}] /\ proc \in [Owner -> ProcType]
    BY <1>0 DEF DaemonTypes
  <2> DEFINE n == [at |-> "stopping", pid |-> xrayPid]
  <2>3. n \in ProcType /\ n.at = "stopping" /\ n.pid = xrayPid
    BY <2>1 DEF ProcType
  <2>4. proc' = [proc EXCEPT ![o] = n] /\ xray' = [xray EXCEPT ![xrayPid] = "ending"] /\ xrayPid' = xrayPid
    BY <1>3 DEF StopLocked
  <2> HIDE DEF n
  <2>5. proc' \in [Owner -> ProcType] /\ proc'[o] = n /\ \A q \in Owner : q # o => proc'[q] = proc[q]
    BY <2>2, <2>3, <2>4
  <2>6. /\ xray' \in [XrayId -> {"none", "running", "ending"}]
        /\ \A y \in XrayId : xray'[y] = "none" <=> xray[y] = "none"
    BY <2>1, <2>2, <2>4
  <2>7. \A q \in Owner : IF proc'[q].at = "free" THEN proc'[q] = FreeProc ELSE proc'[q].pid \in XrayId
    BY <1>0, <2>1, <2>3, <2>5 DEF DaemonTypes
  <2> QED BY <1>1, <1>3, <2>1, <2>3, <2>4, <2>5, <2>6, <2>7
<1> QED BY <1>2, <1>3

\* Stop, at the exit of an agent, by restart, or by stop for what a killed agent left.
LEMMA Stops ==
    ASSUME DaemonInv, (\E p \in AgentId : StopAtExit(p))
                        \/ \E t \in Terminal : RestartStops(t) \/ ReportXrayStopped(t)
    PROVE  DaemonInv'
<1>0. DaemonTypes /\ HoldersInv /\ (calm => OneAtATime /\ KnownXray /\ OwnXray)
  BY DEF DaemonInv
<1>a. Terminal \cap AgentId = {} /\ Owner = AgentId \cup Terminal /\ NoPid \notin AgentId \cup XrayId
  BY DaemonAssumption DEF Owner
<1>k. ASSUME NEW o \in Owner, StopLocked(o), calm,
             o \in Alive \/ (o \in Terminal /\ cmd[o].at \in {"stopXray", "report"}),
             \A t \in Terminal : cmd'[t].op = "stop" /\ cmd'[t].at = "end" =>
                                   t = o \/ (cmd[t].op = "stop" /\ cmd[t].at = "end")
      PROVE  KnownXray'
  <2>1. /\ proc[o].at = "free" /\ unrecorded' = unrecorded
        /\ \A q \in Owner : q # o => proc'[q] = proc[q]
        /\ \A y \in XrayId : xray'[y] = "none" <=> xray[y] = "none"
        /\ \/ ~IsRunning /\ ~IsRunning' /\ proc' = proc
           \/ IsRunning /\ proc'[o].at = "stopping" /\ xrayPid' = xrayPid /\ proc'[o].pid = xrayPid
    BY <1>k, StopMoves
  <2>2. \A q \in Owner : proc[q].at = "free"
    BY <1>k, <2>1, AllFree
  <2>3. ~IsRunning => \A x \in XrayId : x = xrayPid => xray[x] = "none"
    BY <1>a DEF IsRunning, XrayAlive
  <2>4. ASSUME NEW y \in XrayId, xray'[y] # "none"
        PROVE  y = xrayPid' \/ y \in unrecorded'
    BY <1>0, <1>k, <2>1, <2>2, <2>3, <2>4 DEF KnownXray
  <2>5. \A q \in Owner : /\ proc'[q].at = "spawned" => ~IsRunning'
                         /\ proc'[q].at = "stopping" => xrayPid' = proc'[q].pid
    BY <2>1, <2>2
  <2>6. ASSUME NEW t \in Terminal, cmd'[t].op = "stop", cmd'[t].at = "end", proc'[t].at = "free" PROVE ~IsRunning'
    <3>1. CASE t = o
      BY <2>1, <2>6, <3>1
    <3>2. CASE t # o
      <4>1. ~IsRunning
        BY <1>0, <1>a, <1>k, <2>2, <2>6, <3>2 DEF KnownXray
      <4> QED BY <2>1, <4>1
    <3> QED BY <3>1, <3>2
  <2> QED BY <2>4, <2>5, <2>6 DEF KnownXray
<1>1. ASSUME NEW p \in AgentId, StopAtExit(p)
      PROVE  DaemonInv'
  <2>1. /\ StopLocked(p) /\ UNCHANGED <<agentPid, cmd, calm, reviving>>
        /\ agent[p] = "stop" /\ agent' = [agent EXCEPT ![p] = "leave"]
        /\ started' \in [AgentId -> BOOLEAN]
        /\ p \in Owner /\ p \in Alive
    BY <1>0, <1>1, <1>a DEF StopAtExit, DaemonTypes, Alive
  <2>2. /\ proc[p].at = "free" /\ unrecorded' = unrecorded
        /\ xray' \in [XrayId -> {"none", "running", "ending"}] /\ proc' \in [Owner -> ProcType]
        /\ \A q \in Owner : IF proc'[q].at = "free" THEN proc'[q] = FreeProc ELSE proc'[q].pid \in XrayId
        /\ \A q \in Owner : q # p => proc'[q] = proc[q]
        /\ xrayPid' \in XrayId \cup {NoPid}
    BY <2>1, StopMoves
  <2>3. Alive' = Alive
    BY <1>0, <2>1 DEF Alive, DaemonTypes
  <2>4. DaemonTypes'
    BY <1>0, <2>1, <2>2 DEF DaemonTypes
  <2>5. HoldersInv'
    BY <1>0, <1>a, <2>1, <2>2 DEF HoldersInv, DaemonTypes
  <2>6. calm' => OneAtATime'
    BY <1>0, <2>1, <2>3 DEF OneAtATime
  <2>7. calm' => KnownXray'
    BY <1>a, <1>k, <2>1
  <2>8. calm' => OwnXray'
    BY <1>0, <2>1 DEF OwnXray, OneAtATime, Alive, DaemonTypes
  <2> QED BY <2>4, <2>5, <2>6, <2>7, <2>8 DEF DaemonInv
<1>2. ASSUME NEW t \in Terminal, RestartStops(t) \/ (ReportXrayStopped(t) /\ IsRunning)
      PROVE  DaemonInv'
  <2>1. /\ StopLocked(t) /\ UNCHANGED <<agents, agentPid, calm>> /\ t \in Owner
        /\ \/ cmd[t].at = "stopXray" /\ Goes(t, "startXray")
           \/ cmd[t].at = "report" /\ Goes(t, "end")
    BY <1>2, <1>a DEF RestartStops, ReportXrayStopped
  <2>2. /\ proc[t].at = "free" /\ unrecorded' = unrecorded
        /\ xray' \in [XrayId -> {"none", "running", "ending"}] /\ proc' \in [Owner -> ProcType]
        /\ \A q \in Owner : IF proc'[q].at = "free" THEN proc'[q] = FreeProc ELSE proc'[q].pid \in XrayId
        /\ \A q \in Owner : q # t => proc'[q] = proc[q]
        /\ xrayPid' \in XrayId \cup {NoPid} /\ proc'[t].at # "spawned"
    BY <2>1, StopMoves
  <2>3. /\ cmd' \in [Terminal -> CmdType] /\ cmd'[t].op = cmd[t].op
        /\ cmd'[t].at = IF cmd[t].at = "stopXray" THEN "startXray" ELSE "end"
        /\ \A u \in Terminal \ {t} : cmd'[u] = cmd[u]
    BY <1>0, <2>1, GoesTo
  <2>4. /\ calm => Alive = {}
        /\ cmd[t].at = "stopXray" => cmd[t].op = "restart"
        /\ cmd[t].op # "none"
    BY <1>0, <2>1 DEF HoldersInv, OneAtATime
  <2>5. DaemonTypes'
    BY <1>0, <2>1, <2>2, <2>3 DEF DaemonTypes, agents
  <2>6. HoldersInv'
    BY <1>0, <1>a, <2>1, <2>2, <2>3, <2>4 DEF HoldersInv, agents
  <2>7. calm' => OneAtATime'
    BY <1>0, <2>1, <2>3, <2>4 DEF OneAtATime, Alive, agents
  <2>8. calm' => KnownXray'
    BY <1>k, <2>1, <2>3, <2>4
  <2>9. calm' => OwnXray'
    BY <1>0, <2>1, <2>4 DEF OwnXray, Alive, agents
  <2> QED BY <2>5, <2>6, <2>7, <2>8, <2>9 DEF DaemonInv
<1>3. ASSUME NEW t \in Terminal, ReportXrayStopped(t), ~IsRunning
      PROVE  DaemonInv'
  <2>1. /\ UNCHANGED <<agents, xrays, agentPid, calm>> /\ cmd[t].at = "report" /\ Goes(t, "end")
    BY <1>3 DEF ReportXrayStopped
  <2>3. /\ cmd' \in [Terminal -> CmdType] /\ cmd'[t].op = cmd[t].op /\ cmd'[t].at = "end"
        /\ \A u \in Terminal \ {t} : cmd'[u] = cmd[u]
    BY <1>0, <2>1, GoesTo
  <2>4. cmd[t].op # "none" /\ (calm => Alive = {})
    BY <1>0, <2>1 DEF HoldersInv, OneAtATime
  <2>5. DaemonTypes'
    BY <1>0, <2>1, <2>3 DEF DaemonTypes, agents, xrays
  <2>6. HoldersInv'
    BY <1>0, <1>a, <2>1, <2>3, <2>4 DEF HoldersInv, agents, xrays
  <2>7. calm' => OneAtATime'
    BY <1>0, <2>1, <2>3, <2>4 DEF OneAtATime, Alive, agents
  <2>8. calm' => KnownXray'
    BY <1>0, <1>3, <2>1, <2>3 DEF KnownXray, IsRunning, XrayAlive, xrays
  <2>9. calm' => OwnXray'
    BY <1>0, <2>1 DEF OwnXray, xrays, agents
  <2> QED BY <2>5, <2>6, <2>7, <2>8, <2>9 DEF DaemonInv
<1> QED BY <1>1, <1>2, <1>3

\* xray.pid is written, a stop ends, and an xray exits or dies.
LEMMA XrayMoves ==
    ASSUME DaemonInv, (\E o \in Owner : ProcStep(o)) \/ \E x \in XrayId : XrayExits(x) \/ XrayDies(x)
    PROVE  DaemonInv'
<1>0. DaemonTypes /\ HoldersInv /\ (calm => OneAtATime /\ KnownXray /\ OwnXray)
  BY DEF DaemonInv
<1>a. Terminal \cap AgentId = {} /\ Owner = AgentId \cup Terminal /\ NoPid \notin AgentId \cup XrayId
  BY DaemonAssumption DEF Owner
<1>b. proc \in [Owner -> ProcType] /\ FreeProc \in ProcType /\ FreeProc.at = "free"
      /\ xray \in [XrayId -> {"none", "running", "ending"}]
  BY <1>0 DEF DaemonTypes, FreeProc, ProcType
<1>1. ASSUME NEW o \in Owner, WriteXrayPid(o)
      PROVE  DaemonInv'
  <2>1. /\ UNCHANGED <<agents, xray, agentPid, cmd, calm, unrecorded>> /\ proc[o].at = "spawned"
        /\ xrayPid' = proc[o].pid /\ proc' = [proc EXCEPT ![o] = FreeProc]
    BY <1>1 DEF WriteXrayPid
  <2>2. /\ proc' \in [Owner -> ProcType] /\ proc'[o] = FreeProc /\ xrayPid' \in XrayId
        /\ \A q \in Owner : q # o => proc'[q] = proc[q]
    BY <1>0, <1>b, <2>1 DEF DaemonTypes
  <2>3. calm => /\ \A q \in Owner : proc[q].at # "free" => q = o
                /\ \A p \in Alive : p = o
    BY <2>1, OnlyHolder
  <2>4. DaemonTypes'
    BY <1>0, <1>b, <2>1, <2>2 DEF DaemonTypes, agents
  <2>5. HoldersInv'
    BY <1>0, <1>a, <1>b, <2>1, <2>2 DEF HoldersInv, agents
  <2>6. calm' => OneAtATime'
    BY <1>0, <2>1 DEF OneAtATime, Alive, agents
  <2>7. calm' => KnownXray'
    <3> SUFFICES ASSUME calm PROVE KnownXray'
      BY <2>1
    <3>1. \A q \in Owner : proc'[q].at = "free"
      BY <1>b, <2>2, <2>3
    <3>2. ~IsRunning => \A x \in XrayId : x = xrayPid => xray[x] = "none"
      BY <1>a DEF IsRunning, XrayAlive
    <3>3. ~IsRunning
      BY <1>0, <2>1 DEF KnownXray
    <3>4. ASSUME NEW y \in XrayId, xray'[y] # "none" PROVE y = xrayPid' \/ y \in unrecorded'
      BY <1>0, <2>1, <2>3, <3>2, <3>3, <3>4 DEF KnownXray
    <3>5. ASSUME NEW t \in Terminal, cmd'[t].op = "stop", cmd'[t].at = "end" PROVE FALSE
      <4>1. Alive = {} /\ cmd[t].op = "stop" /\ cmd[t].at = "end"
        BY <1>0, <2>1, <3>5 DEF OneAtATime
      <4>2. o \notin AgentId
        BY <1>0, <2>1, <4>1 DEF HoldersInv, Alive, DaemonTypes
      <4>3. o \in Terminal /\ cmd[o].op # "none"
        BY <1>0, <1>a, <2>1, <4>2 DEF HoldersInv
      <4>4. o = t
        BY <1>0, <4>1, <4>3 DEF OneAtATime
      <4> QED BY <1>0, <2>1, <4>1, <4>3, <4>4 DEF HoldersInv
    <3> QED BY <3>1, <3>4, <3>5 DEF KnownXray
  <2>8. calm' => OwnXray'
    <3> SUFFICES ASSUME calm, NEW p \in AgentId
                 PROVE  /\ agent'[p] \in {"wait", "boot"} => \A x \in XrayId : xray'[x] # "running"
                        /\ agent'[p] \in {"begin", "up"} =>
                             \A x \in XrayId : xray'[x] = "running"
                                => x = IF proc'[p].at = "spawned" THEN proc'[p].pid ELSE xrayPid'
      BY <2>1 DEF OwnXray
    <3>1. p = o \/ p \notin Alive
      BY <2>3
    <3> QED BY <1>0, <1>b, <2>1, <2>2, <3>1 DEF OwnXray, Alive, agents
  <2> QED BY <2>4, <2>5, <2>6, <2>7, <2>8 DEF DaemonInv
<1>2. ASSUME NEW o \in Owner, StopEnds(o)
      PROVE  DaemonInv'
  <2>1. /\ UNCHANGED <<agents, agentPid, cmd, calm, unrecorded>> /\ proc[o].at = "stopping"
        /\ xrayPid' = NoPid /\ proc' = [proc EXCEPT ![o] = FreeProc]
        /\ xray' = [xray EXCEPT ![proc[o].pid] = "none"]
    BY <1>2 DEF StopEnds
  <2>2. /\ proc' \in [Owner -> ProcType] /\ proc'[o] = FreeProc
        /\ \A q \in Owner : q # o => proc'[q] = proc[q]
        /\ xray' \in [XrayId -> {"none", "running", "ending"}]
        /\ \A y \in XrayId : IF y = proc[o].pid THEN xray'[y] = "none" ELSE xray'[y] = xray[y]
        /\ ~IsRunning'
    BY <1>0, <1>b, <2>1 DEF DaemonTypes, IsRunning, XrayAlive
  <2>3. calm => /\ \A q \in Owner : proc[q].at # "free" => q = o
                /\ \A p \in Alive : p = o
    BY <2>1, OnlyHolder
  <2>4. DaemonTypes'
    BY <1>0, <1>b, <2>1, <2>2 DEF DaemonTypes, agents
  <2>5. HoldersInv'
    BY <1>0, <1>a, <1>b, <2>1, <2>2 DEF HoldersInv, agents
  <2>6. calm' => OneAtATime'
    BY <1>0, <2>1 DEF OneAtATime, Alive, agents
  <2>7. calm' => KnownXray'
    <3> SUFFICES ASSUME calm PROVE KnownXray'
      BY <2>1
    <3>1. \A q \in Owner : proc'[q].at = "free"
      BY <1>b, <2>2, <2>3
    <3>2. xrayPid = proc[o].pid
      BY <1>0, <2>1 DEF KnownXray
    <3>3. ASSUME NEW y \in XrayId, xray'[y] # "none" PROVE y \in unrecorded'
      BY <1>0, <2>1, <2>2, <2>3, <3>2, <3>3 DEF KnownXray
    <3> QED BY <2>2, <3>1, <3>3 DEF KnownXray
  <2>8. calm' => OwnXray'
    <3> SUFFICES ASSUME calm, NEW p \in AgentId
                 PROVE  /\ agent'[p] \in {"wait", "boot"} => \A x \in XrayId : xray'[x] # "running"
                        /\ agent'[p] \in {"begin", "up"} =>
                             \A x \in XrayId : xray'[x] = "running"
                                => x = IF proc'[p].at = "spawned" THEN proc'[p].pid ELSE xrayPid'
      BY <2>1 DEF OwnXray
    <3>1. p = o \/ p \notin Alive
      BY <2>3
    <3>2. agent[p] \notin {"wait", "boot", "begin", "up"}
      BY <1>0, <2>1, <3>1 DEF HoldersInv, Alive
    <3> QED BY <2>1, <3>2 DEF agents
  <2> QED BY <2>4, <2>5, <2>6, <2>7, <2>8 DEF DaemonInv
<1>3. ASSUME NEW x \in XrayId, XrayExits(x) \/ XrayDies(x)
      PROVE  DaemonInv'
  <2>1. /\ UNCHANGED <<agents, proc, xrayPid, agentPid, cmd, calm>>
        /\ xray' = [xray EXCEPT ![x] = "none"] /\ unrecorded' = unrecorded \ {x}
    BY <1>3 DEF XrayExits, XrayDies
  <2>2. /\ xray' \in [XrayId -> {"none", "running", "ending"}]
        /\ \A y \in XrayId : IF y = x THEN xray'[y] = "none" ELSE xray'[y] = xray[y]
    BY <1>b, <2>1
  <2>3. DaemonTypes'
    BY <1>0, <2>1, <2>2 DEF DaemonTypes, agents
  <2>4. HoldersInv'
    BY <1>0, <2>1 DEF HoldersInv, agents
  <2>5. calm' => OneAtATime'
    BY <1>0, <2>1 DEF OneAtATime, Alive, agents
  <2>6. IsRunning' => IsRunning
    BY <1>0, <2>1, <2>2 DEF IsRunning, XrayAlive, DaemonTypes
  <2>7. calm' => KnownXray'
    BY <1>0, <2>1, <2>2, <2>6 DEF KnownXray
  <2>8. calm' => OwnXray'
    BY <1>0, <2>1, <2>2 DEF OwnXray, agents
  <2> QED BY <2>3, <2>4, <2>5, <2>7, <2>8 DEF DaemonInv
<1> QED BY <1>1, <1>2, <1>3 DEF ProcStep

LEMMA DaemonInitInv == DaemonInit => DaemonInv
<1> SUFFICES ASSUME DaemonInit PROVE DaemonInv
  OBVIOUS
<1>1. NoCommand \in CmdType /\ NoCommand.op = "none" /\ NoCommand.at = "idle"
      /\ FreeProc \in ProcType /\ FreeProc.at = "free"
  BY DEF NoCommand, CmdType, FreeProc, ProcType
<1>2. /\ \A p \in AgentId : agent[p] = "none" /\ reviving[p] = FALSE
      /\ \A o \in Owner : proc[o] = FreeProc
      /\ \A x \in XrayId : xray[x] = "none"
      /\ \A t \in Terminal : cmd[t] = NoCommand
      /\ AgentId \subseteq Owner /\ Terminal \subseteq Owner
  BY DEF DaemonInit, Owner
<1>3. DaemonTypes
  BY <1>1 DEF DaemonInit, DaemonTypes
<1>4. HoldersInv
  BY <1>1, <1>2 DEF HoldersInv
<1>5. Alive = {}
  BY <1>2 DEF Alive
<1>6. OneAtATime /\ KnownXray /\ OwnXray
  <2>1. OneAtATime
    BY <1>1, <1>2, <1>5 DEF OneAtATime
  <2>2. KnownXray
    BY <1>1, <1>2 DEF KnownXray
  <2>3. OwnXray
    BY <1>2 DEF OwnXray
  <2> QED BY <2>1, <2>2, <2>3
<1> QED BY <1>3, <1>4, <1>6 DEF DaemonInv

LEMMA DaemonInvStep == DaemonInv /\ [DaemonNext]_daemonVars => DaemonInv'
<1> SUFFICES ASSUME DaemonInv, [DaemonNext]_daemonVars PROVE DaemonInv'
  OBVIOUS
<1>1. ASSUME NEW p \in AgentId, AgentStep(p) \/ Foreground(p) \/ AgentDies(p)
      PROVE  DaemonInv'
  <2>1. CASE LoadConfig(p) \/ CleanupStale(p) \/ CleanupEnds(p) \/ Run(p) \/ Check(p)
    BY <2>1, AgentGoesOn
  <2>2. CASE StartAtBoot(p) \/ CheckStarts(p)
    BY <2>2, Starts
  <2>3. CASE StopAtExit(p)
    BY <2>3, Stops
  <2>4. CASE Exit(p) \/ AgentDies(p)
    BY <2>4, ProcessesEndSteps
  <2>5. CASE Foreground(p)
    BY <2>5, AgentAppears
  <2> QED BY <1>1, <2>1, <2>2, <2>3, <2>4, <2>5 DEF AgentStep
<1>2. ASSUME NEW t \in Terminal, CommandStep(t)
      PROVE  DaemonInv'
  <2>1. CASE LookFindsNone(t) \/ StartFindsOne(t) \/ AllGone(t) \/ RemovePidFile(t)
               \/ WriteAgentPid(t) \/ WaitAlive(t) \/ CommandEnds(t)
    BY <2>1, CommandOnly
  <2>2. CASE LookAndTerm(t) \/ SIGKILL(t)
    BY <2>2, ProcessesEndSteps
  <2>3. CASE SpawnDetached(t)
    BY <2>3, AgentAppears
  <2>4. CASE ReportXrayStopped(t) \/ RestartStops(t)
    BY <2>4, Stops
  <2>5. CASE RestartStarts(t)
    BY <2>5, Starts
  <2> QED BY <1>2, <2>1, <2>2, <2>3, <2>4, <2>5 DEF CommandStep
<1>3. ASSUME NEW t \in Terminal, NEW op \in {"start", "stop", "restart"}, Begin(t, op)
      PROVE  DaemonInv'
  BY <1>3, CommandBegins
<1>4. CASE (\E o \in Owner : ProcStep(o)) \/ \E x \in XrayId : XrayExits(x) \/ XrayDies(x)
  BY <1>4, XrayMoves
<1>5. CASE UNCHANGED daemonVars
  BY <1>5 DEF daemonVars, DaemonInv, DaemonTypes, HoldersInv, OneAtATime, Alive, KnownXray, IsRunning,
              XrayAlive, OwnXray
<1> QED BY <1>1, <1>2, <1>3, <1>4, <1>5 DEF DaemonNext

\* Who may hold an xray, and while the control is calm the one command, the one agent and the
\* xray it knows, hold in every reachable state (cli.go, main.go).
THEOREM DaemonInvariant == DaemonSpec => []DaemonInv
<1> QED BY DaemonInitInv, DaemonInvStep, PTL DEF DaemonSpec

LEMMA DaemonTyped == DaemonInv => DaemonTypeOK
<1> SUFFICES ASSUME DaemonInv PROVE DaemonTypeOK
  OBVIOUS
<1>1. DaemonTypes /\ HoldersInv /\ Owner = AgentId \cup Terminal
  BY DEF DaemonInv, Owner
<1>2. \A o \in Owner : \/ proc[o] = FreeProc
                       \/ proc[o].at \in {"spawned", "stopping"} /\ proc[o].pid \in XrayId
  BY <1>1 DEF DaemonTypes, ProcType
<1>3. \A p \in AgentId : (reviving[p] => p \in Booted) /\ (proc[p] # FreeProc => p \in Alive)
  BY <1>1 DEF DaemonTypes, HoldersInv, Booted, Alive
<1>4. \A t \in Terminal : proc[t] # FreeProc => t \in Busy
  BY <1>1 DEF DaemonTypes, HoldersInv, Busy
<1> QED BY <1>1, <1>2, <1>3, <1>4 DEF DaemonTypes, DaemonTypeOK

\* The processes, their files and their commands keep their types; only a live process
\* holds an xray.
THEOREM DaemonTyping == DaemonSpec => []DaemonTypeOK
<1> QED BY DaemonTyped, DaemonInvariant, PTL

\* One agent and one xray, after any number of commands that did not overlap, and any deaths.
THEOREM DaemonOneOfEach == DaemonSpec => []OneOfEach
<1>1. DaemonInv => OneOfEach
  <2> SUFFICES ASSUME DaemonInv, calm PROVE Cardinality(Alive) <= 1 /\ OneXray
    BY DEF OneOfEach, OneAgent, OneXray
  <2>1. OneAtATime /\ OwnXray
    BY DEF DaemonInv
  <2>2. Alive = {} \/ \E p \in Alive : Alive = {p}
    BY <2>1 DEF OneAtATime
  <2>3. Cardinality(Alive) <= 1
    <3>1. Cardinality({}) = 0 /\ \A p : Cardinality({p}) = 1
      BY FS_EmptySet, FS_Singleton
    <3>2. Cardinality(Alive) = 0 \/ Cardinality(Alive) = 1
      BY <2>2, <3>1, Zenon
    <3> QED BY <3>2
  <2>4. OneXray
    BY <2>1 DEF OneXray, OwnXray
  <2> QED BY <2>3, <2>4
<1> QED BY <1>1, DaemonInvariant, PTL

\* A stop that nothing ran beside has ended every agent, and every xray but one whose starter
\* died before it could write xray.pid.
THEOREM DaemonStopLeavesNothing == DaemonSpec => []StopLeavesNothing
<1>1. DaemonInv => StopLeavesNothing
  <2> SUFFICES ASSUME DaemonInv, calm, NEW t \in Terminal, cmd[t].op = "stop", cmd[t].at = "end",
                      proc[t].at = "free"
               PROVE  Alive = {} /\ \A x \in XrayId : xray[x] # "none" => x \in unrecorded
    BY DEF StopLeavesNothing
  <2>1. OneAtATime /\ KnownXray /\ t \in Owner
    BY DEF DaemonInv, Owner
  <2>2. Alive = {} /\ ~IsRunning
    BY <2>1 DEF OneAtATime, KnownXray
  <2>3. \A q \in Owner : proc[q].at = "free"
    BY <2>1, AllFree
  <2>4. \A x \in XrayId : x = xrayPid => xray[x] = "none"
    BY <2>2, DaemonAssumption DEF IsRunning, XrayAlive
  <2> QED BY <2>1, <2>2, <2>3, <2>4 DEF KnownXray
<1> QED BY <1>1, DaemonInvariant, PTL

-----------------------------------------------------------------------------
(* The three parts together (MCNode) *)

NodeInv == LoopsTypeOK /\ GeoInv /\ DaemonInv

LEMMA LoopsStill ==
    ASSUME LoopsStandStill
    PROVE  LoopsTypeOK
<1>1. /\ rt \in [Field -> Nat] /\ queue \in [Loop -> Nat] /\ period \in [Loop -> Nat]
      /\ loop \in [Loop -> {"new", "ended"} \cup Waiting]
      /\ late \in [Loop -> {"none"} \cup Waiting]
  BY DEF LoopsStandStill
<1>2. \A l \in Loop : loop[l] \notin Waiting
  BY DEF LoopsStandStill, Waiting
<1>3. /\ health \in 0..MaxAlerts /\ told \in 0..MaxAlerts
      /\ frame \in [now : 0..MaxAlerts, late : 0..MaxAlerts]
      /\ pushes \in 0..MaxPushes /\ breaks \in 0..MaxBreaks
  BY BoundAssumption DEF LoopsStandStill
<1> QED BY <1>1, <1>2, <1>3 DEF LoopsStandStill, LoopsTypeOK

LEMMA GeoStill ==
    ASSUME GeoStandsStill
    PROVE  GeoInv
<1>1. installed \in Works
  BY NodeAssumption DEF GeoStandsStill
<1>2. NoFile \in [GeoFile -> Content \cup {Missing}] /\ NoFile \in [GeoFile -> Known]
      /\ \A f \in GeoFile : NoFile[f] = Missing
  BY DEF NoFile, Known
<1>3. installed \in [GeoFile -> Content \cup {Missing}]
  BY <1>1, GeoAssumption
<1>4. installed \in [GeoFile -> Known] /\ \A f \in GeoFile : installed[f] # Torn
  <2>1. Content \cup {Missing} \subseteq Known /\ Torn \notin Content \cup {Missing}
    BY GeoAssumption DEF Known
  <2> QED BY <1>3, <2>1
<1>5. /\ prev = NoFile /\ before = NoFile /\ rep = [w \in Writer |-> None] /\ sync = {}
      /\ upd = "off" /\ data = NoFile /\ done = <<>>
      /\ clean = TRUE /\ spoilt = FALSE /\ overlapped = {} /\ geoFaults = 0 /\ syncs = 0
  BY DEF GeoStandsStill
<1>6. rep \in RepType /\ \A w \in Writer : rep[w] = None
  BY <1>5 DEF RepType
<1>7. Len(<<>>) = 0 /\ <<>> \in Seq(DoneEntry) /\ Writer = {"geo", "kernel"}
  BY DEF Writer
<1>8. GeoTypes
  <2>1. spoilt \in BOOLEAN /\ clean \in BOOLEAN
    BY <1>5, Zenon
  <2>2. geoFaults \in 0..MaxGeoFaults /\ syncs \in 0..MaxSyncs
    BY <1>5, GeoAssumption
  <2> QED BY <1>2, <1>4, <1>5, <1>6, <1>7, <2>1, <2>2 DEF GeoTypes, RepType
<1>9. StagesInv
  BY <1>2, <1>5, <1>6, <1>7 DEF StagesInv
<1>10. TornInv
  BY <1>2, <1>4, <1>5, <1>6, <1>7, GeoAssumption DEF TornInv, NeverTorn
<1>11. CleanInv
  BY <1>5 DEF CleanInv
<1>12. WorksInv
  BY <1>1, <1>5, <1>6, <1>7 DEF WorksInv
<1> QED BY <1>8, <1>9, <1>10, <1>11, <1>12 DEF GeoInv

LEMMA NodeInitInv == NodeInit => NodeInv
<1> SUFFICES ASSUME NodeInit PROVE NodeInv
  OBVIOUS
<1>1. LoopsTypeOK
  BY LoopsTypeInit, LoopsStill DEF NodeInit
<1>2. GeoInv
  BY GeoInitInv, GeoStill DEF NodeInit
<1>3. DaemonInv
  BY DaemonInitInv DEF NodeInit
<1> QED BY <1>1, <1>2, <1>3 DEF NodeInv

LEMMA NodeMoves == NodeInv /\ [NodeNext]_allVars => NodeInv'
<1> SUFFICES ASSUME NodeInv, [NodeNext]_allVars PROVE NodeInv'
  OBVIOUS
<1>1. [LoopsNext]_loopVars /\ [GeoNext]_geoVars /\ [DaemonNext]_daemonVars
  BY DEF NodeNext, allVars
<1>2. LoopsTypeOK'
  BY <1>1, LoopsTypeStep DEF NodeInv
<1>3. GeoInv'
  BY <1>1, GeoInvStep DEF NodeInv
<1>4. DaemonInv'
  BY <1>1, DaemonInvStep DEF NodeInv
<1> QED BY <1>2, <1>3, <1>4 DEF NodeInv

\* Each part keeps its types when the parts run side by side, for any loops, files and
\* terminals: no loop has a ticker of period zero (client.go:856-890), the geo files are
\* never unknown, and no process but the ones that were started holds anything.
THEOREM NodeTyping == NodeSpec => []NodeTypeOK
<1>1. NodeInv => NodeTypeOK
  BY GeoTyped, DaemonTyped DEF NodeInv, NodeTypeOK
<1> QED BY NodeInitInv, NodeMoves, <1>1, PTL DEF NodeSpec

=============================================================================
