---------------------------- MODULE TrafficCounting ----------------------------
(***************************************************************************)
(* From xray's counters to the billing cycle of a byte: Collect in         *)
(* internal/agent/stats/stats.go; collectLoop, accumulate, cycleChanges,   *)
(* sealCycle and applyCycles in internal/agent/client/client.go.           *)
(*                                                                         *)
(* Two goroutines collect: the collect loop, and the message loop when a   *)
(* list of users names a new cycle.  Collect holds the collector's lock,   *)
(* and what it returned belongs to no lock until accumulate adds it to     *)
(* pending, under the cycles of that moment.  What becomes of pending is   *)
(* in module TrafficDelivery.                                              *)
(***************************************************************************)
EXTENDS Integers, FiniteSets

CONSTANTS
    Name,       \* counters: a user, or an inbound, which no list gives a cycle
    None,       \* no counter of that name
    MaxCycle,   \* bound: cycles are numbered as the master starts them, 0 is none
    MaxBytes,   \* bound on the bytes a name transfers
    MaxEvents,  \* bound on lists and faults
    Faults      \* subset of {"query", "restart", "remove", "crash"}

ASSUME CountingAssumption ==
    /\ None \notin Nat
    /\ MaxCycle \in Nat
    /\ MaxBytes \in Nat
    /\ MaxEvents \in Nat

Cycle == 0..MaxCycle
Bytes == [Name -> Nat]
Counters == [Name -> Nat \cup {None}]
Zero == [n \in Name |-> 0]
NoCounters == [n \in Name |-> None]

VARIABLES
    counter,     \* external: the counters of the running xray
    last,        \* c.last
    baseline,    \* c.baseline
    cycles,      \* c.cycles
    loop, held,  \* the collect loop, and the entries it has collected
    msg, put,    \* the message loop, and the entries it has collected to seal
    list,        \* the cycles of the list it executes
    pending,     \* what accumulate has added, all cycles of a name together
    events,      \* events so far
    (* history *)
    served,      \* bytes a name has transferred
    before,      \* bytes it had transferred at the baseline
    period,      \* the cycle of each name in the last list
    oldest,      \* the period of the oldest byte that is not collected
    heldOldest,  \* the same of the entries in held
    putOldest,   \* and of those in put
    misplaced,   \* names that had a byte added under a later cycle than its period
    unsealed,    \* names whose cycle changed when the query to seal it failed
    unseen,      \* names whose cycle changed while the collect loop held entries, or
                 \* unknown to an agent that was started again
    restarted    \* xray or the agent has stopped, or a counter was removed

xrayVars == <<counter, served>>
statVars == <<last, baseline, before>>
loopVars == <<loop, held, heldOldest>>
msgVars == <<msg, put, list, period, putOldest>>
histVars == <<unsealed, unseen, restarted>>
vars == <<xrayVars, statVars, cycles, loopVars, msgVars, pending, events, oldest,
          misplaced, histVars>>

Event == events < MaxEvents /\ events' = events + 1

-------------------------------------------------------------------------------
Init ==
    /\ counter = NoCounters /\ served = Zero
    /\ last = NoCounters /\ baseline = FALSE /\ before = Zero
    /\ cycles = Zero
    /\ loop = "idle" /\ held = Zero /\ heldOldest = Zero
    /\ msg = "idle" /\ put = Zero /\ putOldest = Zero /\ list = Zero /\ period = Zero
    /\ pending = Zero
    /\ events = 0
    /\ oldest = Zero /\ misplaced = {}
    /\ unsealed = {} /\ unseen = {} /\ restarted = FALSE

-------------------------------------------------------------------------------
(* Collect.                                                                *)

\* Mutant of Delta: a counter is taken as it is.
DeltaIsCounter(n) == IF counter[n] = None THEN 0 ELSE counter[n]

\* A counter that is smaller than it was started again from zero.
Delta(n) ==
    IF counter[n] = None THEN 0
    ELSE counter[n] - (IF last[n] # None /\ counter[n] >= last[n] THEN last[n] ELSE 0)

\* Mutant of Collect: the first call reports what it finds.
CollectAll(entries) ==
    /\ last' = counter
    /\ baseline' = TRUE
    /\ entries = [n \in Name |-> Delta(n)]
    /\ before' = IF baseline THEN before ELSE [n \in Name |-> served[n]]

\* The first call takes the baseline and returns nothing.  A counter that is gone is
\* dropped from last.
Collect(entries) ==
    /\ last' = counter
    /\ baseline' = TRUE
    /\ entries = IF baseline THEN [n \in Name |-> Delta(n)] ELSE Zero
    /\ before' = IF baseline THEN before ELSE [n \in Name |-> served[n]]

\* accumulate; cycleFor is asked for every entry.
Accumulate(entries, since) ==
    /\ pending' = [n \in Name |-> pending[n] + entries[n]]
    /\ misplaced' = misplaced \cup {n \in Name : entries[n] > 0 /\ cycles[n] > since[n]}

-------------------------------------------------------------------------------
(* The collect loop.  A query that fails changes nothing.                  *)

LoopCollects ==
    /\ loop = "idle"
    /\ Collect(held')
    /\ heldOldest' = oldest
    /\ loop' = "hold"
    /\ UNCHANGED <<xrayVars, cycles, msgVars, pending, events, oldest, misplaced, histVars>>

LoopAccumulates ==
    /\ loop = "hold"
    /\ Accumulate(held, heldOldest)
    /\ held' = Zero
    /\ loop' = "idle"
    /\ UNCHANGED <<xrayVars, statVars, cycles, heldOldest, msgVars, events, oldest, histVars>>

-------------------------------------------------------------------------------
(* sync_users in the message loop: seal, then apply.                       *)

\* Mutant of CycleChanges: no user is found to have changed.
NoChanges(l) == {n \in Name : l[n] # 0 /\ cycles[n] # 0 /\ l[n] < cycles[n]}

\* Users without a record are new: there is nothing to seal.
CycleChanges(l) == {n \in Name : l[n] # 0 /\ cycles[n] # 0 /\ l[n] # cycles[n]}

\* A list; the master's cycles only increase.  A user it does not name has 0.
Receive(l) ==
    /\ msg = "idle"
    /\ Event
    /\ \A n \in Name : l[n] = 0 \/ l[n] >= period[n]
    /\ list' = l
    /\ period' = [n \in Name |-> IF l[n] = 0 THEN period[n] ELSE l[n]]
    /\ msg' = IF CycleChanges(l) # {} THEN "seal" ELSE "apply"
    /\ oldest' = [n \in Name |-> IF period[n] = 0 THEN l[n] ELSE oldest[n]]
    /\ heldOldest' = [n \in Name |-> IF period[n] = 0 THEN l[n] ELSE heldOldest[n]]
    /\ unseen' = unseen \cup {n \in Name : cycles[n] = 0 /\ l[n] > period[n] /\ period[n] # 0}
    /\ UNCHANGED <<xrayVars, statVars, cycles, loop, held, put, putOldest, pending,
                   misplaced, unsealed, restarted>>

SealCollects ==
    /\ msg = "seal"
    /\ Collect(put')
    /\ putOldest' = oldest
    /\ msg' = "put"
    /\ UNCHANGED <<xrayVars, cycles, loopVars, list, period, pending, events, oldest,
                   misplaced, histVars>>

\* The cycles are applied all the same.
SealFails ==
    /\ msg = "seal"
    /\ "query" \in Faults /\ Event
    /\ msg' = "apply"
    /\ unsealed' = unsealed \cup CycleChanges(list)
    /\ UNCHANGED <<xrayVars, statVars, cycles, loopVars, put, putOldest, list, period,
                   pending, oldest, misplaced, unseen, restarted>>

\* Mutant of SealAccumulates: the entries are dropped.
SealDrops ==
    /\ msg = "put"
    /\ put' = Zero
    /\ msg' = "apply"
    /\ UNCHANGED <<xrayVars, statVars, cycles, loopVars, putOldest, list, period, pending,
                   events, oldest, misplaced, histVars>>

\* The cycles are still the old ones.
SealAccumulates ==
    /\ msg = "put"
    /\ Accumulate(put, putOldest)
    /\ put' = Zero
    /\ msg' = "apply"
    /\ UNCHANGED <<xrayVars, statVars, cycles, loopVars, putOldest, list, period, events,
                   oldest, histVars>>

\* applyCycles.
ApplyCycles ==
    /\ msg = "apply"
    /\ cycles' = [n \in Name |-> IF list[n] = 0 THEN cycles[n] ELSE list[n]]
    /\ unseen' = unseen \cup {n \in CycleChanges(list) : held[n] > 0}
    /\ msg' = "idle"
    /\ UNCHANGED <<xrayVars, statVars, loopVars, put, putOldest, list, period, pending,
                   events, oldest, misplaced, unsealed, restarted>>

-------------------------------------------------------------------------------
(* xray and the environment.                                               *)

Traffic(n) ==
    /\ served[n] < MaxBytes
    /\ served' = [served EXCEPT ![n] = @ + 1]
    /\ counter' = [counter EXCEPT ![n] = IF @ = None THEN 1 ELSE @ + 1]
    /\ oldest' = IF Delta(n) = 0 THEN [oldest EXCEPT ![n] = period[n]] ELSE oldest
    /\ UNCHANGED <<statVars, cycles, loopVars, msgVars, pending, events, misplaced, histVars>>

\* The counters of a process end with it; the collector keeps its baseline.
XrayRestarts ==
    /\ "restart" \in Faults /\ Event
    /\ counter' = NoCounters
    /\ restarted' = TRUE
    /\ UNCHANGED <<served, statVars, cycles, loopVars, msgVars, pending, oldest,
                   misplaced, unsealed, unseen>>

RemoveCounter(n) ==
    /\ counter[n] # None
    /\ "remove" \in Faults /\ Event
    /\ counter' = [counter EXCEPT ![n] = None]
    /\ restarted' = TRUE
    /\ UNCHANGED <<served, statVars, cycles, loopVars, msgVars, pending, oldest,
                   misplaced, unsealed, unseen>>

\* The agent stops and a new one starts; xray may go on.
Crash ==
    /\ "crash" \in Faults /\ Event
    /\ last' = NoCounters /\ baseline' = FALSE /\ UNCHANGED before
    /\ cycles' = Zero
    /\ loop' = "idle" /\ held' = Zero /\ heldOldest' = Zero
    /\ msg' = "idle" /\ put' = Zero /\ putOldest' = Zero /\ list' = Zero
    /\ restarted' = TRUE
    /\ UNCHANGED <<xrayVars, period, pending, oldest, misplaced, unsealed, unseen>>

-------------------------------------------------------------------------------
SyncUsers ==
    \/ \E l \in [Name -> Cycle] : Receive(l)
    \/ SealCollects \/ SealFails \/ SealAccumulates \/ ApplyCycles

Next ==
    \/ LoopCollects \/ LoopAccumulates
    \/ SyncUsers
    \/ \E n \in Name : Traffic(n) \/ RemoveCounter(n)
    \/ XrayRestarts
    \/ Crash

Spec == Init /\ [][Next]_vars

-------------------------------------------------------------------------------
(* Every variable has its type.                                            *)
TypeOK ==
    /\ counter \in Counters /\ served \in Bytes
    /\ last \in Counters /\ baseline \in BOOLEAN /\ before \in Bytes
    /\ cycles \in [Name -> Cycle]
    /\ loop \in {"idle", "hold"} /\ held \in Bytes /\ heldOldest \in [Name -> Cycle]
    /\ msg \in {"idle", "seal", "put", "apply"} /\ put \in Bytes /\ putOldest \in [Name -> Cycle]
    /\ list \in [Name -> Cycle] /\ period \in [Name -> Cycle]
    /\ pending \in Bytes /\ events \in 0..MaxEvents
    /\ oldest \in [Name -> Cycle]
    /\ misplaced \subseteq Name /\ unsealed \subseteq Name /\ unseen \subseteq Name
    /\ restarted \in BOOLEAN

\* No byte is counted twice, by whichever goroutine collects it, through restarts of
\* xray and of the agent, counters that start again, disappear or are new.
CountedOnce == \A n \in Name : pending[n] + held[n] + put[n] <= served[n]

\* As long as xray, its counters and the agent stay, no byte is lost either: failed
\* queries, and the two goroutines collecting in turn, leave it to a later call.
NothingMissed ==
    baseline /\ ~restarted =>
        \A n \in Name : pending[n] + held[n] + put[n] + Delta(n) + before[n] = served[n]

\* A byte is not billed to a later cycle than the one it was transferred in (the
\* comment at client.go:36), unless the change of the cycle could not be sealed, found
\* entries in the hands of the collect loop, or was unknown to a new process.
RightCycle == misplaced \subseteq unsealed \cup unseen

\* client.go:288: when the query to seal fails, what was transferred before the change
\* falls to the old cycle; the new one is not overcharged.  Names whose change met
\* another trouble as well are left out.
UnsealedIsSafe == (unsealed \ unseen) \cap misplaced = {}
===============================================================================
