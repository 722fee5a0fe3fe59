------------------------- MODULE TrafficCountingProofs -------------------------
(* Proofs about TrafficCounting, for any names, cycles, bounds and faults.      *)
EXTENDS TrafficCounting, TLAPS

-------------------------------------------------------------------------------
(* What a counter adds to its name.                                        *)

LEMMA DeltaIsNat ==
    ASSUME TypeOK, NEW n \in Name
    PROVE  Delta(n) \in Nat
  BY CountingAssumption, SMT DEF TypeOK, Delta, Counters

LEMMA NextDeltaIsNat ==
    ASSUME TypeOK', NEW n \in Name
    PROVE  Delta(n)' \in Nat
  BY CountingAssumption, SMT DEF TypeOK, Delta, Counters

\* After a call of Collect there is nothing left to collect.
LEMMA NothingLeft ==
    ASSUME TypeOK, counter' = counter, last' = counter, NEW n \in Name
    PROVE  Delta(n)' = 0
  BY CountingAssumption, SMT DEF TypeOK, Delta, Counters

\* One byte adds at most one.
LEMMA DeltaGrows ==
    ASSUME TypeOK, NEW n \in Name, Traffic(n), NEW k \in Name
    PROVE  /\ Delta(k)' <= Delta(k) + (IF k = n THEN 1 ELSE 0)
           /\ (last[k] # None => counter[k] # None /\ counter[k] >= last[k])
                => Delta(k)' = Delta(k) + (IF k = n THEN 1 ELSE 0)
  BY CountingAssumption, SMT DEF TypeOK, Delta, Counters, Traffic, statVars

\* A counter that goes takes its delta with it.
LEMMA RestartDelta ==
    ASSUME TypeOK, XrayRestarts \/ \E k \in Name : RemoveCounter(k), NEW n \in Name
    PROVE  Delta(n)' \in {0, Delta(n)}
<1>1. CASE XrayRestarts
  BY <1>1, SMT DEF XrayRestarts, NoCounters, Delta
<1>2. ASSUME NEW k \in Name, RemoveCounter(k)  PROVE Delta(n)' \in {0, Delta(n)}
  BY <1>2, SMT DEF RemoveCounter, TypeOK, Counters, Delta, statVars
<1> QED  BY <1>1, <1>2

-------------------------------------------------------------------------------
(* Types.                                                                  *)

LEMMA Zeros ==
    Zero \in Bytes /\ Zero \in [Name -> Cycle] /\ NoCounters \in Counters
  BY CountingAssumption, SMT DEF Zero, NoCounters, Bytes, Counters, Cycle

LEMMA InitTyping == Init => TypeOK
<1> SUFFICES ASSUME Init  PROVE TypeOK
  OBVIOUS
<1>1. events \in 0..MaxEvents  BY CountingAssumption, SMT DEF Init
<1> QED  BY <1>1, Zeros, Zenon DEF Init, TypeOK

LEMMA CollectTyping ==
    ASSUME TypeOK, NEW e, Collect(e)
    PROVE  /\ last' \in Counters /\ baseline' \in BOOLEAN /\ before' \in Bytes
           /\ e \in Bytes
<1>1. [n \in Name |-> Delta(n)] \in Bytes  BY DeltaIsNat, SMT DEF Bytes
<1>2. Zero \in Bytes  BY SMT DEF Zero, Bytes
<1>3. last' \in Counters /\ baseline' \in BOOLEAN  BY Zenon DEF TypeOK, Collect
<1>4. e \in Bytes  BY <1>1, <1>2, Zenon DEF Collect
<1>5. before' \in Bytes  BY SMT DEF TypeOK, Collect, Bytes
<1> QED  BY <1>3, <1>4, <1>5

LEMMA NextTyping == TypeOK /\ [Next]_vars => TypeOK'
<1> SUFFICES ASSUME TypeOK, [Next]_vars  PROVE TypeOK'
  OBVIOUS
<1> USE CountingAssumption
<1>1. CASE LoopCollects
  <2>1. Collect(held')  BY <1>1 DEF LoopCollects
  <2> QED  BY <1>1, <2>1, CollectTyping, SMT
           DEF LoopCollects, TypeOK, xrayVars, msgVars, histVars
<1>2. CASE LoopAccumulates
  BY <1>2, SMT DEF LoopAccumulates, Accumulate, TypeOK, Bytes, Zero, xrayVars, statVars,
                   msgVars, histVars
<1>3. ASSUME NEW l \in [Name -> Cycle], Receive(l)  PROVE TypeOK'
  BY <1>3, SMT DEF Receive, Event, TypeOK, Cycle, xrayVars, statVars
<1>4. CASE SealCollects
  <2>1. Collect(put')  BY <1>4 DEF SealCollects
  <2> QED  BY <1>4, <2>1, CollectTyping, SMT
           DEF SealCollects, TypeOK, xrayVars, loopVars, histVars
<1>5. CASE SealFails
  BY <1>5, SMT DEF SealFails, Event, CycleChanges, TypeOK, xrayVars, statVars, loopVars
<1>6. CASE SealAccumulates
  BY <1>6, SMT DEF SealAccumulates, Accumulate, TypeOK, Bytes, Zero, xrayVars, statVars,
                   loopVars, histVars
<1>7. CASE ApplyCycles
  BY <1>7, SMT DEF ApplyCycles, CycleChanges, TypeOK, xrayVars, statVars, loopVars
<1>8. ASSUME NEW n \in Name, Traffic(n)  PROVE TypeOK'
  <2>1. served' \in Bytes /\ counter' \in Counters
    BY <1>8, SMT DEF Traffic, TypeOK, Bytes, Counters
  <2>2. oldest' \in [Name -> Cycle]  BY <1>8, SMT DEF Traffic, TypeOK
  <2> QED  BY <1>8, <2>1, <2>2, SMT
           DEF Traffic, TypeOK, statVars, loopVars, msgVars, histVars
<1>9. ASSUME NEW n \in Name, RemoveCounter(n)  PROVE TypeOK'
  BY <1>9, SMT DEF RemoveCounter, Event, TypeOK, Counters, statVars, loopVars, msgVars
<1>10. CASE XrayRestarts
  BY <1>10, SMT DEF XrayRestarts, Event, TypeOK, Counters, NoCounters, statVars, loopVars,
                    msgVars
<1>11. CASE Crash
  <2>1. events' \in 0..MaxEvents  BY <1>11, SMT DEF Crash, Event, TypeOK
  <2> QED  BY <1>11, <2>1, Zeros, Zenon DEF Crash, TypeOK, xrayVars
<1>12. CASE UNCHANGED vars
  BY <1>12, Zenon DEF vars, xrayVars, statVars, loopVars, msgVars, histVars, TypeOK
<1> QED
  BY <1>1, <1>2, <1>3, <1>4, <1>5, <1>6, <1>7, <1>8, <1>9, <1>10, <1>11, <1>12
  DEF Next, SyncUsers

\* Every variable has its type: the counters of xray, the collector's baseline, the
\* agent's cycles, and the bytes on their way to pending.
THEOREM CountingTyping == Spec => []TypeOK
<1>1. Init => TypeOK  BY InitTyping
<1>2. TypeOK /\ [Next]_vars => TypeOK'  BY NextTyping
<1> QED  BY <1>1, <1>2, PTL DEF Spec

-------------------------------------------------------------------------------
(* No byte is counted twice.                                               *)

\* What is known of a name: before the baseline nothing is on its way.
Accounted ==
    \A n \in Name :
        IF baseline THEN pending[n] + held[n] + put[n] + Delta(n) <= served[n]
                    ELSE held[n] = 0 /\ put[n] = 0 /\ pending[n] <= served[n]

\* Nobody collects while he holds entries.
HandsFree == (loop = "idle" => held = Zero) /\ (msg # "put" => put = Zero)

AccountInv == TypeOK /\ HandsFree /\ Accounted

LEMMA InitAccounted == Init => AccountInv
<1> SUFFICES ASSUME Init  PROVE AccountInv
  OBVIOUS
<1>1. TypeOK  BY InitTyping
<1>2. HandsFree  BY SMT DEF Init, HandsFree
<1>3. Accounted  BY SMT DEF Init, Accounted, Zero
<1> QED  BY <1>1, <1>2, <1>3 DEF AccountInv

\* A call of Collect moves the delta of a name to the entries.
LEMMA CollectAccounted ==
    ASSUME TypeOK, TypeOK', NEW e, Collect(e), counter' = counter, NEW n \in Name
    PROVE  /\ baseline' = TRUE
           /\ Delta(n)' = 0
           /\ e[n] = IF baseline THEN Delta(n) ELSE 0
           /\ before'[n] = IF baseline THEN before[n] ELSE served[n]
<1>1. Delta(n)' = 0  BY NothingLeft, Zenon DEF Collect
<1>2. baseline' = TRUE  BY Zenon DEF Collect
<1>3. CASE baseline
  BY <1>1, <1>2, <1>3, SMT DEF Collect
<1>4. CASE ~baseline
  BY <1>1, <1>2, <1>4, SMT DEF Collect, Zero
<1> QED  BY <1>3, <1>4

LEMMA NextHandsFree == HandsFree /\ [Next]_vars => HandsFree'
<1> SUFFICES ASSUME HandsFree, [Next]_vars  PROVE HandsFree'
  OBVIOUS
<1> USE DEF HandsFree
<1>1. CASE LoopCollects \/ LoopAccumulates
  BY <1>1, SMT DEF LoopCollects, LoopAccumulates, msgVars
<1>2. CASE SyncUsers
  BY <1>2, SMT DEF SyncUsers, Receive, SealCollects, SealFails, SealAccumulates,
                   ApplyCycles, loopVars
<1>3. CASE XrayRestarts \/ \E n \in Name : Traffic(n) \/ RemoveCounter(n)
  BY <1>3, SMT DEF XrayRestarts, Traffic, RemoveCounter, loopVars, msgVars
<1>4. CASE Crash
  BY <1>4, SMT DEF Crash
<1>5. CASE UNCHANGED vars
  BY <1>5, SMT DEF vars, loopVars, msgVars
<1> QED  BY <1>1, <1>2, <1>3, <1>4, <1>5 DEF Next

LEMMA NextAccounted == AccountInv /\ [Next]_vars => AccountInv'
<1> SUFFICES ASSUME AccountInv, [Next]_vars  PROVE AccountInv'
  OBVIOUS
<1>a. TypeOK /\ TypeOK'  BY NextTyping DEF AccountInv
<1>b. HandsFree /\ Accounted  BY DEF AccountInv
<1>c. SUFFICES ASSUME NEW n \in Name
      PROVE  IF baseline' THEN pending'[n] + held'[n] + put'[n] + Delta(n)' <= served'[n]
                          ELSE held'[n] = 0 /\ put'[n] = 0 /\ pending'[n] <= served'[n]
  BY <1>a, NextHandsFree, Zenon DEF AccountInv, Accounted
<1>d. /\ pending[n] \in Nat /\ held[n] \in Nat /\ put[n] \in Nat /\ served[n] \in Nat
      /\ Delta(n) \in Nat /\ baseline \in BOOLEAN
  BY <1>a, DeltaIsNat, SMT DEF TypeOK, Bytes
<1>e. IF baseline THEN pending[n] + held[n] + put[n] + Delta(n) <= served[n]
                  ELSE held[n] = 0 /\ put[n] = 0 /\ pending[n] <= served[n]
  BY <1>b DEF Accounted
<1>1. CASE LoopCollects
  <2>1. Collect(held') /\ counter' = counter  BY <1>1 DEF LoopCollects, xrayVars
  <2>2. /\ Delta(n)' = 0 /\ baseline'
        /\ held'[n] = IF baseline THEN Delta(n) ELSE 0
    BY <1>a, <2>1, CollectAccounted, Zenon
  <2>3. held[n] = 0  BY <1>1, <1>b, SMT DEF LoopCollects, HandsFree, Zero
  <2>4. pending' = pending /\ put' = put /\ served' = served
    BY <1>1 DEF LoopCollects, xrayVars, msgVars
  <2> QED  BY <1>d, <1>e, <2>2, <2>3, <2>4, SMT
<1>2. CASE LoopAccumulates
  <2>1. UNCHANGED <<xrayVars, statVars, msgVars>>  BY <1>2 DEF LoopAccumulates
  <2>2. pending'[n] = pending[n] + held[n] /\ held'[n] = 0
    BY <1>2, SMT DEF LoopAccumulates, Accumulate, Zero
  <2>3. Delta(n)' = Delta(n)  BY <2>1 DEF Delta, xrayVars, statVars
  <2> QED  BY <1>d, <1>e, <2>1, <2>2, <2>3, SMT DEF xrayVars, statVars, msgVars
<1>3. ASSUME NEW l \in [Name -> Cycle], Receive(l)
      PROVE  IF baseline' THEN pending'[n] + held'[n] + put'[n] + Delta(n)' <= served'[n]
                          ELSE held'[n] = 0 /\ put'[n] = 0 /\ pending'[n] <= served'[n]
  <2>1. UNCHANGED <<xrayVars, statVars, pending, held, put, loop>>
    BY <1>3 DEF Receive
  <2> QED  BY <1>e, <2>1 DEF xrayVars, statVars, Delta
<1>4. CASE SealCollects
  <2>1. Collect(put') /\ counter' = counter  BY <1>4 DEF SealCollects, xrayVars
  <2>2. /\ Delta(n)' = 0 /\ baseline'
        /\ put'[n] = IF baseline THEN Delta(n) ELSE 0
    BY <1>a, <2>1, CollectAccounted, Zenon
  <2>3. put[n] = 0  BY <1>4, <1>b, SMT DEF SealCollects, HandsFree, Zero
  <2>4. pending' = pending /\ held' = held /\ served' = served
    BY <1>4 DEF SealCollects, xrayVars, loopVars
  <2> QED  BY <1>d, <1>e, <2>2, <2>3, <2>4, SMT
<1>5. CASE SealFails
  <2>1. UNCHANGED <<xrayVars, statVars, pending, loopVars, put>>
    BY <1>5 DEF SealFails
  <2> QED  BY <1>e, <2>1 DEF xrayVars, statVars, loopVars, Delta
<1>6. CASE SealAccumulates
  <2>1. UNCHANGED <<xrayVars, statVars, loopVars>>  BY <1>6 DEF SealAccumulates
  <2>2. pending'[n] = pending[n] + put[n] /\ put'[n] = 0
    BY <1>6, SMT DEF SealAccumulates, Accumulate, Zero
  <2>3. Delta(n)' = Delta(n)  BY <2>1 DEF Delta, xrayVars, statVars
  <2> QED  BY <1>d, <1>e, <2>1, <2>2, <2>3, SMT DEF xrayVars, statVars, loopVars
<1>7. CASE ApplyCycles
  <2>1. UNCHANGED <<xrayVars, statVars, pending, loopVars, put>>
    BY <1>7 DEF ApplyCycles
  <2> QED  BY <1>e, <2>1 DEF xrayVars, statVars, loopVars, Delta
<1>8. ASSUME NEW k \in Name, Traffic(k)
      PROVE  IF baseline' THEN pending'[n] + held'[n] + put'[n] + Delta(n)' <= served'[n]
                          ELSE held'[n] = 0 /\ put'[n] = 0 /\ pending'[n] <= served'[n]
  <2>1. UNCHANGED <<statVars, loopVars, msgVars, pending>>  BY <1>8 DEF Traffic
  <2>2. Delta(n)' <= Delta(n) + (IF n = k THEN 1 ELSE 0)
    BY <1>8, <1>a, DeltaGrows, Zenon
  <2>3. served'[n] = served[n] + (IF n = k THEN 1 ELSE 0)
    BY <1>8, <1>a, SMT DEF Traffic, TypeOK, Bytes
  <2>4. Delta(n)' \in Nat  BY <1>a, NextDeltaIsNat, Zenon
  <2>5. CASE n = k
    BY <1>d, <1>e, <2>1, <2>2, <2>3, <2>4, <2>5, SMT DEF statVars, loopVars, msgVars
  <2>6. CASE n # k
    BY <1>d, <1>e, <2>1, <2>2, <2>3, <2>4, <2>6, SMT DEF statVars, loopVars, msgVars
  <2> QED  BY <2>5, <2>6
<1>9. CASE XrayRestarts \/ \E k \in Name : RemoveCounter(k)
  <2>1. UNCHANGED <<served, statVars, loopVars, msgVars, pending>>
    BY <1>9 DEF XrayRestarts, RemoveCounter
  <2>2. Delta(n)' \in {0, Delta(n)}  BY <1>a, <1>9, RestartDelta
  <2> QED  BY <1>d, <1>e, <2>1, <2>2, SMT DEF statVars, loopVars, msgVars
<1>10. CASE Crash
  BY <1>10, <1>d, <1>e, SMT DEF Crash, Zero, xrayVars
<1>11. CASE UNCHANGED vars
  BY <1>11, <1>e DEF vars, xrayVars, statVars, loopVars, msgVars, Delta
<1> QED
  BY <1>1, <1>2, <1>3, <1>4, <1>5, <1>6, <1>7, <1>8, <1>9, <1>10, <1>11 DEF Next, SyncUsers

\* No byte is counted twice, by either goroutine, through any restarts, crashes,
\* counters that start again and queries that fail.
THEOREM CountingCountedOnce == Spec => []CountedOnce
<1>1. Init => AccountInv  BY InitAccounted
<1>2. AccountInv /\ [Next]_vars => AccountInv'  BY NextAccounted
<1>3. AccountInv => CountedOnce
  <2> SUFFICES ASSUME AccountInv, NEW n \in Name
               PROVE  pending[n] + held[n] + put[n] <= served[n]
    BY DEF CountedOnce
  <2>1. /\ pending[n] \in Nat /\ held[n] \in Nat /\ put[n] \in Nat /\ served[n] \in Nat
        /\ Delta(n) \in Nat
    BY DeltaIsNat, SMT DEF AccountInv, TypeOK, Bytes
  <2> QED  BY <2>1, SMT DEF AccountInv, Accounted
<1> QED  BY <1>1, <1>2, <1>3, PTL DEF Spec

-------------------------------------------------------------------------------
(* Every byte is billed to its cycle, or to an earlier one.                *)

\* The earliest cycle of a byte that may be collected now: a process that does not know
\* the cycle of a name yet must not have bytes of an earlier one than the list gave it.
Due(n) == IF cycles[n] = 0 THEN period[n] ELSE cycles[n]

\* Where the bytes of a name are, and since when.
InOrder(n) ==
    /\ cycles[n] <= period[n]
    /\ msg # "idle" /\ list[n] # 0 => list[n] = period[n]
    /\ n \notin unsealed \cup unseen =>
        /\ baseline /\ Delta(n) > 0 => oldest[n] >= Due(n)
        /\ held[n] > 0 => heldOldest[n] >= Due(n)
        /\ put[n] > 0 => putOldest[n] >= Due(n)
        /\ msg \in {"put", "apply"} /\ n \in CycleChanges(list) /\ Delta(n) > 0
             => oldest[n] >= list[n]
        /\ n \notin misplaced

OrderInv == TypeOK /\ HandsFree /\ \A n \in Name : InOrder(n)

LEMMA InitOrder == Init => OrderInv
<1> SUFFICES ASSUME Init  PROVE OrderInv
  OBVIOUS
<1>1. TypeOK  BY InitTyping
<1>2. HandsFree  BY SMT DEF Init, HandsFree
<1>3. ASSUME NEW n \in Name  PROVE InOrder(n)
  BY <1>3, SMT DEF Init, InOrder, Zero
<1> QED  BY <1>1, <1>2, <1>3 DEF OrderInv

LEMMA CyclesAreNat ==
    ASSUME TypeOK, NEW n \in Name
    PROVE  /\ cycles[n] \in Nat /\ period[n] \in Nat /\ list[n] \in Nat
           /\ oldest[n] \in Nat /\ heldOldest[n] \in Nat /\ putOldest[n] \in Nat
           /\ held[n] \in Nat /\ put[n] \in Nat
  BY CountingAssumption, SMT DEF TypeOK, Cycle, Bytes

LEMMA NextOrder == OrderInv /\ [Next]_vars => OrderInv'
<1> SUFFICES ASSUME OrderInv, [Next]_vars  PROVE OrderInv'
  OBVIOUS
<1>a. TypeOK /\ TypeOK' /\ HandsFree /\ HandsFree'
  BY NextTyping, NextHandsFree DEF OrderInv
<1>b. SUFFICES ASSUME NEW n \in Name  PROVE InOrder(n)'
  BY <1>a, Zenon DEF OrderInv
<1>c. InOrder(n)  BY DEF OrderInv
<1>d. /\ cycles[n] \in Nat /\ period[n] \in Nat /\ list[n] \in Nat
      /\ oldest[n] \in Nat /\ heldOldest[n] \in Nat /\ putOldest[n] \in Nat
      /\ held[n] \in Nat /\ put[n] \in Nat /\ Delta(n) \in Nat
  BY <1>a, CyclesAreNat, DeltaIsNat
<1>1. CASE LoopCollects
  <2>1. Collect(held') /\ counter' = counter  BY <1>1 DEF LoopCollects, xrayVars
  <2>2. Delta(n)' = 0 /\ held'[n] = IF baseline THEN Delta(n) ELSE 0
    BY <1>a, <2>1, CollectAccounted, Zenon
  <2>3. heldOldest' = oldest /\ UNCHANGED <<cycles, msgVars, oldest, misplaced, histVars>>
    BY <1>1 DEF LoopCollects
  <2> QED  BY <1>c, <1>d, <2>2, <2>3, SMT DEF InOrder, Due, CycleChanges, msgVars, histVars
<1>2. CASE LoopAccumulates
  <2>1. /\ held'[n] = 0
        /\ n \in misplaced' => n \in misplaced \/ (held[n] > 0 /\ cycles[n] > heldOldest[n])
    BY <1>2, SMT DEF LoopAccumulates, Accumulate, Zero
  <2>2. UNCHANGED <<xrayVars, statVars, cycles, heldOldest, msgVars, oldest, histVars>>
    BY <1>2 DEF LoopAccumulates
  <2>3. Delta(n)' = Delta(n)  BY <2>2 DEF Delta, xrayVars, statVars
  <2> QED  BY <1>c, <1>d, <2>1, <2>2, <2>3, SMT
           DEF InOrder, Due, CycleChanges, statVars, msgVars, histVars
<1>3. ASSUME NEW l \in [Name -> Cycle], Receive(l)  PROVE InOrder(n)'
  <2>1. /\ UNCHANGED <<xrayVars, statVars, cycles, held, put, putOldest, misplaced, unsealed>>
        /\ msg = "idle" /\ (l[n] = 0 \/ l[n] >= period[n])
        /\ msg' = IF CycleChanges(l) # {} THEN "seal" ELSE "apply"
        /\ list' = l
    BY <1>3, Zenon DEF Receive
  <2>2. /\ period'[n] = IF l[n] = 0 THEN period[n] ELSE l[n]
        /\ oldest'[n] = IF period[n] = 0 THEN l[n] ELSE oldest[n]
        /\ heldOldest'[n] = IF period[n] = 0 THEN l[n] ELSE heldOldest[n]
        /\ n \in unseen \/ (cycles[n] = 0 /\ l[n] > period[n] /\ period[n] # 0)
             <=> n \in unseen'
    BY <1>3, SMT DEF Receive
  <2>3. l[n] \in Nat  BY CountingAssumption, SMT DEF Cycle
  <2>4. put[n] = 0  BY <1>a, <2>1, SMT DEF HandsFree, Zero
  <2>5. Delta(n)' = Delta(n)  BY <2>1 DEF Delta, xrayVars, statVars
  <2>6. msg' # "put" /\ (msg' = "apply" => CycleChanges(list)' = {})
    BY <2>1, SMT DEF CycleChanges
  <2> QED  BY <1>c, <1>d, <2>1, <2>2, <2>3, <2>4, <2>5, <2>6, SMT DEF InOrder, Due, statVars
<1>4. CASE SealCollects
  <2>1. Collect(put') /\ counter' = counter  BY <1>4 DEF SealCollects, xrayVars
  <2>2. Delta(n)' = 0 /\ put'[n] = IF baseline THEN Delta(n) ELSE 0
    BY <1>a, <2>1, CollectAccounted, Zenon
  <2>3. /\ putOldest' = oldest /\ msg = "seal"
        /\ UNCHANGED <<cycles, loopVars, list, period, oldest, misplaced, histVars>>
    BY <1>4 DEF SealCollects
  <2> QED  BY <1>c, <1>d, <2>2, <2>3, SMT DEF InOrder, Due, loopVars, histVars
<1>5. CASE SealFails
  <2>1. /\ msg = "seal" /\ unsealed' = unsealed \cup CycleChanges(list)
        /\ UNCHANGED <<xrayVars, statVars, cycles, loopVars, put, putOldest, list, period,
                       oldest, misplaced, unseen>>
    BY <1>5 DEF SealFails
  <2>2. Delta(n)' = Delta(n) /\ CycleChanges(list)' = CycleChanges(list)
    BY <2>1 DEF Delta, CycleChanges, xrayVars, statVars
  <2> QED  BY <1>c, <1>d, <2>1, <2>2, SMT DEF InOrder, Due, statVars, loopVars
<1>6. CASE SealAccumulates
  <2>1. /\ put'[n] = 0
        /\ n \in misplaced' => n \in misplaced \/ (put[n] > 0 /\ cycles[n] > putOldest[n])
    BY <1>6, SMT DEF SealAccumulates, Accumulate, Zero
  <2>2. /\ msg = "put" /\ msg' = "apply"
        /\ UNCHANGED <<xrayVars, statVars, cycles, loopVars, putOldest, list, period, oldest,
                       histVars>>
    BY <1>6 DEF SealAccumulates
  <2>3. Delta(n)' = Delta(n) /\ CycleChanges(list)' = CycleChanges(list)
    BY <2>2 DEF Delta, CycleChanges, xrayVars, statVars
  <2> QED  BY <1>c, <1>d, <2>1, <2>2, <2>3, SMT DEF InOrder, Due, statVars, loopVars, histVars
<1>7. CASE ApplyCycles
  <2>1. /\ msg = "apply" /\ msg' = "idle"
        /\ UNCHANGED <<xrayVars, statVars, loopVars, put, putOldest, list, period, oldest,
                       misplaced, unsealed>>
    BY <1>7 DEF ApplyCycles
  <2>2. /\ cycles'[n] = IF list[n] = 0 THEN cycles[n] ELSE list[n]
        /\ n \in unseen \/ (n \in CycleChanges(list) /\ held[n] > 0) <=> n \in unseen'
    BY <1>7, SMT DEF ApplyCycles, CycleChanges
  <2>3. n \in CycleChanges(list) <=> list[n] # 0 /\ cycles[n] # 0 /\ list[n] # cycles[n]
    BY DEF CycleChanges
  <2>4. put[n] = 0  BY <1>a, <2>1, SMT DEF HandsFree, Zero
  <2>5. Delta(n)' = Delta(n)  BY <2>1 DEF Delta, xrayVars, statVars
  <2> QED  BY <1>c, <1>d, <2>1, <2>2, <2>3, <2>4, <2>5, SMT DEF InOrder, Due, statVars, loopVars
<1>8. ASSUME NEW k \in Name, Traffic(k)  PROVE InOrder(n)'
  <2>1. UNCHANGED <<statVars, cycles, loopVars, msgVars, misplaced, histVars>>
    BY <1>8 DEF Traffic
  <2>2. CASE n = k
    <3>1. oldest'[n] = IF Delta(n) = 0 THEN period[n] ELSE oldest[n]
      BY <1>8, <1>a, <2>2, SMT DEF Traffic, TypeOK
    <3> QED  BY <1>c, <1>d, <2>1, <3>1, SMT
             DEF InOrder, Due, CycleChanges, statVars, loopVars, msgVars, histVars
  <2>3. CASE n # k
    <3>1. oldest'[n] = oldest[n]  BY <1>8, <1>a, <2>3, SMT DEF Traffic, TypeOK
    <3>2. Delta(n)' = Delta(n)
      BY <1>8, <1>a, <2>1, <2>3, SMT DEF Traffic, TypeOK, Counters, Delta, statVars
    <3> QED  BY <1>c, <1>d, <2>1, <3>1, <3>2, SMT
             DEF InOrder, Due, CycleChanges, statVars, loopVars, msgVars, histVars
  <2> QED  BY <2>2, <2>3
<1>9. CASE XrayRestarts \/ \E k \in Name : RemoveCounter(k)
  <2>1. UNCHANGED <<statVars, cycles, loopVars, msgVars, oldest, misplaced, unsealed, unseen>>
    BY <1>9 DEF XrayRestarts, RemoveCounter
  <2>2. Delta(n)' \in {0, Delta(n)}  BY <1>a, <1>9, RestartDelta
  <2> QED  BY <1>c, <1>d, <2>1, <2>2, SMT
           DEF InOrder, Due, CycleChanges, statVars, loopVars, msgVars
<1>10. CASE Crash
  BY <1>10, <1>c, <1>d, SMT DEF Crash, InOrder, Due, Zero
<1>11. CASE UNCHANGED vars
  <2>1. Delta(n)' = Delta(n)  BY <1>11 DEF vars, Delta, xrayVars, statVars
  <2> QED  BY <1>11, <1>c, <2>1, Zenon
           DEF vars, InOrder, Due, CycleChanges, statVars, loopVars, msgVars, histVars
<1> QED
  BY <1>1, <1>2, <1>3, <1>4, <1>5, <1>6, <1>7, <1>8, <1>9, <1>10, <1>11 DEF Next, SyncUsers

\* A byte is not billed to a later cycle than the one it was transferred in, unless the
\* change of its cycle could not be sealed or was not seen by the process that held it.
THEOREM CountingRightCycle == Spec => []RightCycle
<1>1. Init => OrderInv  BY InitOrder
<1>2. OrderInv /\ [Next]_vars => OrderInv'  BY NextOrder
<1>3. OrderInv => RightCycle  BY DEF OrderInv, TypeOK, InOrder, RightCycle
<1> QED  BY <1>1, <1>2, <1>3, PTL DEF Spec

-------------------------------------------------------------------------------
(* No byte is lost while xray, its counters and the agent stay.            *)

\* Counters only grow, so that the collector can subtract.
Exact(n) ==
    /\ last[n] # None => counter[n] # None /\ counter[n] >= last[n]
    /\ IF baseline
         THEN pending[n] + held[n] + put[n] + Delta(n) + before[n] = served[n]
         ELSE pending[n] = 0 /\ held[n] = 0 /\ put[n] = 0

ExactInv == AccountInv /\ (~restarted => \A n \in Name : Exact(n))

LEMMA NextExact == ExactInv /\ [Next]_vars => ExactInv'
<1> SUFFICES ASSUME ExactInv, [Next]_vars  PROVE ExactInv'
  OBVIOUS
<1>a. AccountInv /\ AccountInv'  BY NextAccounted DEF ExactInv
<1>t. TypeOK /\ TypeOK' /\ HandsFree  BY <1>a DEF AccountInv
<1>b. SUFFICES ASSUME ~restarted', NEW n \in Name  PROVE Exact(n)'
  BY <1>a, Zenon DEF ExactInv
<1>r. ~restarted
  <2>1. CASE LoopCollects \/ LoopAccumulates
    BY <1>b, <2>1 DEF LoopCollects, LoopAccumulates, histVars
  <2>2. CASE SyncUsers
    BY <1>b, <2>2 DEF SyncUsers, Receive, SealCollects, SealFails, SealAccumulates,
                      ApplyCycles, histVars
  <2>3. CASE XrayRestarts \/ Crash \/ \E k \in Name : Traffic(k) \/ RemoveCounter(k)
    BY <1>b, <2>3 DEF XrayRestarts, Crash, Traffic, RemoveCounter, histVars
  <2>4. CASE UNCHANGED vars
    BY <1>b, <2>4 DEF vars, histVars
  <2> QED  BY <2>1, <2>2, <2>3, <2>4 DEF Next
<1>c. Exact(n)  BY <1>r DEF ExactInv
<1>d. /\ pending[n] \in Nat /\ held[n] \in Nat /\ put[n] \in Nat /\ served[n] \in Nat
      /\ before[n] \in Nat /\ Delta(n) \in Nat /\ baseline \in BOOLEAN
      /\ (counter[n] \in Nat \/ counter[n] = None)
  BY <1>t, DeltaIsNat, SMT DEF TypeOK, Bytes, Counters
<1>1. CASE LoopCollects
  <2>1. Collect(held') /\ counter' = counter  BY <1>1 DEF LoopCollects, xrayVars
  <2>2. /\ Delta(n)' = 0 /\ baseline'
        /\ held'[n] = IF baseline THEN Delta(n) ELSE 0
        /\ before'[n] = IF baseline THEN before[n] ELSE served[n]
    BY <1>t, <2>1, CollectAccounted, Zenon
  <2>3. held[n] = 0  BY <1>1, <1>t, SMT DEF LoopCollects, HandsFree, Zero
  <2>4. last' = counter /\ pending' = pending /\ put' = put /\ served' = served
    BY <1>1, <2>1 DEF LoopCollects, Collect, xrayVars, msgVars
  <2> QED  BY <1>c, <1>d, <2>1, <2>2, <2>3, <2>4, SMT DEF Exact
<1>2. CASE LoopAccumulates
  <2>1. UNCHANGED <<xrayVars, statVars, msgVars>>  BY <1>2 DEF LoopAccumulates
  <2>2. pending'[n] = pending[n] + held[n] /\ held'[n] = 0
    BY <1>2, SMT DEF LoopAccumulates, Accumulate, Zero
  <2>3. Delta(n)' = Delta(n)  BY <2>1 DEF Delta, xrayVars, statVars
  <2> QED  BY <1>c, <1>d, <2>1, <2>2, <2>3, SMT DEF Exact, xrayVars, statVars, msgVars
<1>3. CASE SealCollects
  <2>1. Collect(put') /\ counter' = counter  BY <1>3 DEF SealCollects, xrayVars
  <2>2. /\ Delta(n)' = 0 /\ baseline'
        /\ put'[n] = IF baseline THEN Delta(n) ELSE 0
        /\ before'[n] = IF baseline THEN before[n] ELSE served[n]
    BY <1>t, <2>1, CollectAccounted, Zenon
  <2>3. put[n] = 0  BY <1>3, <1>t, SMT DEF SealCollects, HandsFree, Zero
  <2>4. last' = counter /\ pending' = pending /\ held' = held /\ served' = served
    BY <1>3, <2>1 DEF SealCollects, Collect, xrayVars, loopVars
  <2> QED  BY <1>c, <1>d, <2>1, <2>2, <2>3, <2>4, SMT DEF Exact
<1>4. CASE SealAccumulates
  <2>1. UNCHANGED <<xrayVars, statVars, loopVars>>  BY <1>4 DEF SealAccumulates
  <2>2. pending'[n] = pending[n] + put[n] /\ put'[n] = 0
    BY <1>4, SMT DEF SealAccumulates, Accumulate, Zero
  <2>3. Delta(n)' = Delta(n)  BY <2>1 DEF Delta, xrayVars, statVars
  <2> QED  BY <1>c, <1>d, <2>1, <2>2, <2>3, SMT DEF Exact, xrayVars, statVars, loopVars
<1>5. CASE SealFails \/ ApplyCycles \/ (\E l \in [Name -> Cycle] : Receive(l)) \/ UNCHANGED vars
  <2>1. UNCHANGED <<xrayVars, statVars, pending, held, put>>
    BY <1>5 DEF SealFails, ApplyCycles, Receive, vars, loopVars, msgVars
  <2> QED  BY <1>c, <2>1 DEF Exact, Delta, xrayVars, statVars
<1>6. ASSUME NEW k \in Name, Traffic(k)  PROVE Exact(n)'
  <2>1. UNCHANGED <<statVars, loopVars, msgVars, pending>>  BY <1>6 DEF Traffic
  <2>2. /\ served'[n] = served[n] + (IF n = k THEN 1 ELSE 0)
        /\ counter'[n] = IF n # k THEN counter[n]
                         ELSE IF counter[n] = None THEN 1 ELSE counter[n] + 1
    BY <1>6, <1>t, SMT DEF Traffic, TypeOK, Bytes, Counters
  <2>3. Delta(n)' = Delta(n) + (IF n = k THEN 1 ELSE 0)
    BY <1>6, <1>t, <1>c, DeltaGrows, Zenon DEF Exact
  <2>4. last[n] \in Nat \/ last[n] = None  BY <1>t, SMT DEF TypeOK, Counters
  <2>5. last'[n] # None => counter'[n] # None /\ counter'[n] >= last'[n]
    BY <1>c, <1>d, <2>1, <2>2, <2>4, CountingAssumption, SMT DEF Exact, statVars
  <2>6. CASE n = k
    BY <1>c, <1>d, <2>1, <2>2, <2>3, <2>5, <2>6, SMT DEF Exact, statVars, loopVars, msgVars
  <2>7. CASE n # k
    BY <1>c, <1>d, <2>1, <2>2, <2>3, <2>5, <2>7, SMT DEF Exact, statVars, loopVars, msgVars
  <2> QED  BY <2>6, <2>7
<1>7. CASE XrayRestarts \/ Crash \/ \E k \in Name : RemoveCounter(k)
  BY <1>7, <1>b DEF XrayRestarts, Crash, RemoveCounter
<1> QED  BY <1>1, <1>2, <1>3, <1>4, <1>5, <1>6, <1>7 DEF Next, SyncUsers

\* As long as xray, its counters and the agent stay, every byte since the baseline is in
\* pending, in the hands of a loop, or in a counter that a later call will read.
THEOREM CountingNothingMissed == Spec => []NothingMissed
<1>1. Init => ExactInv
  <2> SUFFICES ASSUME Init  PROVE ExactInv
    OBVIOUS
  <2>1. ASSUME NEW n \in Name  PROVE Exact(n)
    BY <2>1, SMT DEF Init, Exact, Zero, NoCounters
  <2> QED  BY <2>1, InitAccounted DEF ExactInv
<1>2. ExactInv /\ [Next]_vars => ExactInv'  BY NextExact
<1>3. ExactInv => NothingMissed  BY DEF ExactInv, Exact, NothingMissed
<1> QED  BY <1>1, <1>2, <1>3, PTL DEF Spec

===============================================================================
