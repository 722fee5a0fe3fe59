-------------------------------- MODULE Outbox --------------------------------
(***************************************************************************)
(* The persistent traffic outbox: internal/agent/outbox/outbox.go.         *)
(*                                                                         *)
(* Every method of Outbox runs under o.mu, and saveLocked replaces the     *)
(* file by a rename, so each method is one action.  A save that fails      *)
(* leaves memory and disk as they were: such a call is a stuttering step   *)
(* here, and the caller's reaction to it is in module TrafficDelivery.     *)
(*                                                                         *)
(* The slice of batches is a set: Append is the only operation that adds   *)
(* an element, at the end and with the largest seq, so the order of the    *)
(* slice is the order of seq.                                              *)
(***************************************************************************)
EXTENDS Integers, FiniteSets

CONSTANTS
    Id,          \* batch identifiers, newID() never returns one twice
    Entry,       \* units of collected traffic, each collected once
    MaxBatches,  \* maxBatches
    MaxBytes,    \* maxBytes, counted in entries
    MaxAge,      \* maxAge, in ticks
    MaxTime,     \* bound: the clock stops here
    Faults       \* the environment's faults: subset of FaultKind

FaultKind == {"read", "write", "rename", "corrupt"}

ASSUME OutboxAssumption ==
    /\ MaxBatches \in Nat \ {0}
    /\ MaxBytes \in Nat \ {0}
    /\ MaxAge \in Nat
    /\ MaxTime \in Nat
    /\ IsFiniteSet(Id)
    /\ IsFiniteSet(Entry)
    /\ Faults \subseteq FaultKind

VARIABLES
    running,     \* Load has returned and the process has not stopped since
    seq,         \* o.seq
    batches,     \* o.batches
    disk,        \* the file at o.path
    quarantine,  \* batches in files renamed to .corrupt-<ts>
    now,         \* the clock
    made,        \* history: what each batch held when Append created it
    acked,       \* history: batches removed by Ack
    expired,     \* history: batches given up to a limit
    abandoned    \* history: batches in a file that Load could not read or set aside,
                 \* until a later Load does

outboxVars == <<running, seq, batches, disk, quarantine, now, made, acked, expired,
               abandoned>>

Batch == [id : Id, seq : Nat, created : 0..MaxTime, entries : SUBSET Entry]

\* intact is what salvageBatches can still decode; it is batches in a sound file.
File == [state : {"absent", "ok", "corrupt"}, seq : Nat,
         batches : SUBSET Batch, intact : SUBSET Batch]

Absent == [state |-> "absent", seq |-> 0, batches |-> {}, intact |-> {}]
FileOf(s, bs) == [state |-> "ok", seq |-> s, batches |-> bs, intact |-> bs]

Ids(bs) == {b.id : b \in bs}
Bytes(bs) == Cardinality(UNION {b.entries : b \in bs})
From(bs, b) == {c \in bs : c.seq >= b.seq}

\* Mutant of Fit: the newest batches go first.
FitDropsNewest(bs) ==
    {b \in bs : \/ Bytes({c \in bs : c.seq <= b.seq}) <= MaxBytes
                \/ \A c \in bs : b.seq <= c.seq}

\* What saveLocked keeps: the oldest batches go until the rest fits, one stays.
Fit(bs) == {b \in bs : Bytes(From(bs, b)) <= MaxBytes \/ From(bs, b) = {b}}

Fresh == {id \in Id : made[id] = {}}

-------------------------------------------------------------------------------
Init ==
    /\ running = FALSE
    /\ seq = 0
    /\ batches = {}
    /\ disk = Absent
    /\ quarantine = {}
    /\ now = 0
    /\ made = [id \in Id |-> {}]
    /\ acked = {}
    /\ expired = {}
    /\ abandoned = {}

\* Mutant of Commit: what saveLocked kept is not taken over into memory.
CommitIgnoresFit(s, bs) ==
    /\ disk' = FileOf(s, Fit(bs))
    /\ batches' = bs
    /\ seq' = s

Commit(s, bs) ==
    /\ disk' = FileOf(s, Fit(bs))
    /\ batches' = Fit(bs)
    /\ seq' = s

AppendBatch(es) ==
    /\ running
    /\ es # {}
    /\ \E id \in Fresh :
         LET b == [id |-> id, seq |-> seq + 1, created |-> now, entries |-> es]
             all == batches \cup {b}
         IN /\ Commit(seq + 1, all)
            /\ made' = [made EXCEPT ![id] = es]
            /\ expired' = expired \cup Ids(all \ Fit(all))
    /\ UNCHANGED <<running, quarantine, now, acked, abandoned>>

\* Mutant of Ack: the batch is removed from memory only.
AckInMemory(id) ==
    /\ running
    /\ id \in Ids(batches)
    /\ batches' = {b \in batches : b.id # id}
    /\ acked' = acked \cup {id}
    /\ UNCHANGED <<running, seq, disk, quarantine, now, made, expired, abandoned>>

\* A miss returns false and changes nothing.
Ack(id) ==
    /\ running
    /\ id \in Ids(batches)
    /\ LET rest == {b \in batches : b.id # id}
       IN /\ Commit(seq, rest)
          /\ expired' = expired \cup Ids(rest \ Fit(rest))
    /\ acked' = acked \cup {id}
    /\ UNCHANGED <<running, quarantine, now, made, abandoned>>

Live == {b \in batches : b.created >= now - MaxAge}
Kept == {b \in Live : Cardinality(From(Live, b)) <= MaxBatches}

DropExpired ==
    /\ running
    /\ Kept # batches
    /\ Commit(seq, Kept)
    /\ expired' = expired \cup Ids(batches \ Fit(Kept))
    /\ UNCHANGED <<running, quarantine, now, made, acked, abandoned>>

-------------------------------------------------------------------------------
(* Load.  A new process starts with seq = 0 and no batches.                *)

LoadSound ==
    /\ disk.state # "corrupt"
    /\ seq' = disk.seq
    /\ batches' = disk.batches
    /\ UNCHANGED <<disk, quarantine>>

LoadUnreadable ==
    /\ "read" \in Faults
    /\ disk.state # "absent"
    /\ UNCHANGED <<seq, batches, disk, quarantine>>

QuarantineFails ==
    /\ disk.state = "corrupt"
    /\ "rename" \in Faults
    /\ UNCHANGED <<seq, batches, disk, quarantine>>

\* Mutants of Salvage: the counter is not restored; the damaged file is overwritten
\* without being renamed first.
SalvageForgetsSeq ==
    /\ disk.state = "corrupt"
    /\ disk.intact # {}
    /\ quarantine' = quarantine \cup disk.batches
    /\ Commit(seq, disk.intact)

SalvageInPlace ==
    /\ disk.state = "corrupt"
    /\ \E newest \in disk.intact :
         /\ \A b \in disk.intact : b.seq <= newest.seq
         /\ Commit(newest.seq, disk.intact)
    /\ UNCHANGED quarantine

\* The counter restarts at the largest seq that was salvaged.  The result of
\* saveLocked is assigned to o.batches even when it failed.
Salvage ==
    /\ disk.state = "corrupt"
    /\ \E newest \in disk.intact :
         /\ \A b \in disk.intact : b.seq <= newest.seq
         /\ seq' = newest.seq
    /\ quarantine' = quarantine \cup disk.batches
    /\ \/ /\ batches' = Fit(disk.intact)
          /\ disk' = FileOf(seq', Fit(disk.intact))
       \/ /\ "write" \in Faults
          /\ batches' = {}
          /\ disk' = Absent

NothingToSalvage ==
    /\ disk.state = "corrupt"
    /\ disk.intact = {}
    /\ quarantine' = quarantine \cup disk.batches
    /\ disk' = Absent
    /\ UNCHANGED <<seq, batches>>

Load ==
    /\ ~running
    /\ running' = TRUE
    /\ \/ /\ LoadSound \/ Salvage \/ NothingToSalvage
          /\ abandoned' = abandoned \ Ids(disk.batches)
       \/ /\ LoadUnreadable \/ QuarantineFails
          /\ abandoned' = abandoned \cup Ids(disk.batches)
    /\ UNCHANGED <<now, made, acked, expired>>

-------------------------------------------------------------------------------
(* The environment.                                                        *)

Crash ==
    /\ running
    /\ running' = FALSE
    /\ seq' = 0
    /\ batches' = {}
    /\ UNCHANGED <<disk, quarantine, now, made, acked, expired, abandoned>>

\* The decoder stops at the first batch it cannot read, so a prefix survives.
Corrupt ==
    /\ "corrupt" \in Faults
    /\ ~running
    /\ disk.state = "ok"
    /\ \E n \in 0..Cardinality(disk.batches) :
         disk' = [disk EXCEPT !.state = "corrupt",
                    !.intact = {b \in disk.batches :
                        Cardinality({c \in disk.batches : c.seq <= b.seq}) <= n}]
    /\ UNCHANGED <<running, seq, batches, quarantine, now, made, acked, expired, abandoned>>

Tick ==
    /\ now < MaxTime
    /\ now' = now + 1
    /\ UNCHANGED <<running, seq, batches, disk, quarantine, made, acked, expired, abandoned>>

Next ==
    \/ \E es \in SUBSET (Entry \ UNION {made[i] : i \in Id}) : AppendBatch(es)
    \/ \E id \in Id : Ack(id)
    \/ DropExpired
    \/ Load
    \/ Crash
    \/ Corrupt
    \/ Tick

Spec == Init /\ [][Next]_outboxVars

-------------------------------------------------------------------------------
(* Every variable has its type.                                            *)
TypeOK ==
    /\ running \in BOOLEAN
    /\ seq \in Nat
    /\ batches \subseteq Batch
    /\ disk \in File
    /\ quarantine \subseteq Batch
    /\ now \in 0..MaxTime
    /\ made \in [Id -> SUBSET Entry]
    /\ acked \subseteq Id
    /\ expired \subseteq Id
    /\ abandoned \subseteq Id

\* A batch that was created is on disk, in a quarantined file, acknowledged, given up
\* to a limit, or in a file that could not be read or set aside: no crash, damage or
\* failed save loses it otherwise.
Retained ==
    \A id \in Id \ Fresh :
        id \in acked \cup expired \cup abandoned \cup Ids(disk.batches) \cup Ids(quarantine)

\* Memory is committed only with the file: a running process holds what the next
\* process would load, but for a file it could not read or set aside itself.
MemoryIsDisk == running => batches = {b \in disk.batches : b.id \notin abandoned}

\* Seq orders the outbox even after a corrupt file took the counter with it: no
\* two batches share a seq, and the next one Append assigns is new.
SeqOrders ==
    /\ \A b, c \in batches : b.seq = c.seq => b = c
    /\ \A b \in batches : b.seq <= seq

\* Deduplication by id needs it: what is stored under an id is what was created
\* under it, wherever the batch is.
Immutable ==
    \A b \in batches \cup disk.batches \cup quarantine : b.entries = made[b.id]

\* A limit takes the oldest batches: what it takes in a step is older than
\* everything that stays, and never the batch that is being added.
LimitsTakeOldest ==
    [][/\ expired' \ expired \subseteq Ids(batches)
       /\ \A b \in batches : b.id \in expired' \ expired =>
              \A c \in batches' : b.seq < c.seq]_outboxVars

\* An acknowledged batch never comes back, or it would be billed again once the
\* master has forgotten it: not by a restart, an unreadable file, a salvage or a
\* failed save.
AckIsFinal == acked \cap Ids(batches) = {}
===============================================================================
