----------------------------- MODULE OutboxProofs -----------------------------
(***************************************************************************)
(* Theorems about Outbox, for every value of its constants.                *)
(***************************************************************************)
EXTENDS Outbox, FiniteSetTheorems, TLAPS

\* What is stored holds what was created under its id, which no master has
\* acknowledged, and seq orders it: in memory and in the file alike, for the next
\* process makes the one into the other.
Sound(m, gone, bs, s) ==
    /\ \A b \in bs : b.entries = m[b.id] /\ b.entries # {}
    /\ gone \cap Ids(bs) = {}
    /\ \A b, c \in bs : b.seq = c.seq => b = c
    /\ \A b \in bs : b.seq <= s

SoundInv ==
    /\ TypeOK
    /\ Sound(made, acked, batches, seq)
    /\ Sound(made, acked, disk.batches, disk.seq)
    /\ disk.intact \subseteq disk.batches
    /\ disk.state = "absent" => disk = Absent
    /\ \A b \in quarantine : b.entries = made[b.id] /\ b.entries # {}
    /\ acked \cap Fresh = {}

\* saveLocked adds nothing.
LEMMA FitSubset == ASSUME NEW bs PROVE Fit(bs) \subseteq bs
  BY DEF Fit

\* What Commit makes of a set of batches is well typed.
LEMMA CommitType ==
    ASSUME NEW s \in Nat, NEW bs \in SUBSET Batch, Commit(s, bs)
    PROVE  seq' \in Nat /\ batches' \subseteq Batch /\ disk' \in File
  <1>1. Fit(bs) \subseteq Batch
    BY FitSubset
  <1> QED
    BY <1>1 DEF Commit, File, FileOf

\* Every variable has its type, whatever the environment does.
LEMMA TypeInit == Init => TypeOK
  <1> SUFFICES ASSUME Init PROVE TypeOK
    OBVIOUS
  <1>1. disk \in File
    BY DEF Init, Absent, File
  <1>2. made \in [Id -> SUBSET Entry]
    BY DEF Init
  <1>3. now \in 0..MaxTime
    BY OutboxAssumption DEF Init
  <1> QED
    BY <1>1, <1>2, <1>3 DEF Init, TypeOK

LEMMA TypeStep == TypeOK /\ [Next]_outboxVars => TypeOK'
  <1> SUFFICES ASSUME TypeOK, [Next]_outboxVars PROVE TypeOK'
    OBVIOUS
  <1> USE DEF TypeOK
  <1>1. ASSUME NEW es \in SUBSET (Entry \ UNION {made[i] : i \in Id}), AppendBatch(es)
        PROVE  TypeOK'
    <2>1. PICK id \in Fresh :
            LET b == [id |-> id, seq |-> seq + 1, created |-> now, entries |-> es]
                all == batches \cup {b}
            IN /\ Commit(seq + 1, all)
               /\ made' = [made EXCEPT ![id] = es]
               /\ expired' = expired \cup Ids(all \ Fit(all))
      BY <1>1 DEF AppendBatch
    <2> DEFINE b == [id |-> id, seq |-> seq + 1, created |-> now, entries |-> es]
               all == batches \cup {b}
    <2>2. all \in SUBSET Batch
      BY <1>1 DEF Batch, Fresh
    <2>3. seq' \in Nat /\ batches' \subseteq Batch /\ disk' \in File
      BY <2>1, <2>2, CommitType
    <2>4. expired' \subseteq Id
      BY <2>1, <2>2 DEF Ids, Batch
    <2>5. made' \in [Id -> SUBSET Entry]
      BY <2>1 DEF Fresh
    <2> QED
      BY <1>1, <2>3, <2>4, <2>5 DEF AppendBatch
  <1>2. ASSUME NEW id \in Id, Ack(id) PROVE TypeOK'
    <2> DEFINE rest == {b \in batches : b.id # id}
    <2>1. Commit(seq, rest) /\ expired' = expired \cup Ids(rest \ Fit(rest))
      BY <1>2 DEF Ack
    <2>2. seq' \in Nat /\ batches' \subseteq Batch /\ disk' \in File
      BY <2>1, CommitType
    <2>3. expired' \subseteq Id
      BY <2>1 DEF Ids, Batch
    <2> QED
      BY <1>2, <2>2, <2>3 DEF Ack
  <1>3. CASE DropExpired
    <2>1. Kept \in SUBSET Batch
      BY DEF Kept, Live
    <2>2. seq' \in Nat /\ batches' \subseteq Batch /\ disk' \in File
      BY <1>3, <2>1, CommitType DEF DropExpired
    <2>3. expired' \subseteq Id
      BY <1>3 DEF DropExpired, Ids, Batch
    <2> QED
      BY <1>3, <2>2, <2>3 DEF DropExpired
  <1>4. CASE Load
    <2>a. abandoned' \subseteq Id
      BY <1>4 DEF Load, Ids, File, Batch
    <2>1. CASE LoadSound
      BY <1>4, <2>a, <2>1 DEF Load, LoadSound, File
    <2>2. CASE LoadUnreadable
      BY <1>4, <2>a, <2>2 DEF Load, LoadUnreadable
    <2>3. CASE QuarantineFails
      BY <1>4, <2>a, <2>3 DEF Load, QuarantineFails
    <2>4. CASE Salvage
      <3>1. disk.intact \subseteq Batch /\ disk.batches \subseteq Batch
        BY DEF File
      <3>2. seq' \in Nat
        BY <2>4, <3>1 DEF Salvage, Batch
      <3>3. Fit(disk.intact) \subseteq Batch
        BY <3>1, FitSubset
      <3>4. batches' \subseteq Batch /\ disk' \in File
        BY <2>4, <3>2, <3>3 DEF Salvage, File, FileOf, Absent
      <3>5. quarantine' \subseteq Batch
        BY <2>4, <3>1 DEF Salvage
      <3> QED
        BY <1>4, <2>a, <3>2, <3>4, <3>5 DEF Load
    <2>5. CASE NothingToSalvage
      BY <1>4, <2>a, <2>5 DEF Load, NothingToSalvage, File, Absent
    <2> QED
      BY <1>4, <2>1, <2>2, <2>3, <2>4, <2>5 DEF Load
  <1>5. CASE Crash
    BY <1>5 DEF Crash
  <1>6. CASE Corrupt
    <2>1. PICK n \in 0..Cardinality(disk.batches) :
            disk' = [disk EXCEPT !.state = "corrupt",
                       !.intact = {b \in disk.batches :
                           Cardinality({c \in disk.batches : c.seq <= b.seq}) <= n}]
      BY <1>6 DEF Corrupt
    <2>2. disk' \in File
      BY <2>1 DEF File
    <2> QED
      BY <1>6, <2>2 DEF Corrupt
  <1>7. CASE Tick
    BY <1>7, OutboxAssumption DEF Tick
  <1>8. CASE UNCHANGED outboxVars
    BY <1>8 DEF outboxVars
  <1> QED
    BY <1>1, <1>2, <1>3, <1>4, <1>5, <1>6, <1>7, <1>8 DEF Next

\* Every variable of the outbox has its type.
THEOREM OutboxTyping == Spec => []TypeOK
  BY TypeInit, TypeStep, PTL DEF Spec

-------------------------------------------------------------------------------
(* Soundness of what is stored.                                            *)

LEMMA SoundInit == Init => SoundInv
  BY TypeInit DEF Init, SoundInv, Sound, Absent, Ids, Fresh

\* A save stores in memory and in the file a subset of what it is given.
LEMMA CommitSound ==
    ASSUME NEW m, NEW gone, NEW s \in Nat, NEW bs \in SUBSET Batch,
           Commit(s, bs), Sound(m, gone, bs, s)
    PROVE  /\ Sound(m, gone, batches', seq') /\ Sound(m, gone, disk'.batches, disk'.seq)
           /\ disk'.intact \subseteq disk'.batches /\ disk'.state = "ok"
  BY FitSubset DEF Commit, FileOf, Sound, Ids

LEMMA SoundStep == SoundInv /\ [Next]_outboxVars => SoundInv'
  <1> SUFFICES ASSUME SoundInv, [Next]_outboxVars PROVE SoundInv'
    OBVIOUS
  <1>t. TypeOK /\ TypeOK'
    BY TypeStep DEF SoundInv
  <1>1. ASSUME NEW es \in SUBSET (Entry \ UNION {made[i] : i \in Id}), AppendBatch(es)
        PROVE  SoundInv'
    <2>1. PICK id \in Fresh :
            LET b == [id |-> id, seq |-> seq + 1, created |-> now, entries |-> es]
                all == batches \cup {b}
            IN /\ Commit(seq + 1, all)
               /\ made' = [made EXCEPT ![id] = es]
               /\ expired' = expired \cup Ids(all \ Fit(all))
      BY <1>1 DEF AppendBatch
    <2> DEFINE b == [id |-> id, seq |-> seq + 1, created |-> now, entries |-> es]
               all == batches \cup {b}
    <2>2. id \in Id /\ id \notin acked /\ made[id] = {}
      BY DEF SoundInv, Fresh
    <2>3. all \in SUBSET Batch /\ seq + 1 \in Nat
      BY <1>1, <1>t, <2>2 DEF Batch, TypeOK
    <2>4. made' = [made EXCEPT ![id] = es] /\ acked' = acked /\ es # {}
          /\ quarantine' = quarantine
      BY <1>1, <2>1 DEF AppendBatch
    <2>5. \A c \in batches \cup quarantine : c.id # id /\ c.id \in Id
      BY <1>t, <2>2 DEF SoundInv, Sound, TypeOK, Batch
    <2>6. Sound(made', acked', all, seq + 1)
      <3>1. \A c \in all : c.entries = made'[c.id] /\ c.entries # {}
        BY <1>t, <2>2, <2>4, <2>5 DEF SoundInv, Sound, TypeOK
      <3>2. acked \cap Ids(all) = {}
        BY <2>2 DEF SoundInv, Sound, Ids
      <3>3. \A c \in batches : c.seq \in Nat /\ c.seq <= seq
        BY <1>t DEF SoundInv, Sound, TypeOK, Batch
      <3>4. seq \in Nat
        BY <1>t DEF TypeOK
      <3>5. \A c, d \in all : c.seq = d.seq => c = d
        BY <3>3, <3>4 DEF SoundInv, Sound
      <3>6. \A c \in all : c.seq <= seq + 1
        BY <3>3, <3>4
      <3> QED
        BY <2>4, <3>1, <3>2, <3>5, <3>6 DEF Sound
    <2>7. \A c \in quarantine : c.entries = made'[c.id] /\ c.entries # {}
      BY <1>t, <2>4, <2>5 DEF SoundInv, TypeOK
    <2>8. acked' \cap Fresh' = {}
      BY <1>t, <2>2, <2>4 DEF SoundInv, Fresh, TypeOK
    <2> QED
      BY <1>t, <2>1, <2>3, <2>4, <2>6, <2>7, <2>8, CommitSound DEF SoundInv
  <1>2. ASSUME NEW id \in Id, Ack(id) PROVE SoundInv'
    <2> DEFINE rest == {b \in batches : b.id # id}
    <2>1. /\ Commit(seq, rest) /\ id \in Ids(batches) /\ acked' = acked \cup {id}
          /\ made' = made /\ quarantine' = quarantine
      BY <1>2 DEF Ack
    <2>2. seq \in Nat /\ rest \in SUBSET Batch
      BY <1>t DEF TypeOK
    <2>3. Sound(made', acked', rest, seq)
      BY <2>1 DEF SoundInv, Sound, Ids
    <2>4. acked' \cap Fresh' = {}
      BY <2>1 DEF SoundInv, Sound, Fresh, Ids
    <2> QED
      BY <1>t, <2>1, <2>2, <2>3, <2>4, CommitSound DEF SoundInv
  <1>3. CASE DropExpired
    <2>1. /\ Commit(seq, Kept) /\ acked' = acked /\ made' = made
          /\ quarantine' = quarantine
      BY <1>3 DEF DropExpired
    <2>2. seq \in Nat /\ Kept \in SUBSET Batch
      BY <1>t DEF TypeOK, Kept, Live
    <2>3. Sound(made', acked', Kept, seq)
      <3>1. Kept \subseteq batches
        BY DEF Kept, Live
      <3> QED
        BY <2>1, <3>1 DEF SoundInv, Sound, Ids
    <2>4. acked' \cap Fresh' = {}
      BY <2>1 DEF SoundInv, Fresh
    <2> QED
      BY <1>t, <2>1, <2>2, <2>3, <2>4, CommitSound DEF SoundInv
  <1>4. CASE Load
    <2>1. made' = made /\ acked' = acked /\ acked' \cap Fresh' = {}
      BY <1>4 DEF Load, SoundInv, Fresh
    <2>2. CASE LoadSound
      BY <1>t, <2>1, <2>2 DEF LoadSound, SoundInv
    <2>3. CASE LoadUnreadable \/ QuarantineFails
      BY <1>t, <2>1, <2>3 DEF LoadUnreadable, QuarantineFails, SoundInv
    <2>4. CASE Salvage
      <3>1. \A b \in quarantine' : b.entries = made'[b.id] /\ b.entries # {}
        BY <2>1, <2>4 DEF Salvage, SoundInv, Sound
      <3>2. disk.intact \in SUBSET Batch /\ seq' \in Nat
        BY <1>t DEF TypeOK, File
      <3>3. Sound(made', acked', disk.intact, seq')
        BY <2>1, <2>4 DEF Salvage, SoundInv, Sound, Ids
      <3>4. CASE Commit(seq', disk.intact)
        BY <1>t, <2>1, <3>1, <3>2, <3>3, <3>4, CommitSound DEF SoundInv
      <3>5. CASE batches' = {} /\ disk' = Absent
        BY <1>t, <2>1, <3>1, <3>5 DEF SoundInv, Sound, Absent, Ids
      <3> QED
        BY <2>4, <3>4, <3>5 DEF Salvage, Commit
    <2>5. CASE NothingToSalvage
      <3>1. \A b \in quarantine' : b.entries = made'[b.id] /\ b.entries # {}
        BY <2>1, <2>5 DEF NothingToSalvage, SoundInv, Sound
      <3> QED
        BY <1>t, <2>1, <2>5, <3>1 DEF NothingToSalvage, SoundInv, Sound, Absent, Ids
    <2> QED
      BY <1>4, <2>2, <2>3, <2>4, <2>5 DEF Load
  <1>5. CASE Crash
    BY <1>t, <1>5 DEF Crash, SoundInv, Sound, Ids, Fresh
  <1>6. CASE Corrupt
    <2>1. /\ disk'.batches = disk.batches /\ disk'.seq = disk.seq
          /\ disk'.intact \subseteq disk.batches /\ disk'.state = "corrupt"
      BY <1>t, <1>6 DEF Corrupt, TypeOK, File
    <2> QED
      BY <1>t, <1>6, <2>1 DEF Corrupt, SoundInv, Fresh
  <1>7. CASE Tick
    BY <1>t, <1>7 DEF Tick, SoundInv, Fresh
  <1>8. CASE UNCHANGED outboxVars
    BY <1>t, <1>8 DEF outboxVars, SoundInv, Fresh
  <1> QED
    BY <1>1, <1>2, <1>3, <1>4, <1>5, <1>6, <1>7, <1>8 DEF Next

LEMMA SoundAlways == Spec => []SoundInv
  BY SoundInit, SoundStep, PTL DEF Spec

\* What is stored under an id is what was created under it, in memory, in the file
\* and in every file set aside.
THEOREM OutboxImmutable == Spec => []Immutable
  <1>1. SoundInv => Immutable
    BY DEF SoundInv, Sound, Immutable
  <1> QED
    BY <1>1, SoundAlways, PTL

\* Whatever happens to the file, seq orders the outbox and the next one is new.
THEOREM OutboxSeqOrders == Spec => []SeqOrders
  <1>1. SoundInv => SeqOrders
    BY DEF SoundInv, Sound, SeqOrders
  <1> QED
    BY <1>1, SoundAlways, PTL

\* An acknowledged batch never comes back.
THEOREM OutboxAckIsFinal == Spec => []AckIsFinal
  <1>1. SoundInv => AckIsFinal
    BY DEF SoundInv, Sound, AckIsFinal
  <1> QED
    BY <1>1, SoundAlways, PTL

-------------------------------------------------------------------------------
(* Nothing is lost but what a limit takes, and what is in a file that      *)
(* could be neither read nor set aside.                                    *)

RetainedInv ==
    /\ SoundInv
    /\ MemoryIsDisk
    /\ Retained
    /\ ~running => batches = {}
    /\ disk.state # "corrupt" => disk.intact = disk.batches
    /\ abandoned \cap Fresh = {}

\* What a save keeps is in memory and in the file, the rest is given up to a limit.
LEMMA CommitRetains ==
    ASSUME NEW s, NEW bs, Commit(s, bs), abandoned \cap Ids(bs) = {}
    PROVE  /\ batches' = {b \in disk'.batches : b.id \notin abandoned}
           /\ disk'.intact = disk'.batches
           /\ Ids(bs) \subseteq Ids(disk'.batches) \cup Ids(bs \ Fit(bs))
  BY FitSubset DEF Commit, FileOf, Ids

LEMMA RetainedInit == Init => RetainedInv
  BY SoundInit DEF Init, RetainedInv, MemoryIsDisk, Retained, Fresh, Absent

LEMMA RetainedStep == RetainedInv /\ [Next]_outboxVars => RetainedInv'
  <1> SUFFICES ASSUME RetainedInv, [Next]_outboxVars PROVE RetainedInv'
    OBVIOUS
  <1>s. SoundInv /\ SoundInv'
    BY SoundStep DEF RetainedInv
  <1>t. TypeOK /\ TypeOK'
    BY <1>s DEF SoundInv
  <1>u. \A id \in Id \ Fresh :
          id \in acked \cup expired \cup abandoned \cup Ids(disk.batches) \cup Ids(quarantine)
    BY DEF RetainedInv, Retained
  <1>v. running => Ids(batches) \cap abandoned = {}
    BY DEF RetainedInv, MemoryIsDisk, Ids
  <1>w. running => Ids(disk.batches) \subseteq Ids(batches) \cup abandoned
    BY DEF RetainedInv, MemoryIsDisk, Ids
  <1>1. ASSUME NEW es \in SUBSET (Entry \ UNION {made[i] : i \in Id}), AppendBatch(es)
        PROVE  RetainedInv'
    <2>1. PICK id \in Fresh :
            LET b == [id |-> id, seq |-> seq + 1, created |-> now, entries |-> es]
                all == batches \cup {b}
            IN /\ Commit(seq + 1, all)
               /\ made' = [made EXCEPT ![id] = es]
               /\ expired' = expired \cup Ids(all \ Fit(all))
      BY <1>1 DEF AppendBatch
    <2> DEFINE b == [id |-> id, seq |-> seq + 1, created |-> now, entries |-> es]
               all == batches \cup {b}
    <2>2. running /\ UNCHANGED <<running, acked, quarantine, abandoned>>
      BY <1>1 DEF AppendBatch
    <2>3. Commit(seq + 1, all) /\ expired' = expired \cup Ids(all \ Fit(all))
      BY <2>1
    <2> HIDE DEF b
    <2>b. b.id = id
      BY DEF b
    <2>4. Ids(all) = Ids(batches) \cup {id}
      BY <2>b DEF Ids
    <2>5. id \notin abandoned
      BY DEF RetainedInv
    <2>6. Ids(all) \subseteq Ids(disk'.batches) \cup expired'
          /\ batches' = {c \in disk'.batches : c.id \notin abandoned}
          /\ disk'.intact = disk'.batches
      <3>1. abandoned \cap Ids(all) = {}
        BY <1>v, <2>2, <2>4, <2>5
      <3> HIDE DEF all
      <3> QED
        BY <2>3, <3>1, CommitRetains
    <2>7. \A i \in Id \ Fresh' : i = id \/ i \notin Fresh
      BY <1>t, <2>1 DEF Fresh, TypeOK
    <2>8. Fresh' \subseteq Fresh
      <3>1. es # {} /\ made \in [Id -> SUBSET Entry]
        BY <1>1, <1>t DEF AppendBatch, TypeOK
      <3> QED
        BY <2>1, <3>1 DEF Fresh
    <2>9. Retained'
      BY <1>u, <1>w, <2>2, <2>3, <2>4, <2>6, <2>7 DEF Retained
    <2> QED
      BY <1>s, <2>2, <2>6, <2>8, <2>9 DEF RetainedInv, MemoryIsDisk
  <1>2. ASSUME NEW id \in Id, Ack(id) PROVE RetainedInv'
    <2> DEFINE rest == {b \in batches : b.id # id}
    <2>1. /\ Commit(seq, rest) /\ expired' = expired \cup Ids(rest \ Fit(rest))
          /\ acked' = acked \cup {id}
          /\ running /\ UNCHANGED <<running, made, quarantine, abandoned>>
      BY <1>2 DEF Ack
    <2>2. Ids(batches) \subseteq Ids(rest) \cup {id} /\ Ids(rest) \subseteq Ids(batches)
      BY DEF Ids
    <2> HIDE DEF rest
    <2>3. Ids(rest) \subseteq Ids(disk'.batches) \cup expired'
          /\ batches' = {c \in disk'.batches : c.id \notin abandoned}
          /\ disk'.intact = disk'.batches
      BY <1>v, <2>1, <2>2, CommitRetains
    <2>4. Retained'
      BY <1>u, <1>w, <2>1, <2>2, <2>3 DEF Retained, Fresh
    <2> QED
      BY <1>s, <2>1, <2>3, <2>4 DEF RetainedInv, MemoryIsDisk, Fresh
  <1>3. CASE DropExpired
    <2>1. /\ Commit(seq, Kept) /\ expired' = expired \cup Ids(batches \ Fit(Kept))
          /\ running /\ UNCHANGED <<running, made, acked, quarantine, abandoned>>
      BY <1>3 DEF DropExpired
    <2>2. Ids(Kept) \subseteq Ids(batches)
      BY DEF Kept, Live, Ids
    <2>3. /\ batches' = {c \in disk'.batches : c.id \notin abandoned}
          /\ disk'.intact = disk'.batches
      BY <1>v, <2>1, <2>2, CommitRetains
    <2>4. Ids(batches) \subseteq Ids(Fit(Kept)) \cup Ids(batches \ Fit(Kept))
          /\ disk'.batches = Fit(Kept)
      BY <2>1 DEF Ids, Commit, FileOf
    <2>5. Retained'
      BY <1>u, <1>w, <2>1, <2>4 DEF Retained, Fresh
    <2> QED
      BY <1>s, <2>1, <2>3, <2>5 DEF RetainedInv, MemoryIsDisk, Fresh
  <1>4. CASE Load
    <2>1. made' = made /\ acked' = acked /\ expired' = expired /\ batches = {} /\ running'
      BY <1>4 DEF Load, RetainedInv
    <2>2. Ids(disk.batches) \cap Fresh = {}
      BY <1>s DEF SoundInv, Sound, Fresh, Ids
    <2>3. abandoned' \cap Fresh' = {}
      BY <1>4, <2>1, <2>2 DEF Load, RetainedInv, Fresh
    <2>4. CASE LoadSound /\ abandoned' = abandoned \ Ids(disk.batches)
      <3>1. Retained'
        BY <1>u, <2>1, <2>4 DEF LoadSound, Retained, Fresh
      <3>2. MemoryIsDisk'
        BY <2>4 DEF LoadSound, MemoryIsDisk, Ids
      <3> QED
        BY <1>s, <2>1, <2>3, <2>4, <3>1, <3>2 DEF LoadSound, RetainedInv
    <2>5. CASE (Salvage \/ NothingToSalvage) /\ abandoned' = abandoned \ Ids(disk.batches)
      <3>1. quarantine' = quarantine \cup disk.batches
        BY <2>5 DEF Salvage, NothingToSalvage
      <3>2. Ids(quarantine') = Ids(quarantine) \cup Ids(disk.batches)
        BY <3>1 DEF Ids
      <3>3. Retained'
        BY <1>u, <2>1, <2>5, <3>2 DEF Retained, Fresh
      <3>4. disk.intact \subseteq disk.batches
        BY <1>s DEF SoundInv
      <3>5. /\ batches' = disk'.batches /\ disk'.intact = disk'.batches
            /\ disk'.batches \subseteq disk.batches
        BY <2>1, <2>5, <3>4, FitSubset DEF Salvage, NothingToSalvage, FileOf, Absent
      <3>6. MemoryIsDisk'
        BY <2>5, <3>5 DEF MemoryIsDisk, Ids
      <3> QED
        BY <1>s, <2>1, <2>3, <3>3, <3>5, <3>6 DEF RetainedInv
    <2>6. CASE (LoadUnreadable \/ QuarantineFails)
               /\ abandoned' = abandoned \cup Ids(disk.batches)
      <3>1. UNCHANGED <<batches, disk, quarantine>>
        BY <2>6 DEF LoadUnreadable, QuarantineFails
      <3>2. Retained'
        BY <1>u, <2>1, <2>6, <3>1 DEF Retained, Fresh
      <3>3. MemoryIsDisk'
        BY <2>1, <2>6, <3>1 DEF MemoryIsDisk, Ids
      <3> QED
        BY <1>s, <2>1, <2>3, <3>1, <3>2, <3>3 DEF RetainedInv
    <2> QED
      BY <1>4, <2>4, <2>5, <2>6 DEF Load
  <1>5. CASE Crash
    BY <1>s, <1>u, <1>5 DEF Crash, RetainedInv, MemoryIsDisk, Retained, Fresh
  <1>6. CASE Corrupt
    <2>1. disk'.batches = disk.batches /\ disk'.state = "corrupt"
      BY <1>t, <1>6 DEF Corrupt, TypeOK, File
    <2> QED
      BY <1>s, <1>u, <1>6, <2>1 DEF Corrupt, RetainedInv, MemoryIsDisk, Retained, Fresh
  <1>7. CASE Tick \/ UNCHANGED outboxVars
    BY <1>s, <1>u, <1>7 DEF Tick, outboxVars, RetainedInv, MemoryIsDisk, Retained, Fresh
  <1> QED
    BY <1>1, <1>2, <1>3, <1>4, <1>5, <1>6, <1>7 DEF Next

LEMMA RetainedAlways == Spec => []RetainedInv
  BY RetainedInit, RetainedStep, PTL DEF Spec

\* A batch that was created is not lost to a crash, a damaged file or a failed save.
THEOREM OutboxRetained == Spec => []Retained
  <1>1. RetainedInv => Retained
    BY DEF RetainedInv
  <1> QED
    BY <1>1, RetainedAlways, PTL

\* And memory never runs ahead of the file.
THEOREM OutboxMemoryIsDisk == Spec => []MemoryIsDisk
  <1>1. RetainedInv => MemoryIsDisk
    BY DEF RetainedInv
  <1> QED
    BY <1>1, RetainedAlways, PTL
-------------------------------------------------------------------------------
(* What a limit takes is older than everything that stays.                 *)

\* A store is a finite set in which an id occurs once, and seq orders it as time does.
Ordered(bs) ==
    /\ IsFiniteSet(bs)
    /\ \A b, c \in bs : b.id = c.id => b = c
    /\ \A b, c \in bs : b.seq < c.seq => b.created <= c.created
    /\ \A b \in bs : b.created <= now

OrderedInv ==
    /\ SoundInv
    /\ Ordered(batches)
    /\ Ordered(disk.batches)

LEMMA OrderedSubset ==
    ASSUME NEW bs, NEW cs \in SUBSET bs, Ordered(bs)
    PROVE  Ordered(cs)
  BY FS_Subset DEF Ordered

\* A newer batch weighs no more than an older one, in entries and in batches.
LEMMA FromShrinks ==
    ASSUME NEW bs \in SUBSET Batch, IsFiniteSet(bs), NEW b \in bs, NEW c \in bs,
           c.seq <= b.seq
    PROVE  /\ From(bs, b) \subseteq From(bs, c)
           /\ Bytes(From(bs, b)) \in Nat /\ Bytes(From(bs, c)) \in Nat
           /\ Bytes(From(bs, b)) <= Bytes(From(bs, c))
           /\ Cardinality(From(bs, b)) \in Nat /\ Cardinality(From(bs, c)) \in Nat
           /\ Cardinality(From(bs, b)) <= Cardinality(From(bs, c))
  <1>1. From(bs, b) \subseteq From(bs, c)
    BY DEF From, Batch
  <1>2. From(bs, c) \subseteq bs
    BY DEF From
  <1>3. IsFiniteSet(From(bs, c))
    BY <1>2, FS_Subset
  <1> DEFINE E(x) == UNION {d.entries : d \in From(bs, x)}
  <1>4. E(b) \subseteq E(c) /\ E(c) \subseteq Entry
    BY <1>1, <1>2 DEF Batch
  <1>5. IsFiniteSet(E(c))
    BY <1>4, FS_Subset, OutboxAssumption
  <1> HIDE DEF E
  <1>6. /\ Cardinality(E(b)) \in Nat /\ Cardinality(E(c)) \in Nat
        /\ Cardinality(E(b)) <= Cardinality(E(c))
    BY <1>4, <1>5, FS_Subset, FS_CardinalityType
  <1>7. /\ Cardinality(From(bs, b)) \in Nat /\ Cardinality(From(bs, c)) \in Nat
        /\ Cardinality(From(bs, b)) <= Cardinality(From(bs, c))
    BY <1>1, <1>3, FS_Subset, FS_CardinalityType
  <1> QED
    BY <1>1, <1>6, <1>7 DEF E, Bytes

\* saveLocked gives up the oldest.
LEMMA FitKeepsNewest ==
    ASSUME NEW bs \in SUBSET Batch, IsFiniteSet(bs), NEW b \in bs \ Fit(bs),
           NEW c \in Fit(bs)
    PROVE  b.seq < c.seq
  <1>1. c \in bs /\ b.seq \in Nat /\ c.seq \in Nat
    BY DEF Fit, Batch
  <1> SUFFICES ASSUME c.seq <= b.seq PROVE FALSE
    BY <1>1
  <1>2. From(bs, b) \subseteq From(bs, c) /\ Bytes(From(bs, b)) <= Bytes(From(bs, c))
        /\ Bytes(From(bs, b)) \in Nat /\ Bytes(From(bs, c)) \in Nat
    BY <1>1, FromShrinks
  <1>3. CASE Bytes(From(bs, c)) <= MaxBytes
    BY <1>2, <1>3, OutboxAssumption DEF Fit
  <1>4. CASE From(bs, c) = {c}
    <2>1. b \in From(bs, b)
      BY <1>1 DEF From
    <2>2. b = c
      BY <1>2, <1>4, <2>1
    <2> QED
      BY <2>2
  <1> QED
    BY <1>3, <1>4 DEF Fit

\* DropExpired gives up the oldest: by age, and then by number.
LEMMA KeptIsNewest ==
    ASSUME OrderedInv, NEW b \in batches \ Kept, NEW c \in Kept
    PROVE  b.seq < c.seq
  <1>0. TypeOK /\ Ordered(batches) /\ Sound(made, acked, batches, seq)
    BY DEF OrderedInv, SoundInv
  <1>1. /\ c \in Live /\ c \in batches /\ b.seq \in Nat /\ c.seq \in Nat
        /\ b.created \in Int /\ c.created \in Int
    BY <1>0 DEF Kept, Live, TypeOK, Batch
  <1>2. now \in Int /\ MaxAge \in Nat /\ MaxBatches \in Nat
    BY <1>0, OutboxAssumption DEF TypeOK
  <1>3. CASE b \notin Live
    <2>1. b.created < c.created
      BY <1>1, <1>2, <1>3 DEF Live
    <2>2. ~(c.seq < b.seq)
      BY <1>0, <1>1, <2>1 DEF Ordered
    <2>3. b.seq # c.seq
      BY <1>0, <1>1, <2>1 DEF Sound
    <2> QED
      BY <1>1, <2>2, <2>3
  <1>4. CASE b \in Live
    <2> SUFFICES ASSUME c.seq <= b.seq PROVE FALSE
      BY <1>1
    <2>1. Live \subseteq batches /\ Live \in SUBSET Batch
      BY <1>0 DEF Live, TypeOK
    <2>2. IsFiniteSet(Live)
      BY <1>0, <2>1, FS_Subset DEF Ordered
    <2>3. Cardinality(From(Live, b)) <= Cardinality(From(Live, c))
          /\ Cardinality(From(Live, b)) \in Nat /\ Cardinality(From(Live, c)) \in Nat
      BY <1>1, <1>4, <2>1, <2>2, FromShrinks
    <2> QED
      BY <1>2, <1>4, <2>3 DEF Kept
  <1> QED
    BY <1>3, <1>4

LEMMA OrderedInit == Init => OrderedInv
  BY SoundInit, FS_EmptySet DEF Init, OrderedInv, Ordered, Absent

LEMMA OrderedStep == OrderedInv /\ [Next]_outboxVars => OrderedInv'
  <1> SUFFICES ASSUME OrderedInv, [Next]_outboxVars PROVE OrderedInv'
    OBVIOUS
  <1>s. SoundInv /\ SoundInv'
    BY SoundStep DEF OrderedInv
  <1>t. TypeOK /\ now \in Nat
    BY <1>s DEF SoundInv, TypeOK
  <1>o. Ordered(batches) /\ Ordered(disk.batches)
    BY DEF OrderedInv
  <1>k. ASSUME NEW bs, Ordered(bs), now' = now, batches' \subseteq bs, disk'.batches \subseteq bs
        PROVE  OrderedInv'
    <2>1. /\ IsFiniteSet(batches') /\ IsFiniteSet(disk'.batches)
      BY <1>k, FS_Subset DEF Ordered
    <2> QED
      BY <1>s, <1>k, <2>1 DEF OrderedInv, Ordered
  <1>1. ASSUME NEW es \in SUBSET (Entry \ UNION {made[i] : i \in Id}), AppendBatch(es)
        PROVE  OrderedInv'
    <2>1. PICK id \in Fresh :
            Commit(seq + 1, batches \cup
                     {[id |-> id, seq |-> seq + 1, created |-> now, entries |-> es]})
      BY <1>1 DEF AppendBatch
    <2> DEFINE b == [id |-> id, seq |-> seq + 1, created |-> now, entries |-> es]
               all == batches \cup {b}
    <2>2. b.id = id /\ b.seq = seq + 1 /\ b.created = now
      OBVIOUS
    <2> HIDE DEF b
    <2>3. \A c \in batches : c.id # id /\ c.seq <= seq /\ c.seq \in Nat /\ c.created <= now
      BY <1>s, <1>o DEF SoundInv, Sound, TypeOK, Batch, Fresh, Ordered
    <2>4. IsFiniteSet(all)
      BY <1>o, FS_AddElement DEF Ordered
    <2>5. seq \in Nat
      BY <1>t DEF TypeOK
    <2>6. Ordered(all)
      BY <1>o, <1>t, <2>2, <2>3, <2>4, <2>5 DEF Ordered
    <2>7. Commit(seq + 1, all) /\ now' = now
      BY <1>1, <2>1 DEF AppendBatch, b
    <2> HIDE DEF all
    <2> QED
      BY <1>k, <2>6, <2>7, FitSubset DEF Commit, FileOf
  <1>2. ASSUME NEW id \in Id, Ack(id) PROVE OrderedInv'
    BY <1>o, <1>k, <1>2, FitSubset DEF Ack, Commit, FileOf
  <1>3. CASE DropExpired
    BY <1>o, <1>k, <1>3, FitSubset DEF DropExpired, Commit, FileOf, Kept, Live
  <1>4. CASE Load
    <2>1. now' = now
      BY <1>4 DEF Load
    <2>2. CASE LoadSound
      BY <1>o, <1>k, <2>1, <2>2 DEF LoadSound
    <2>3. CASE LoadUnreadable \/ QuarantineFails
      BY <1>s, <1>o, <2>1, <2>3 DEF LoadUnreadable, QuarantineFails, OrderedInv, Ordered
    <2>4. CASE Salvage
      <3>1. disk.intact \subseteq disk.batches
        BY <1>s DEF SoundInv
      <3>2. batches' \subseteq disk.batches /\ disk'.batches \subseteq disk.batches
        BY <2>4, <3>1, FitSubset DEF Salvage, FileOf, Absent
      <3> QED
        BY <1>o, <1>k, <2>1, <3>2
    <2>5. CASE NothingToSalvage
      <3>1. disk'.batches = {} /\ batches' = batches
        BY <2>5 DEF NothingToSalvage, Absent
      <3> QED
        BY <1>o, <1>k, <2>1, <3>1
    <2> QED
      BY <1>4, <2>2, <2>3, <2>4, <2>5 DEF Load
  <1>5. CASE Crash
    BY <1>o, <1>k, <1>5 DEF Crash
  <1>6. CASE Corrupt
    <2>1. disk'.batches = disk.batches /\ batches' = batches /\ now' = now
      BY <1>t, <1>6 DEF Corrupt, TypeOK, File
    <2> QED
      BY <1>s, <1>o, <2>1 DEF OrderedInv, Ordered
  <1>7. CASE Tick
    <2>1. \A b \in batches \cup disk.batches : b.created \in Int
      BY <1>t DEF TypeOK, Batch, File
    <2> QED
      BY <1>s, <1>o, <1>t, <1>7, <2>1 DEF Tick, OrderedInv, Ordered
  <1>8. CASE UNCHANGED outboxVars
    BY <1>s, <1>o, <1>8 DEF outboxVars, OrderedInv, Ordered
  <1> QED
    BY <1>1, <1>2, <1>3, <1>4, <1>5, <1>6, <1>7, <1>8 DEF Next

LEMMA OrderedAlways == Spec => []OrderedInv
  BY OrderedInit, OrderedStep, PTL DEF Spec

TakesOldest ==
    /\ expired' \ expired \subseteq Ids(batches)
    /\ \A b \in batches : b.id \in expired' \ expired =>
           \A c \in batches' : b.seq < c.seq

\* One step: what is new among the expired are the ids of batches that were there and
\* are older than what stays.
LEMMA TakesOldestStep == OrderedInv /\ [Next]_outboxVars => TakesOldest
  <1> SUFFICES ASSUME OrderedInv, [Next]_outboxVars PROVE TakesOldest
    OBVIOUS
  <1>s. TypeOK /\ Sound(made, acked, batches, seq) /\ Ordered(batches)
    BY DEF OrderedInv, SoundInv
  <1>1. ASSUME NEW bs \in SUBSET batches, NEW kept \in SUBSET bs, batches' = kept,
               expired' = expired \cup Ids(bs \ kept),
               \A b \in bs \ kept, c \in kept : b.seq < c.seq
        PROVE  TakesOldest
    BY <1>s, <1>1 DEF TakesOldest, Ids, Ordered
  <1>2. ASSUME NEW es \in SUBSET (Entry \ UNION {made[i] : i \in Id}), AppendBatch(es)
        PROVE  TakesOldest
    <2>1. PICK id \in Fresh :
            LET b == [id |-> id, seq |-> seq + 1, created |-> now, entries |-> es]
                all == batches \cup {b}
            IN /\ Commit(seq + 1, all)
               /\ expired' = expired \cup Ids(all \ Fit(all))
      BY <1>2 DEF AppendBatch
    <2> DEFINE b == [id |-> id, seq |-> seq + 1, created |-> now, entries |-> es]
               all == batches \cup {b}
    <2>2. b.id = id /\ b.seq = seq + 1
      OBVIOUS
    <2>3. all \in SUBSET Batch
      BY <1>2, <1>s DEF TypeOK, Batch, Fresh
    <2>4. batches' = Fit(all) /\ expired' = expired \cup Ids(all \ Fit(all))
      BY <2>1 DEF Commit
    <2> HIDE DEF b
    <2>5. IsFiniteSet(all)
      BY <1>s, FS_AddElement DEF Ordered
    <2>6. \A c \in batches : c.seq <= seq /\ c.seq \in Nat /\ c.id # id
      BY <1>s DEF Sound, TypeOK, Batch, Fresh
    <2>7. From(all, b) = {b}
      BY <1>s, <2>2, <2>6 DEF From, TypeOK
    <2>8. b \in Fit(all)
      BY <2>7 DEF Fit
    <2> HIDE DEF all
    <2>9. \A d \in all \ Fit(all), c \in Fit(all) : d.seq < c.seq
      BY <2>3, <2>5, FitKeepsNewest
    <2> QED
      <3>1. all \ Fit(all) \subseteq batches
        BY <2>8 DEF all
      <3> QED
        BY <1>s, <2>4, <2>9, <3>1 DEF TakesOldest, Ids, Ordered
  <1>3. ASSUME NEW id \in Id, Ack(id) PROVE TakesOldest
    <2> DEFINE rest == {b \in batches : b.id # id}
    <2>1. batches' = Fit(rest) /\ expired' = expired \cup Ids(rest \ Fit(rest))
      BY <1>3 DEF Ack, Commit
    <2>2. rest \subseteq batches /\ rest \in SUBSET Batch /\ Fit(rest) \subseteq rest
      BY <1>s, FitSubset DEF TypeOK
    <2> HIDE DEF rest
    <2>3. IsFiniteSet(rest)
      BY <1>s, <2>2, FS_Subset DEF Ordered
    <2>4. \A d \in rest \ Fit(rest), c \in Fit(rest) : d.seq < c.seq
      BY <2>2, <2>3, FitKeepsNewest
    <2> QED
      BY <1>1, <2>1, <2>2, <2>4
  <1>4. CASE DropExpired
    <2>1. batches' = Fit(Kept) /\ expired' = expired \cup Ids(batches \ Fit(Kept))
      BY <1>4 DEF DropExpired, Commit
    <2>2. Kept \subseteq batches /\ Kept \in SUBSET Batch /\ Fit(Kept) \subseteq Kept
      BY <1>s, FitSubset DEF TypeOK, Kept, Live
    <2>3. IsFiniteSet(Kept)
      BY <1>s, <2>2, FS_Subset DEF Ordered
    <2>4. \A d \in batches \ Fit(Kept), c \in Fit(Kept) : d.seq < c.seq
      BY <2>2, <2>3, FitKeepsNewest, KeptIsNewest
    <2> QED
      BY <1>1, <2>1, <2>2, <2>4
  <1>5. CASE Load \/ Crash \/ Corrupt \/ Tick \/ UNCHANGED outboxVars
    <2>1. expired' = expired
      BY <1>5 DEF Load, Crash, Corrupt, Tick, outboxVars
    <2> QED
      BY <2>1 DEF TakesOldest
  <1> QED
    BY <1>2, <1>3, <1>4, <1>5 DEF Next

\* A limit takes the oldest batches, and never the one that is being added: for any
\* limits, and also after a salvage has restored the counter from what was left.
THEOREM OutboxLimitsTakeOldest == Spec => LimitsTakeOldest
  <1>1. OrderedInv /\ [Next]_outboxVars => [TakesOldest]_outboxVars
    BY TakesOldestStep
  <1> QED
    BY <1>1, OrderedAlways, PTL DEF Spec, LimitsTakeOldest, TakesOldest
===============================================================================
