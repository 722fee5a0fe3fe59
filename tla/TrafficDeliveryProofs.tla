------------------------- MODULE TrafficDeliveryProofs -------------------------
(***************************************************************************)
(* Theorems about TrafficDelivery, for every value of its constants.       *)
(***************************************************************************)
EXTENDS TrafficRefinement, OutboxProofs, SequenceTheorems

\* A batch being sent exists, and c.ws belongs to some connection.
Positions ==
    /\ rpc \in {"send", "sent"} => picked \in Id /\ left > 0
    /\ phase # "down" => conn \in Conn

\* Only what a master booked is answered with ok = true, and only that, or what
\* was sent to a master that does not answer, is deleted.
AckMeansBooked ==
    /\ \A r \in ledger : r[1] \in committed
    /\ \A i \in DOMAIN down : down[i].ok => down[i].id \in committed
    /\ acked \subseteq committed \cup blind

DeliveryInv == DeliveryTypeOK /\ Positions /\ EntryInOnePlace /\ AckMeansBooked

-------------------------------------------------------------------------------
(* Frames in order.                                                        *)

LEMMA QueueHead ==
    ASSUME NEW S, NEW q \in Seq(S), q # <<>>
    PROVE  /\ Head(q) \in S /\ Tail(q) \in Seq(S)
           /\ 1 \in DOMAIN q /\ Head(q) = q[1]
           /\ \A i \in DOMAIN Tail(q) : \E j \in DOMAIN q : Tail(q)[i] = q[j]
  <1>1. /\ Head(q) \in S /\ Tail(q) \in Seq(S) /\ Len(Tail(q)) = Len(q) - 1
        /\ \A i \in 1..Len(Tail(q)) : Tail(q)[i] = q[i + 1]
    BY HeadTailProperties
  <1>2. /\ Len(q) \in Nat \ {0} /\ DOMAIN q = 1..Len(q)
        /\ DOMAIN Tail(q) = 1..Len(Tail(q))
    BY <1>1, LenProperties, EmptySeq
  <1>3. Head(q) = q[1]
    OBVIOUS
  <1> QED
    BY <1>1, <1>2, <1>3

LEMMA QueueAppend ==
    ASSUME NEW S, NEW q \in Seq(S), NEW e \in S
    PROVE  /\ Append(q, e) \in Seq(S)
           /\ \A i \in DOMAIN Append(q, e) :
                 Append(q, e)[i] = e \/ \E j \in DOMAIN q : Append(q, e)[i] = q[j]
  OBVIOUS

-------------------------------------------------------------------------------
LEMMA DeliveryInvInit == DeliveryInit => DeliveryInv
  <1> SUFFICES ASSUME DeliveryInit PROVE DeliveryInv
    OBVIOUS
  <1>1. TypeOK
    BY TypeInit DEF DeliveryInit
  <1>2. up \in [Conn -> Seq(Id)] /\ down \in Seq(Answer) /\ cap \in [Conn -> BOOLEAN]
    BY DeliveryAssumption DEF DeliveryInit
  <1>3. billed \in [Entry -> 0..2]
    BY DEF DeliveryInit
  <1>4. /\ rpc \in RpcState /\ phase \in Phase
        /\ left \in 0..BatchesPerTick /\ conn \in 0..MaxConns /\ faults \in 0..MaxFaults
    BY DeliveryAssumption DEF DeliveryInit, RpcState, Phase
  <1>5. DeliveryTypeOK
    BY <1>1, <1>2, <1>3, <1>4 DEF DeliveryInit, DeliveryTypeOK
  <1>6. EntryInOnePlace
    BY DEF DeliveryInit, Init, EntryInOnePlace
  <1>7. Positions /\ AckMeansBooked
    BY DEF DeliveryInit, Init, Positions, AckMeansBooked
  <1> QED
    BY <1>5, <1>6, <1>7 DEF DeliveryInv

\* The outbox sees the agent only through its operations.
LEMMA OutboxStep == DeliveryInv /\ [DeliveryNext]_vars => [Next]_outboxVars
  <1> SUFFICES ASSUME DeliveryInv, [DeliveryNext]_vars PROVE [Next]_outboxVars
    OBVIOUS
  <1>1. CASE FlushDone
    <2>1. flight \in SUBSET (Entry \ UNION {made[i] : i \in Id})
      BY DEF DeliveryInv, DeliveryTypeOK, EntryInOnePlace, Stored
    <2> QED
      BY <1>1, <2>1 DEF FlushDone, Next
  <1>2. CASE DropStep
    BY <1>2 DEF DropStep, Next
  <1>3. CASE DeleteSent
    <2>1. picked \in Id
      BY <1>3 DEF DeleteSent, DeliveryInv, Positions
    <2> QED
      BY <1>3, <2>1 DEF DeleteSent, Next
  <1>4. CASE HandleAck
    <2>1. Head(down) \in Answer
      BY <1>4, QueueHead DEF HandleAck, DeliveryInv, DeliveryTypeOK
    <2>2. Head(down).id \in Id
      BY <2>1 DEF Answer
    <2> QED
      BY <1>4, <2>2 DEF HandleAck, Next
  <1>5. CASE Stop \/ Restart \/ Day
    BY <1>5 DEF Stop, Restart, Day, Next
  <1>6. CASE Collect
    BY <1>6 DEF Collect
  <1>7. CASE StartReport \/ FlushFails \/ CheckConnected \/ PickOldest \/ EndRound
             \/ SendBatch \/ SendFails \/ CloseAfterFailure \/ MarkSent
    BY <1>7 DEF StartReport, FlushFails, CheckConnected, PickOldest, EndRound,
                SendBatch, SendFails, CloseAfterFailure, MarkSent
  <1>8. CASE Dial \/ SendAuth \/ AuthOK \/ ResetSent \/ Disconnect \/ HandleNack
    BY <1>8 DEF Dial, SendAuth, AuthOK, ResetSent, Disconnect, HandleNack
  <1>9. CASE Master \/ BreakSocket
    BY <1>9 DEF Master, MasterBooks, MasterRefuses, OldMasterAdds, MasterForgets,
                LoseFrames, BreakSocket
  <1>10. CASE UNCHANGED vars
    BY <1>10 DEF vars
  <1> QED
    BY <1>1, <1>2, <1>3, <1>4, <1>5, <1>6, <1>7, <1>8, <1>9, <1>10
    DEF DeliveryNext, ReportLoop, Connection

\* The types but for those of the outbox.
AgentTypeOK ==
    /\ pending \subseteq Entry /\ flight \subseteq Entry
    /\ rpc \in RpcState /\ picked \in Id \cup {NoId}
    /\ left \in 0..BatchesPerTick /\ drainAck \in BOOLEAN
    /\ kick \in BOOLEAN
    /\ phase \in Phase /\ conn \in 0..MaxConns
    /\ alive \in BOOLEAN /\ ackMode \in BOOLEAN
    /\ sent \subseteq Id
    /\ blind \subseteq Id /\ vanished \subseteq Entry
    /\ faults \in 0..MaxFaults

WorldTypeOK ==
    /\ up \in [Conn -> Seq(Id)] /\ down \in Seq(Answer)
    /\ cap \in [Conn -> BOOLEAN]
    /\ ledger \subseteq Id \X (0..MaxTime) /\ committed \subseteq Id
    /\ billed \in [Entry -> 0..2]

LEMMA TypeParts == DeliveryTypeOK <=> TypeOK /\ AgentTypeOK /\ WorldTypeOK
  BY DEF DeliveryTypeOK, AgentTypeOK, WorldTypeOK

\* The agent's half: the loops, and what a stop does to them.
LEMMA AgentTypeStep ==
    DeliveryInv /\ [DeliveryNext]_vars => AgentTypeOK' /\ Positions'
  <1> SUFFICES ASSUME DeliveryInv, [DeliveryNext]_vars PROVE AgentTypeOK' /\ Positions'
    OBVIOUS
  <1>a. AgentTypeOK /\ Positions /\ TypeOK
    BY TypeParts DEF DeliveryInv
  <1>b. ASSUME Fault PROVE faults' \in 0..MaxFaults
    BY <1>a, <1>b, DeliveryAssumption DEF Fault, AgentTypeOK
  <1>c. BatchesPerTick \in Nat \ {0} /\ MaxConns \in Nat
    BY DeliveryAssumption
  <1> USE DEF AgentTypeOK, Positions, RpcState, Phase, loopVars, connVars, memVars,
              histVars
  <1>1. CASE Collect
    BY <1>a, <1>1 DEF Collect
  <1>2. CASE StartReport \/ FlushDone \/ CheckConnected \/ EndRound \/ SendBatch
             \/ SendFails \/ CloseAfterFailure \/ MarkSent
    <2>1. CASE StartReport
      BY <1>a, <2>1 DEF StartReport
    <2>2. CASE FlushDone
      BY <1>a, <2>2 DEF FlushDone
    <2>3. CASE CheckConnected
      BY <1>a, <1>c, <2>3 DEF CheckConnected
    <2>4. CASE EndRound
      BY <1>a, <2>4 DEF EndRound
    <2>5. CASE SendBatch
      BY <1>a, <2>5 DEF SendBatch
    <2>6. CASE SendFails
      BY <1>a, <2>6 DEF SendFails
    <2>7. CASE CloseAfterFailure
      BY <1>a, <2>7 DEF CloseAfterFailure
    <2>8. CASE MarkSent
      BY <1>a, <1>c, <2>8 DEF MarkSent
    <2> QED
      BY <1>2, <2>1, <2>2, <2>3, <2>4, <2>5, <2>6, <2>7, <2>8
  <1>3. CASE FlushFails
    BY <1>a, <1>b, <1>3 DEF FlushFails
  <1>4. CASE DropStep
    BY <1>a, <1>b, <1>4 DEF DropStep
  <1>5. CASE PickOldest
    <2>1. picked' \in Id
      BY <1>a, <1>5 DEF PickOldest, Unsent, TypeOK, Batch
    <2> QED
      BY <1>a, <1>5, <2>1 DEF PickOldest
  <1>6. CASE DeleteSent
    BY <1>a, <1>b, <1>c, <1>6 DEF DeleteSent
  <1>7. CASE Dial \/ SendAuth \/ ResetSent \/ Disconnect \/ HandleNack
    <2>1. CASE Dial
      BY <1>a, <1>c, <2>1 DEF Dial, Conn
    <2>2. CASE SendAuth \/ ResetSent
      BY <1>a, <2>2 DEF SendAuth, ResetSent
    <2>3. CASE Disconnect
      BY <1>a, <2>3 DEF Disconnect
    <2>4. CASE HandleNack
      BY <1>a, <2>4 DEF HandleNack
    <2> QED
      BY <1>7, <2>1, <2>2, <2>3, <2>4
  <1>8. CASE AuthOK
    <2>1. ackMode' \in BOOLEAN
      BY <1>a, <1>8 DEF AuthOK, DeliveryInv, DeliveryTypeOK
    <2> QED
      BY <1>a, <1>8, <2>1 DEF AuthOK
  <1>9. CASE HandleAck
    BY <1>a, <1>b, <1>9 DEF HandleAck
  <1>10. CASE Master
    <2>1. ASSUME NEW c \in Conn, MasterBooks(c) PROVE AgentTypeOK' /\ Positions'
      BY <1>a, <2>1 DEF MasterBooks
    <2>2. ASSUME NEW c \in Conn, MasterRefuses(c) PROVE AgentTypeOK' /\ Positions'
      BY <1>a, <1>b, <2>2 DEF MasterRefuses
    <2>3. ASSUME NEW c \in Conn, OldMasterAdds(c) PROVE AgentTypeOK' /\ Positions'
      BY <1>a, <2>3 DEF OldMasterAdds
    <2>4. ASSUME NEW c \in Conn, LoseFrames(c) PROVE AgentTypeOK' /\ Positions'
      BY <1>a, <2>4 DEF LoseFrames
    <2>5. CASE MasterForgets
      BY <1>a, <2>5 DEF MasterForgets
    <2> QED
      BY <1>10, <2>1, <2>2, <2>3, <2>4, <2>5 DEF Master
  <1>11. CASE BreakSocket
    BY <1>a, <1>b, <1>11 DEF BreakSocket
  <1>12. CASE Stop
    <2>1. /\ faults' \in 0..MaxFaults /\ vanished' = vanished \cup pending \cup flight
          /\ pending' = {} /\ flight' = {} /\ sent' = {}
          /\ rpc' = "idle" /\ picked' = NoId /\ left' = 0 /\ drainAck' = FALSE
          /\ kick' = FALSE /\ phase' = "down" /\ alive' = FALSE /\ ackMode' = FALSE
          /\ conn' = conn /\ blind' = blind
      BY <1>b, <1>12 DEF Stop
    <2>2. left' \in 0..BatchesPerTick /\ rpc' \in RpcState /\ phase' \in Phase
      BY <1>c, <2>1
    <2> QED
      BY <1>a, <2>1, <2>2
  <1>13. CASE Restart \/ Day
    BY <1>a, <1>13 DEF Restart, Day
  <1>14. CASE UNCHANGED vars
    BY <1>a, <1>14 DEF vars
  <1> QED
    BY <1>1, <1>2, <1>3, <1>4, <1>5, <1>6, <1>7, <1>8, <1>9, <1>10, <1>11, <1>12,
       <1>13, <1>14 DEF DeliveryNext, ReportLoop, Connection

\* What a master does to its books.
LEMMA BookType ==
    ASSUME NEW id, billed \in [Entry -> 0..2], Book(id) PROVE billed' \in [Entry -> 0..2]
  BY DEF Book

LEMMA ReplyType ==
    ASSUME NEW c, NEW id \in Id, NEW ok \in BOOLEAN, down \in Seq(Answer), Reply(c, id, ok)
    PROVE  down' \in Seq(Answer)
  <1>1. [id |-> id, ok |-> ok] \in Answer
    BY DEF Answer
  <1> QED
    BY <1>1 DEF Reply

LEMMA UpTail ==
    ASSUME NEW c \in Conn, up \in [Conn -> Seq(Id)], up[c] # <<>>,
           up' = [up EXCEPT ![c] = Tail(@)]
    PROVE  up' \in [Conn -> Seq(Id)] /\ Head(up[c]) \in Id
  <1>1. Tail(up[c]) \in Seq(Id) /\ Head(up[c]) \in Id
    BY QueueHead
  <1> QED
    BY <1>1

\* The world's half: the network and the masters.
LEMMA WorldTypeStep == DeliveryInv /\ [DeliveryNext]_vars => WorldTypeOK'
  <1> SUFFICES ASSUME DeliveryInv, [DeliveryNext]_vars PROVE WorldTypeOK'
    OBVIOUS
  <1>a. AgentTypeOK /\ WorldTypeOK /\ Positions /\ TypeOK
    BY TypeParts DEF DeliveryInv
  <1>b. <<>> \in Seq(Answer)
    OBVIOUS
  <1> USE DEF WorldTypeOK, ledgerVars, netVars
  <1>1. CASE SendBatch
    <2>1. picked \in Id /\ conn \in Conn
      BY <1>a, <1>1 DEF SendBatch, Positions
    <2>2. Append(up[conn], picked) \in Seq(Id)
      BY <1>a, <2>1
    <2>3. up' = up \/ up' = [up EXCEPT ![conn] = Append(up[conn], picked)]
      BY <1>1 DEF SendBatch
    <2>4. up' \in [Conn -> Seq(Id)]
      BY <1>a, <2>1, <2>2, <2>3
    <2> QED
      BY <1>a, <1>1, <2>4 DEF SendBatch
  <1>2. CASE Dial \/ Disconnect \/ Stop
    BY <1>a, <1>b, <1>2 DEF Dial, Disconnect, Stop
  <1>3. CASE HandleNack \/ HandleAck
    <2>1. down # <<>> /\ down' = Tail(down)
      BY <1>3 DEF HandleNack, HandleAck
    <2>2. down' \in Seq(Answer)
      BY <1>a, <2>1, QueueHead
    <2> QED
      BY <1>a, <1>3, <2>2 DEF HandleNack, HandleAck
  <1>4. ASSUME NEW c \in Conn, MasterBooks(c) PROVE WorldTypeOK'
    <2>1. up' \in [Conn -> Seq(Id)] /\ Head(up[c]) \in Id
      BY <1>a, <1>4, UpTail DEF MasterBooks
    <2>2. down' \in Seq(Answer)
      BY <1>a, <1>4, <2>1, ReplyType DEF MasterBooks
    <2>3. billed' \in [Entry -> 0..2]
      BY <1>a, <1>4, BookType DEF MasterBooks
    <2>4. <<Head(up[c]), now>> \in Id \X (0..MaxTime)
      BY <1>a, <2>1 DEF TypeOK
    <2>5. ledger' \subseteq Id \X (0..MaxTime) /\ committed' \subseteq Id
      BY <1>a, <1>4, <2>1, <2>4 DEF MasterBooks
    <2> QED
      BY <1>a, <1>4, <2>1, <2>2, <2>3, <2>5 DEF MasterBooks
  <1>5. ASSUME NEW c \in Conn, MasterRefuses(c) PROVE WorldTypeOK'
    <2>1. up' \in [Conn -> Seq(Id)] /\ Head(up[c]) \in Id
      BY <1>a, <1>5, UpTail DEF MasterRefuses
    <2>2. down' \in Seq(Answer)
      BY <1>a, <1>5, <2>1, ReplyType DEF MasterRefuses
    <2> QED
      BY <1>a, <1>5, <2>1, <2>2 DEF MasterRefuses
  <1>6. ASSUME NEW c \in Conn, OldMasterAdds(c) PROVE WorldTypeOK'
    <2>1. up' \in [Conn -> Seq(Id)] /\ Head(up[c]) \in Id
      BY <1>a, <1>6, UpTail DEF OldMasterAdds
    <2>2. billed' \in [Entry -> 0..2]
      BY <1>a, <1>6, BookType DEF OldMasterAdds
    <2> QED
      BY <1>a, <1>6, <2>1, <2>2 DEF OldMasterAdds
  <1>7. ASSUME NEW c \in Conn, LoseFrames(c) PROVE WorldTypeOK'
    <2>1. up' \in [Conn -> Seq(Id)]
      BY <1>a, <1>7 DEF LoseFrames
    <2> QED
      BY <1>a, <1>7, <2>1 DEF LoseFrames
  <1>8. CASE MasterForgets
    BY <1>a, <1>8 DEF MasterForgets
  <1>9. CASE Collect \/ StartReport \/ FlushDone \/ FlushFails \/ DropStep \/ CheckConnected
             \/ PickOldest \/ EndRound \/ SendFails \/ CloseAfterFailure
             \/ MarkSent \/ DeleteSent
    BY <1>a, <1>9 DEF Collect, StartReport, FlushDone, FlushFails, DropStep, CheckConnected,
       PickOldest, EndRound, SendFails, CloseAfterFailure, MarkSent, DeleteSent
  <1>10. CASE SendAuth \/ AuthOK \/ ResetSent \/ BreakSocket \/ Restart \/ Day
    BY <1>a, <1>10 DEF SendAuth, AuthOK, ResetSent, BreakSocket, Restart, Day
  <1>11. CASE UNCHANGED vars
    BY <1>a, <1>11 DEF vars
  <1> QED
    BY <1>1, <1>2, <1>3, <1>4, <1>5, <1>6, <1>7, <1>8, <1>9, <1>10, <1>11
    DEF DeliveryNext, ReportLoop, Connection, Master

-------------------------------------------------------------------------------
(* Where an entry is.                                                      *)

LEMMA PlaceStep == DeliveryInv /\ [DeliveryNext]_vars => EntryInOnePlace'
  <1> SUFFICES ASSUME DeliveryInv, [DeliveryNext]_vars PROVE EntryInOnePlace'
    OBVIOUS
  <1>a. /\ EntryInOnePlace /\ pending \subseteq Entry /\ flight \subseteq Entry
        /\ made \in [Id -> SUBSET Entry]
    BY DEF DeliveryInv, DeliveryTypeOK, TypeOK
  <1>1. CASE Collect
    BY <1>a, <1>1 DEF Collect, EntryInOnePlace, Seen, Stored, outboxVars
  <1>2. CASE StartReport
    BY <1>a, <1>2 DEF StartReport, EntryInOnePlace, Stored, outboxVars
  <1>3. CASE FlushDone
    <2>1. PICK id \in Fresh : made' = [made EXCEPT ![id] = flight]
      BY <1>3 DEF FlushDone, AppendBatch
    <2>2. id \in Id /\ made[id] = {}
      BY DEF Fresh
    <2>3. \A i \in Id : made'[i] = IF i = id THEN flight ELSE made[i]
      BY <1>a, <2>1, <2>2
    <2>4. \A i \in Id : made[i] \cap flight = {} /\ made[i] \cap pending = {}
      BY <1>a DEF EntryInOnePlace, Stored
    <2>5. flight' = {} /\ pending' = pending /\ pending \cap flight = {}
      BY <1>a, <1>3 DEF FlushDone, EntryInOnePlace
    <2>6. \A i \in Id : made'[i] \cap pending' = {}
      BY <2>3, <2>4, <2>5
    <2>7. \A i, j \in Id : i # j => made'[i] \cap made'[j] = {}
      BY <1>a, <2>3, <2>4 DEF EntryInOnePlace
    <2> QED
      BY <2>5, <2>6, <2>7 DEF EntryInOnePlace, Stored
  <1>4. CASE FlushFails
    BY <1>a, <1>4 DEF FlushFails, EntryInOnePlace, Stored, outboxVars
  <1>5. CASE Stop
    BY <1>a, <1>5 DEF Stop, Crash, EntryInOnePlace, Stored
  <1>6. ASSUME UNCHANGED <<made, memVars>> PROVE EntryInOnePlace'
    BY <1>a, <1>6 DEF EntryInOnePlace, Stored, memVars
  <1>7. CASE DropStep \/ DeleteSent \/ HandleAck \/ Restart \/ Day
    BY <1>6, <1>7 DEF DropStep, DeleteSent, HandleAck, Restart, Day, DropExpired, Ack,
                      Load, Tick, outboxVars
  <1>8. CASE CheckConnected \/ PickOldest \/ EndRound \/ SendBatch \/ SendFails
             \/ CloseAfterFailure \/ MarkSent
    BY <1>6, <1>8 DEF CheckConnected, PickOldest, EndRound, SendBatch, SendFails,
                      CloseAfterFailure, MarkSent, outboxVars
  <1>9. CASE Dial \/ SendAuth \/ AuthOK \/ ResetSent \/ Disconnect \/ HandleNack
             \/ BreakSocket
    BY <1>6, <1>9 DEF Dial, SendAuth, AuthOK, ResetSent, Disconnect, HandleNack,
                      BreakSocket, outboxVars
  <1>10. CASE Master
    BY <1>6, <1>10 DEF Master, MasterBooks, MasterRefuses, OldMasterAdds, MasterForgets,
                       LoseFrames, outboxVars
  <1>11. CASE UNCHANGED vars
    BY <1>6, <1>11 DEF vars, outboxVars
  <1> QED
    BY <1>1, <1>2, <1>3, <1>4, <1>5, <1>7, <1>8, <1>9, <1>10, <1>11
    DEF DeliveryNext, ReportLoop, Connection

-------------------------------------------------------------------------------
(* What an answer means.                                                   *)

OkBooked(answers, ids) == \A i \in DOMAIN answers : answers[i].ok => answers[i].id \in ids

LEMMA ReplyBooked ==
    ASSUME NEW c, NEW id \in Id, NEW ok \in BOOLEAN, NEW ids,
           down \in Seq(Answer), OkBooked(down, ids), Reply(c, id, ok), ok => id \in ids
    PROVE  OkBooked(down', ids)
  <1> DEFINE a == [id |-> id, ok |-> ok]
  <1>1. a \in Answer
    BY DEF Answer
  <1>2. OkBooked(Append(down, a), ids)
    BY <1>1, QueueAppend DEF OkBooked
  <1> QED
    BY <1>2 DEF Reply

LEMMA AckStep == DeliveryInv /\ [DeliveryNext]_vars => AckMeansBooked'
  <1> SUFFICES ASSUME DeliveryInv, [DeliveryNext]_vars PROVE AckMeansBooked'
    OBVIOUS
  <1>a. /\ \A r \in ledger : r[1] \in committed
        /\ OkBooked(down, committed)
        /\ acked \subseteq committed \cup blind
    BY DEF DeliveryInv, AckMeansBooked, OkBooked
  <1>b. down \in Seq(Answer) /\ up \in [Conn -> Seq(Id)]
    BY DEF DeliveryInv, DeliveryTypeOK
  <1>c. SUFFICES /\ \A r \in ledger' : r[1] \in committed'
                 /\ OkBooked(down', committed')
                 /\ acked' \subseteq committed' \cup blind'
    BY DEF AckMeansBooked, OkBooked
  <1>d. OkBooked(<<>>, committed)
    BY DEF OkBooked
  <1> DEFINE Goal == /\ \A r \in ledger' : r[1] \in committed'
                     /\ OkBooked(down', committed')
                     /\ acked' \subseteq committed' \cup blind'
  <1>1. CASE DeleteSent
    BY <1>a, <1>1 DEF DeleteSent, Ack, outboxVars, ledgerVars, netVars
  <1>2. CASE HandleAck
    <2>1. /\ down # <<>> /\ down' = Tail(down) /\ Head(down).ok
          /\ acked' = acked \/ acked' = acked \cup {Head(down).id}
          /\ UNCHANGED <<ledger, committed, blind>>
      BY <1>2 DEF HandleAck, Ack, outboxVars, ledgerVars, histVars
    <2>2. Head(down).id \in committed /\ OkBooked(down', committed)
      BY <1>a, <1>b, <2>1, QueueHead DEF OkBooked
    <2> QED
      BY <1>a, <2>1, <2>2
  <1>3. CASE HandleNack
    <2>1. /\ down # <<>> /\ down' = Tail(down)
          /\ UNCHANGED <<ledger, committed, blind, acked>>
      BY <1>3 DEF HandleNack, outboxVars, ledgerVars, histVars
    <2>2. OkBooked(down', committed)
      BY <1>a, <1>b, <2>1, QueueHead DEF OkBooked
    <2> QED
      BY <1>a, <2>1, <2>2
  <1>4. ASSUME NEW c \in Conn, MasterBooks(c) PROVE Goal
    <2> DEFINE id == Head(up[c])
    <2>1. id \in Id
      BY <1>b, <1>4, UpTail DEF MasterBooks
    <2>2. /\ ledger' \subseteq ledger \cup {<<id, now>>} /\ committed \subseteq committed'
          /\ id \in committed' /\ UNCHANGED <<acked, blind>> /\ Reply(c, id, TRUE)
      BY <1>a, <1>4 DEF MasterBooks, Booked, ledgerVars, outboxVars, histVars
    <2>3. OkBooked(down, committed')
      BY <1>a, <2>2 DEF OkBooked
    <2> HIDE DEF id
    <2>4. OkBooked(down', committed')
      BY <1>b, <2>1, <2>2, <2>3, ReplyBooked
    <2> QED
      BY <1>a, <2>2, <2>4
  <1>5. ASSUME NEW c \in Conn, MasterRefuses(c) PROVE Goal
    <2> DEFINE id == Head(up[c])
    <2>1. id \in Id
      BY <1>b, <1>5, UpTail DEF MasterRefuses
    <2>2. UNCHANGED <<ledger, committed, acked, blind>> /\ Reply(c, id, FALSE)
      BY <1>5 DEF MasterRefuses, ledgerVars, outboxVars, histVars
    <2> HIDE DEF id
    <2>3. OkBooked(down', committed)
      BY <1>a, <1>b, <2>1, <2>2, ReplyBooked
    <2> QED
      BY <1>a, <2>2, <2>3
  <1>6. ASSUME NEW c \in Conn, OldMasterAdds(c) PROVE Goal
    BY <1>a, <1>6 DEF OldMasterAdds, OkBooked, outboxVars, histVars
  <1>7. ASSUME NEW c \in Conn, LoseFrames(c) PROVE Goal
    BY <1>a, <1>7 DEF LoseFrames, ledgerVars, outboxVars, histVars
  <1>8. CASE MasterForgets
    BY <1>a, <1>8 DEF MasterForgets, netVars, outboxVars, histVars
  <1>9. CASE Dial \/ Disconnect
    BY <1>a, <1>d, <1>9 DEF Dial, Disconnect, outboxVars, ledgerVars, histVars
  <1>10. CASE Stop
    BY <1>a, <1>d, <1>10 DEF Stop, Crash, ledgerVars
  <1>11. ASSUME UNCHANGED <<ledger, committed, down, acked, blind>> PROVE Goal
    BY <1>a, <1>11
  <1>12. CASE FlushDone \/ DropStep \/ Restart \/ Day
    BY <1>11, <1>12 DEF FlushDone, DropStep, Restart, Day, AppendBatch, DropExpired, Load,
                        Tick, outboxVars, ledgerVars, netVars, histVars
  <1>13. CASE Collect \/ StartReport \/ FlushFails \/ CheckConnected \/ PickOldest
              \/ EndRound \/ SendBatch \/ SendFails \/ CloseAfterFailure \/ MarkSent
    BY <1>11, <1>13 DEF Collect, StartReport, FlushFails, CheckConnected, PickOldest,
       EndRound, SendBatch, SendFails, CloseAfterFailure, MarkSent,
       outboxVars, ledgerVars, netVars, histVars
  <1>14. CASE SendAuth \/ AuthOK \/ ResetSent \/ BreakSocket
    BY <1>11, <1>14 DEF SendAuth, AuthOK, ResetSent, BreakSocket,
                        outboxVars, ledgerVars, netVars, histVars
  <1>15. CASE UNCHANGED vars
    BY <1>11, <1>15 DEF vars, outboxVars, ledgerVars, netVars, histVars
  <1> QED
    BY <1>1, <1>2, <1>3, <1>4, <1>5, <1>6, <1>7, <1>8, <1>9, <1>10, <1>12, <1>13,
       <1>14, <1>15 DEF DeliveryNext, ReportLoop, Connection, Master

-------------------------------------------------------------------------------
LEMMA DeliveryInvStep == DeliveryInv /\ [DeliveryNext]_vars => DeliveryInv'
  <1> SUFFICES ASSUME DeliveryInv, [DeliveryNext]_vars PROVE DeliveryInv'
    OBVIOUS
  <1>1. TypeOK'
    BY OutboxStep, TypeStep DEF DeliveryInv, DeliveryTypeOK
  <1>2. AgentTypeOK' /\ WorldTypeOK' /\ Positions'
    BY AgentTypeStep, WorldTypeStep
  <1>3. DeliveryTypeOK'
    BY <1>1, <1>2 DEF DeliveryTypeOK, AgentTypeOK, WorldTypeOK
  <1> QED
    BY <1>2, <1>3, PlaceStep, AckStep DEF DeliveryInv

LEMMA DeliveryInvAlways == DeliverySpec => []DeliveryInv
  BY DeliveryInvInit, DeliveryInvStep, PTL DEF DeliverySpec

\* Every variable of the delivery has its type.
THEOREM DeliveryTyping == DeliverySpec => []DeliveryTypeOK
  <1>1. DeliveryInv => DeliveryTypeOK
    BY DEF DeliveryInv
  <1> QED
    BY <1>1, DeliveryInvAlways, PTL

\* An entry is in one place: no failed save, stop or concurrent collection makes two
\* batches, or a batch and the memory, hold it.
THEOREM DeliveryEntryInOnePlace == DeliverySpec => []EntryInOnePlace
  <1>1. DeliveryInv => EntryInOnePlace
    BY DEF DeliveryInv
  <1> QED
    BY <1>1, DeliveryInvAlways, PTL

\* The loops around the outbox use it only through its operations: what is proved of
\* Outbox holds of the outbox of a running agent.
THEOREM DeliveryImplementsOutbox == DeliverySpec => Spec
  <1>1. DeliveryInit => Init
    BY DEF DeliveryInit
  <1>2. DeliveryInv /\ [DeliveryNext]_vars => [Next]_outboxVars
    BY OutboxStep
  <1> QED
    BY <1>1, <1>2, DeliveryInvAlways, PTL DEF DeliverySpec, Spec

-------------------------------------------------------------------------------
(* At-least-once delivery.                                                 *)

\* A batch that was ever saved is in a file until a master booked it, a limit took it,
\* it was sent to a master that sends no traffic_ack, or the file could not be read or
\* set aside; no crash, broken connection, lost, repeated or late answer and no failed
\* save is among the reasons.
THEOREM DeliveryAtLeastOnce == DeliverySpec => []DeletedOnlyWhenBooked
  <1>1. DeliverySpec => []Retained
    BY DeliveryImplementsOutbox, OutboxRetained, PTL
  <1>2. Retained /\ DeliveryInv => DeletedOnlyWhenBooked
    BY DEF Retained, DeliveryInv, AckMeansBooked, DeletedOnlyWhenBooked
  <1> QED
    BY <1>1, <1>2, DeliveryInvAlways, PTL

-------------------------------------------------------------------------------
(* An entry is billed once.                                                *)

\* A master still remembers a booking of the batch no older than t.
Recorded(id, t) == \E r \in ledger : r[1] = id /\ r[2] >= t

\* A round drops the over-age batches before it sends one, and no round outlives the
\* process.
RoundInv ==
    /\ ~running => rpc = "idle"
    /\ rpc \in {"check", "pick", "send", "sent"} =>
           \A b \in batches : b.created >= now - MaxAge

\* A stored batch that was booked is on record since it was created, or is by now older
\* than what a master remembers.
StoredInv ==
    \A b \in batches \cup disk.batches :
        /\ b.created <= now
        /\ b.id \in committed =>
               Recorded(b.id, b.created) \/ b.created < now - Retention

OnWire(id) ==
    \/ rpc = "send" /\ picked = id
    \/ \E c \in Conn : \E i \in DOMAIN up[c] : up[c][i] = id

\* A frame that was booked before is one its master recognizes.
WireInv ==
    \A id \in Id : OnWire(id) =>
        /\ made[id] # {}
        /\ id \in committed => Recorded(id, now - Retention)

\* What is billed is billed once, for the one batch that holds it.
BilledInv ==
    /\ \A c \in Conn : cap[c]
    /\ \A id \in committed : made[id] # {}
    /\ \A e \in Entry : \/ billed[e] = 0
                        \/ billed[e] = 1 /\ \E id \in committed : e \in made[id]

OnceInv == RoundInv /\ StoredInv /\ WireInv /\ BilledInv

\* What makes a resend harmless: the masters answer and remember a batch for as long as
\* the agent may keep it, and no save fails, or an over-age batch may stay.
Remembering == Caps \subseteq {TRUE} /\ MaxAge <= Retention /\ "write" \notin Faults

\* What an operation leaves in memory and in the file was there, or is the new batch.
LEMMA StoredStep ==
    ASSUME SoundInv, [Next]_outboxVars
    PROVE  /\ \A b \in batches' \cup disk'.batches :
                 \/ b \in batches \cup disk.batches
                 \/ b.created = now /\ b.id \in Id /\ made[b.id] = {}
           /\ \A id \in Id : made[id] # {} => made'[id] = made[id]
           /\ now' \in Nat /\ now <= now'
  <1>t. TypeOK /\ now \in Nat
    BY DEF SoundInv, TypeOK
  <1> DEFINE Goal == /\ \A b \in batches' \cup disk'.batches :
                           \/ b \in batches \cup disk.batches
                           \/ b.created = now /\ b.id \in Id /\ made[b.id] = {}
                     /\ \A id \in Id : made[id] # {} => made'[id] = made[id]
                     /\ now' \in Nat /\ now <= now'
  <1>s. ASSUME NEW s, NEW bs \in SUBSET batches, Commit(s, bs), UNCHANGED <<made, now>>
        PROVE  Goal
    <2>1. Fit(bs) \subseteq batches
      BY FitSubset
    <2>2. batches' = Fit(bs) /\ disk'.batches = Fit(bs)
      BY <1>s DEF Commit, FileOf
    <2> QED
      BY <1>t, <1>s, <2>1, <2>2
  <1>1. ASSUME NEW es, AppendBatch(es) PROVE Goal
    <2>1. PICK id \in Fresh :
            LET b == [id |-> id, seq |-> seq + 1, created |-> now, entries |-> es]
            IN /\ Commit(seq + 1, batches \cup {b})
               /\ made' = [made EXCEPT ![id] = es]
      BY <1>1 DEF AppendBatch
    <2> DEFINE b == [id |-> id, seq |-> seq + 1, created |-> now, entries |-> es]
    <2>2. id \in Id /\ made[id] = {} /\ b.id = id /\ b.created = now
      BY DEF Fresh
    <2> HIDE DEF b
    <2>3. Fit(batches \cup {b}) \subseteq batches \cup {b}
      BY FitSubset
    <2>4. batches' = Fit(batches \cup {b}) /\ disk'.batches = Fit(batches \cup {b})
      BY <2>1 DEF Commit, FileOf, b
    <2>5. \A i \in Id : made[i] # {} => made'[i] = made[i]
      BY <1>t, <2>1, <2>2 DEF TypeOK
    <2>6. now' = now
      BY <1>1 DEF AppendBatch
    <2> QED
      BY <1>t, <2>2, <2>3, <2>4, <2>5, <2>6
  <1>2. ASSUME NEW id \in Id, Ack(id) PROVE Goal
    <2>1. {b \in batches : b.id # id} \in SUBSET batches
      OBVIOUS
    <2> QED
      BY <1>2, <1>s, <2>1 DEF Ack
  <1>3. CASE DropExpired
    <2>1. Kept \in SUBSET batches
      BY DEF Kept, Live
    <2> QED
      BY <1>3, <1>s, <2>1 DEF DropExpired
  <1>4. CASE Load
    <2>a. now' = now /\ made' = made
      BY <1>4 DEF Load
    <2>1. CASE LoadSound \/ LoadUnreadable \/ QuarantineFails
      BY <1>t, <2>a, <2>1 DEF LoadSound, LoadUnreadable, QuarantineFails
    <2>2. CASE Salvage
      <3>1. disk.intact \subseteq disk.batches /\ Fit(disk.intact) \subseteq disk.intact
        BY FitSubset DEF SoundInv
      <3>2. batches' \cup disk'.batches \subseteq Fit(disk.intact)
        BY <2>2 DEF Salvage, FileOf, Absent
      <3> QED
        BY <1>t, <2>a, <3>1, <3>2
    <2>3. CASE NothingToSalvage
      BY <1>t, <2>a, <2>3 DEF NothingToSalvage, Absent
    <2> QED
      BY <1>4, <2>1, <2>2, <2>3 DEF Load
  <1>5. CASE Crash
    BY <1>t, <1>5 DEF Crash
  <1>6. CASE Corrupt
    <2>1. disk'.batches = disk.batches
      BY <1>t, <1>6 DEF Corrupt, TypeOK, File
    <2> QED
      BY <1>t, <1>6, <2>1 DEF Corrupt
  <1>7. CASE Tick
    BY <1>t, <1>7 DEF Tick
  <1>8. CASE UNCHANGED outboxVars
    BY <1>t, <1>8 DEF outboxVars
  <1> QED
    BY <1>1, <1>2, <1>3, <1>4, <1>5, <1>6, <1>7, <1>8 DEF Next

LEMMA OnceInit == Caps \subseteq {TRUE} /\ DeliveryInit => OnceInv
  <1> SUFFICES ASSUME Caps \subseteq {TRUE}, DeliveryInit PROVE OnceInv
    OBVIOUS
  <1>1. RoundInv /\ StoredInv
    BY DEF DeliveryInit, Init, RoundInv, StoredInv, Absent
  <1>2. WireInv
    BY DEF DeliveryInit, WireInv, OnWire
  <1>3. ASSUME NEW c \in Conn PROVE cap[c]
    <2>1. cap[c] \in Caps
      BY DEF DeliveryInit
    <2> QED
      BY <2>1
  <1>4. BilledInv
    <2>1. committed = {} /\ billed = [e \in Entry |-> 0]
      BY DEF DeliveryInit
    <2> QED
      BY <1>3, <2>1 DEF BilledInv
  <1> QED
    BY <1>1, <1>2, <1>4 DEF OnceInv

\* Within a round nothing but a restart, which ends it, adds to the outbox.
LEMMA RoundStep ==
    DeliveryInv /\ RoundInv /\ Remembering /\ [DeliveryNext]_vars => RoundInv'
  <1> SUFFICES ASSUME DeliveryInv, RoundInv, Remembering, [DeliveryNext]_vars
               PROVE  RoundInv'
    OBVIOUS
  <1>a. /\ ~running => rpc = "idle"
        /\ rpc \in {"check", "pick", "send", "sent"} =>
               \A b \in batches : b.created >= now - MaxAge
    BY DEF RoundInv
  <1> DEFINE Goal == /\ ~running' => rpc' = "idle"
                     /\ rpc' \in {"check", "pick", "send", "sent"} =>
                            \A b \in batches' : b.created >= now' - MaxAge
  <1>b. SUFFICES Goal
    BY DEF RoundInv
  <1> USE DEF outboxVars, loopVars
  <1>c. ASSUME UNCHANGED <<running, now, rpc>>, batches' \subseteq batches PROVE Goal
    BY <1>a, <1>c
  <1>d. ASSUME NEW id, Ack(id), UNCHANGED rpc PROVE Goal
    <2>1. Fit({b \in batches : b.id # id}) \subseteq batches
      BY FitSubset
    <2> QED
      BY <1>c, <1>d, <2>1 DEF Ack, Commit
  <1>1. CASE Collect \/ BreakSocket \/ Master
    BY <1>c, <1>1 DEF Collect, BreakSocket, Master, MasterBooks, MasterRefuses,
                      OldMasterAdds, MasterForgets, LoseFrames
  <1>2. CASE Dial \/ SendAuth \/ AuthOK \/ ResetSent \/ Disconnect \/ HandleNack
    BY <1>c, <1>2 DEF Dial, SendAuth, AuthOK, ResetSent, Disconnect, HandleNack
  <1>3. CASE HandleAck
    BY <1>c, <1>d, <1>3 DEF HandleAck
  <1>4. CASE StartReport \/ FlushFails \/ SendFails \/ CloseAfterFailure \/ EndRound
    BY <1>a, <1>4 DEF StartReport, FlushFails, SendFails, CloseAfterFailure, EndRound
  <1>5. CASE FlushDone
    BY <1>a, <1>5 DEF FlushDone, AppendBatch
  <1>6. CASE DropStep
    <2>1. Kept \subseteq Live /\ Fit(Kept) \subseteq Kept
      BY FitSubset DEF Kept
    <2>2. batches' = Fit(Kept) \/ batches' = Kept
      BY <1>6 DEF DropStep, DropExpired, Commit, Remembering
    <2>3. now' = now /\ running' = running /\ rpc # "idle" /\ rpc' = "check"
      BY <1>6 DEF DropStep, DropExpired
    <2> QED
      BY <1>a, <2>1, <2>2, <2>3 DEF Live
  <1>7. CASE CheckConnected \/ PickOldest \/ SendBatch \/ MarkSent
    BY <1>a, <1>7 DEF CheckConnected, PickOldest, SendBatch, MarkSent
  <1>8. CASE DeleteSent
    <2>1. CASE Ack(picked)
      <3>1. Fit({b \in batches : b.id # picked}) \subseteq batches
        BY FitSubset
      <3> QED
        BY <1>a, <1>8, <2>1, <3>1 DEF DeleteSent, Ack, Commit
    <2>2. CASE UNCHANGED outboxVars
      BY <1>a, <1>8, <2>2 DEF DeleteSent
    <2> QED
      BY <1>8, <2>1, <2>2 DEF DeleteSent
  <1>9. CASE Stop
    BY <1>9 DEF Stop
  <1>10. CASE Restart
    BY <1>a, <1>10 DEF Restart, Load
  <1>11. CASE Day
    BY <1>a, <1>11 DEF Day, Tick
  <1>12. CASE UNCHANGED vars
    BY <1>c, <1>12 DEF vars
  <1> QED
    BY <1>1, <1>2, <1>3, <1>4, <1>5, <1>6, <1>7, <1>8, <1>9, <1>10, <1>11, <1>12
    DEF DeliveryNext, ReportLoop, Connection

\* The steps in which no master books and none forgets.
BooksStand == UNCHANGED <<ledger, committed, billed, cap>>

LEMMA BooksChange ==
    ASSUME [DeliveryNext]_vars
    PROVE  \/ BooksStand
           \/ MasterForgets
           \/ \E c \in Conn : MasterBooks(c) \/ OldMasterAdds(c)
  <1> USE DEF BooksStand, ledgerVars, netVars
  <1>1. CASE Collect \/ BreakSocket \/ Stop \/ Restart \/ Day \/ UNCHANGED vars
    BY <1>1 DEF Collect, BreakSocket, Stop, Restart, Day, vars
  <1>2. CASE StartReport \/ FlushDone \/ FlushFails \/ DropStep \/ CheckConnected
             \/ PickOldest \/ EndRound \/ SendBatch \/ SendFails \/ CloseAfterFailure
             \/ MarkSent \/ DeleteSent
    BY <1>2 DEF StartReport, FlushDone, FlushFails, DropStep, CheckConnected, PickOldest,
                EndRound, SendBatch, SendFails, CloseAfterFailure, MarkSent, DeleteSent
  <1>3. CASE Dial \/ SendAuth \/ AuthOK \/ ResetSent \/ Disconnect \/ HandleNack
             \/ HandleAck
    BY <1>3 DEF Dial, SendAuth, AuthOK, ResetSent, Disconnect, HandleNack, HandleAck
  <1>4. ASSUME NEW c \in Conn,
               MasterBooks(c) \/ MasterRefuses(c) \/ OldMasterAdds(c) \/ LoseFrames(c)
        PROVE  BooksStand \/ MasterBooks(c) \/ OldMasterAdds(c)
    BY <1>4 DEF MasterRefuses, LoseFrames
  <1> QED
    BY <1>1, <1>2, <1>3, <1>4 DEF DeliveryNext, ReportLoop, Connection, Master

\* Where every master answers.
LEMMA AnsweredBooks ==
    ASSUME [DeliveryNext]_vars, \A c \in Conn : cap[c]
    PROVE  \/ BooksStand
           \/ MasterForgets
           \/ \E c \in Conn : MasterBooks(c)
  BY BooksChange DEF OldMasterAdds

LEMMA StoredInvStep ==
    SoundInv /\ DeliveryInv /\ StoredInv /\ BilledInv /\ [DeliveryNext]_vars => StoredInv'
  <1> SUFFICES ASSUME SoundInv, DeliveryInv, StoredInv, BilledInv, [DeliveryNext]_vars
               PROVE  StoredInv'
    OBVIOUS
  <1>t. /\ now \in Nat /\ Retention \in Nat /\ now' \in Nat /\ now <= now'
        /\ \A b \in batches \cup disk.batches : b.created \in Nat /\ b.id \in Id
    <2>1. now \in Nat /\ batches \subseteq Batch /\ disk.batches \subseteq Batch
      BY DEF SoundInv, TypeOK, File
    <2>2. now' \in Nat /\ now <= now'
      BY OutboxStep, StoredStep
    <2> QED
      BY <2>1, <2>2, DeliveryAssumption DEF Batch
  <1>l. \A r \in ledger : r[2] \in Nat
    BY DEF DeliveryInv, DeliveryTypeOK
  <1>s. \A b \in batches' \cup disk'.batches :
           \/ b \in batches \cup disk.batches
           \/ b.created = now /\ b.id \in Id /\ made[b.id] = {}
    BY OutboxStep, StoredStep
  <1>1. CASE BooksStand
    <2> SUFFICES ASSUME NEW b \in batches' \cup disk'.batches
                 PROVE  /\ b.created <= now'
                        /\ b.id \in committed' =>
                              Recorded(b.id, b.created)' \/ b.created < now' - Retention
      BY DEF StoredInv
    <2>1. CASE b \in batches \cup disk.batches
      <3>1. /\ b.created <= now
            /\ b.id \in committed => Recorded(b.id, b.created) \/ b.created < now - Retention
        BY <2>1 DEF StoredInv
      <3> QED
        BY <1>t, <1>1, <2>1, <3>1 DEF BooksStand, Recorded
    <2>2. CASE b.created = now /\ made[b.id] = {}
      BY <1>t, <1>1, <2>2 DEF BooksStand, BilledInv
    <2> QED
      BY <1>s, <2>1, <2>2
  <1>2. CASE MasterForgets
    <2>1. UNCHANGED <<batches, disk, now, committed>>
      BY <1>2 DEF MasterForgets, outboxVars
    <2>2. PICK r \in ledger : r[2] < now - Retention /\ ledger' = ledger \ {r}
      BY <1>2 DEF MasterForgets
    <2> SUFFICES ASSUME NEW b \in batches \cup disk.batches, b.id \in committed,
                        ~(b.created < now - Retention)
                 PROVE  Recorded(b.id, b.created)'
      BY <2>1 DEF StoredInv
    <2>3. PICK q \in ledger : q[1] = b.id /\ q[2] >= b.created
      BY DEF StoredInv, Recorded
    <2>4. q # r
      BY <1>t, <1>l, <2>2, <2>3
    <2> QED
      BY <2>2, <2>3, <2>4 DEF Recorded
  <1>3. ASSUME NEW c \in Conn, MasterBooks(c) PROVE StoredInv'
    <2> DEFINE id == Head(up[c])
    <2>1. UNCHANGED <<batches, disk, now>>
      BY <1>3 DEF MasterBooks, outboxVars
    <2>2. \/ UNCHANGED <<ledger, committed>>
          \/ ledger' = ledger \cup {<<id, now>>} /\ committed' = committed \cup {id}
      BY <1>3 DEF MasterBooks, ledgerVars
    <2> HIDE DEF id
    <2> SUFFICES ASSUME NEW b \in batches \cup disk.batches, b.id \in committed'
                 PROVE  Recorded(b.id, b.created)' \/ b.created < now - Retention
      BY <2>1 DEF StoredInv
    <2>3. CASE b.id \in committed
      BY <2>2, <2>3 DEF StoredInv, Recorded
    <2>4. CASE b.id \notin committed
      <3>1. b.id = id /\ <<id, now>> \in ledger'
        BY <2>2, <2>4
      <3>2. b.created <= now
        BY DEF StoredInv
      <3> QED
        BY <1>t, <3>1, <3>2 DEF Recorded
    <2> QED
      BY <2>3, <2>4
  <1> QED
    BY <1>1, <1>2, <1>3, AnsweredBooks DEF BilledInv

\* What is on the wire was there before, or has just been picked from the outbox; and
\* time stands while anything is.
LEMMA WireSource ==
    ASSUME DeliveryInv, [DeliveryNext]_vars, NEW id \in Id, OnWire(id)'
    PROVE  /\ now' = now
           /\ OnWire(id) \/ (rpc = "pick" /\ id \in Ids(batches) /\ BooksStand)
  <1>t. up \in [Conn -> Seq(Id)]
    BY DEF DeliveryInv, DeliveryTypeOK
  <1> DEFINE Goal == now' = now /\ OnWire(id)
  <1> USE DEF outboxVars, netVars, loopVars
  <1>c. ASSUME UNCHANGED <<now, up>>, rpc' = "send" => rpc = "send" /\ picked' = picked
        PROVE  Goal
    BY <1>c DEF OnWire
  <1>d. ASSUME NEW c \in Conn, up' = [up EXCEPT ![c] = Tail(@)], up[c] # <<>>,
               UNCHANGED <<now, rpc, picked>>
        PROVE  Goal
    <2>1. ASSUME NEW d \in Conn, NEW i \in DOMAIN up'[d], up'[d][i] = id
          PROVE  \E j \in DOMAIN up[d] : up[d][j] = id
      BY <1>t, <1>d, <2>1, QueueHead
    <2> QED
      BY <1>d, <2>1 DEF OnWire
  <1>1. CASE Collect \/ BreakSocket \/ Restart
    BY <1>c, <1>1 DEF Collect, BreakSocket, Restart, Load
  <1>2. CASE StartReport \/ FlushDone \/ FlushFails \/ DropStep \/ CheckConnected
             \/ EndRound \/ SendFails \/ CloseAfterFailure \/ MarkSent \/ DeleteSent
    BY <1>c, <1>2 DEF StartReport, FlushDone, FlushFails, DropStep, CheckConnected,
                EndRound, SendFails, CloseAfterFailure, MarkSent, DeleteSent, AppendBatch,
                DropExpired, Ack
  <1>3. CASE PickOldest
    <2>1. /\ rpc = "pick" /\ UNCHANGED <<now, up, ledger, committed, billed, cap>>
          /\ \E b \in batches : picked' = b.id
      BY <1>3 DEF PickOldest, Unsent, ledgerVars
    <2>2. CASE picked' = id
      BY <2>1, <2>2 DEF BooksStand, Ids
    <2>3. CASE picked' # id
      BY <2>1, <2>3 DEF OnWire
    <2> QED
      BY <2>1, <2>2, <2>3
  <1>4. CASE SendBatch
    <2>1. /\ rpc = "send" /\ rpc' = "sent" /\ now' = now
          /\ up' = up \/ up' = [up EXCEPT ![conn] = Append(@, picked)]
      BY <1>4 DEF SendBatch
    <2>2. picked \in Id /\ conn \in Conn
      BY <1>4, <2>1 DEF SendBatch, DeliveryInv, Positions
    <2>3. ASSUME NEW d \in Conn, NEW i \in DOMAIN up'[d], up'[d][i] = id, picked # id
          PROVE  \E j \in DOMAIN up[d] : up[d][j] = id
      BY <1>t, <2>1, <2>2, <2>3, QueueAppend
    <2> QED
      BY <2>1, <2>3 DEF OnWire
  <1>5. CASE Dial \/ SendAuth \/ AuthOK \/ ResetSent \/ Disconnect \/ HandleNack
             \/ HandleAck
    BY <1>c, <1>5 DEF Dial, SendAuth, AuthOK, ResetSent, Disconnect, HandleNack, HandleAck,
                      Ack
  <1>6. ASSUME NEW c \in Conn, MasterBooks(c) \/ MasterRefuses(c) \/ OldMasterAdds(c)
        PROVE  Goal
    BY <1>d, <1>6 DEF MasterBooks, MasterRefuses, OldMasterAdds
  <1>7. ASSUME NEW c \in Conn, LoseFrames(c) PROVE Goal
    <2>1. up' = [up EXCEPT ![c] = <<>>] /\ UNCHANGED <<now, rpc, picked>>
      BY <1>7 DEF LoseFrames
    <2>2. ASSUME NEW d \in Conn, NEW i \in DOMAIN up'[d]
          PROVE  up'[d] = up[d]
      BY <1>t, <2>1, <2>2
    <2> QED
      BY <2>1, <2>2 DEF OnWire
  <1>8. CASE MasterForgets
    BY <1>c, <1>8 DEF MasterForgets
  <1>9. CASE Stop
    BY <1>c, <1>9 DEF Stop, Crash
  <1>10. CASE Day
    BY <1>10 DEF Day, OnWire
  <1>11. CASE UNCHANGED vars
    BY <1>c, <1>11 DEF vars
  <1> QED
    BY <1>1, <1>2, <1>3, <1>4, <1>5, <1>6, <1>7, <1>8, <1>9, <1>10, <1>11
    DEF DeliveryNext, ReportLoop, Connection, Master

LEMMA WireStep ==
    SoundInv /\ DeliveryInv /\ OnceInv /\ Remembering /\ [DeliveryNext]_vars => WireInv'
  <1> SUFFICES ASSUME SoundInv, DeliveryInv, OnceInv, Remembering, [DeliveryNext]_vars
               PROVE  WireInv'
    OBVIOUS
  <1>t. /\ now \in Nat /\ Retention \in Nat /\ MaxAge \in Nat /\ now' \in Nat
        /\ \A b \in batches : b.created \in Nat /\ b.id \in Id
        /\ \A r \in ledger : r[2] \in Nat
        /\ up \in [Conn -> Seq(Id)]
    <2>1. now \in Nat /\ batches \subseteq Batch
      BY DEF SoundInv, TypeOK
    <2>2. now' \in Nat
      BY OutboxStep, StoredStep
    <2>3. \A r \in ledger : r[2] \in Nat
      BY DEF DeliveryInv, DeliveryTypeOK
    <2>4. up \in [Conn -> Seq(Id)]
      BY DEF DeliveryInv, DeliveryTypeOK
    <2> QED
      BY <2>1, <2>2, <2>3, <2>4, DeliveryAssumption, OutboxAssumption DEF Batch
  <1>w. \A id \in Id : OnWire(id) =>
          made[id] # {} /\ (id \in committed => Recorded(id, now - Retention))
    BY DEF OnceInv, WireInv
  <1>m. \A id \in Id : made[id] # {} => made'[id] = made[id]
    BY OutboxStep, StoredStep
  <1> SUFFICES ASSUME NEW id \in Id, OnWire(id)'
               PROVE  /\ made'[id] # {}
                      /\ id \in committed' => Recorded(id, now - Retention)'
    BY DEF WireInv
  <1>s. now' = now
    BY WireSource
  <1>1. CASE OnWire(id)
    <2>1. made'[id] # {} /\ (id \in committed => Recorded(id, now - Retention))
      BY <1>w, <1>m, <1>1
    <2>2. CASE BooksStand
      BY <1>s, <2>1, <2>2 DEF BooksStand, Recorded
    <2>3. CASE MasterForgets
      <3>1. PICK r \in ledger : r[2] < now - Retention /\ ledger' = ledger \ {r}
        BY <2>3 DEF MasterForgets
      <3> SUFFICES ASSUME id \in committed PROVE Recorded(id, now - Retention)'
        BY <2>1, <2>3 DEF MasterForgets
      <3>2. PICK q \in ledger : q[1] = id /\ q[2] >= now - Retention
        BY <2>1 DEF Recorded
      <3>3. q # r
        BY <1>t, <3>1, <3>2
      <3> QED
        BY <1>s, <3>1, <3>2, <3>3 DEF Recorded
    <2>4. ASSUME NEW c \in Conn, MasterBooks(c)
          PROVE  id \in committed' => Recorded(id, now - Retention)'
      <3> DEFINE k == Head(up[c])
      <3>1. \/ UNCHANGED <<ledger, committed>>
            \/ ledger' = ledger \cup {<<k, now>>} /\ committed' = committed \cup {k}
        BY <2>4 DEF MasterBooks, ledgerVars
      <3> HIDE DEF k
      <3>2. now >= now - Retention
        BY <1>t
      <3>3. CASE id \in committed
        BY <1>s, <2>1, <3>1, <3>3 DEF Recorded
      <3>4. CASE id \notin committed
        <4>1. id \in committed' => <<id, now>> \in ledger'
          BY <3>1, <3>4
        <4> QED
          BY <1>s, <3>2, <4>1 DEF Recorded
      <3> QED
        BY <3>3, <3>4
    <2> QED
      BY <2>1, <2>2, <2>3, <2>4, AnsweredBooks DEF OnceInv, BilledInv
  <1>2. CASE rpc = "pick" /\ id \in Ids(batches) /\ BooksStand
    <2>1. PICK b \in batches : b.id = id
      BY <1>2 DEF Ids
    <2>2. made[id] # {}
      BY <2>1 DEF SoundInv, Sound
    <2>3. b.created >= now - MaxAge
      BY <1>2 DEF OnceInv, RoundInv
    <2>4. id \in committed => Recorded(id, b.created) \/ b.created < now - Retention
      BY <2>1 DEF OnceInv, StoredInv
    <2>5. b.created >= now - Retention
      BY <1>t, <2>3 DEF Remembering
    <2>6. id \in committed => Recorded(id, now - Retention)
      BY <1>t, <2>4, <2>5 DEF Recorded
    <2> QED
      BY <1>2, <1>m, <1>s, <2>2, <2>6 DEF BooksStand, Recorded
  <1> QED
    BY <1>1, <1>2, WireSource

LEMMA BilledStep ==
    SoundInv /\ DeliveryInv /\ OnceInv /\ [DeliveryNext]_vars => BilledInv'
  <1> SUFFICES ASSUME SoundInv, DeliveryInv, OnceInv, [DeliveryNext]_vars PROVE BilledInv'
    OBVIOUS
  <1>a. /\ \A c \in Conn : cap[c]
        /\ \A id \in committed : made[id] # {}
        /\ \A e \in Entry : \/ billed[e] = 0
                            \/ billed[e] = 1 /\ \E id \in committed : e \in made[id]
    BY DEF OnceInv, BilledInv
  <1>t. /\ committed \subseteq Id /\ up \in [Conn -> Seq(Id)] /\ billed \in [Entry -> 0..2]
        /\ \A i, j \in Id : i # j => made[i] \cap made[j] = {}
    BY DEF DeliveryInv, DeliveryTypeOK, EntryInOnePlace
  <1>m. \A id \in Id : made[id] # {} => made'[id] = made[id]
    BY OutboxStep, StoredStep
  <1>b. ASSUME UNCHANGED <<committed, billed, cap>> PROVE BilledInv'
    <2>1. \A id \in committed : made'[id] = made[id]
      BY <1>a, <1>t, <1>m
    <2> QED
      BY <1>a, <1>b, <2>1 DEF BilledInv
  <1>1. CASE BooksStand
    BY <1>b, <1>1 DEF BooksStand
  <1>2. CASE MasterForgets
    BY <1>b, <1>2 DEF MasterForgets, netVars
  <1>3. ASSUME NEW c \in Conn, MasterBooks(c) PROVE BilledInv'
    <2> DEFINE k == Head(up[c])
    <2>1. cap' = cap /\ made' = made /\ up[c] # <<>>
      BY <1>3 DEF MasterBooks, outboxVars
    <2>2. \/ UNCHANGED <<committed, billed>>
          \/ k \notin Booked /\ Book(k) /\ committed' = committed \cup {k}
      BY <1>3 DEF MasterBooks, ledgerVars
    <2>3. k \in Id /\ OnWire(k)
      <3>1. k \in Id /\ 1 \in DOMAIN up[c] /\ k = up[c][1]
        BY <1>t, <2>1, QueueHead
      <3> QED
        BY <3>1 DEF OnWire
    <2> HIDE DEF k
    <2>4. CASE UNCHANGED <<committed, billed>>
      BY <1>b, <2>1, <2>4
    <2>5. CASE k \notin Booked /\ Book(k) /\ committed' = committed \cup {k}
      <3>1. k \notin committed /\ made[k] # {}
        BY <2>3, <2>5 DEF OnceInv, WireInv, Recorded, Booked
      <3>2. ASSUME NEW e \in Entry
            PROVE  \/ billed'[e] = 0
                   \/ billed'[e] = 1 /\ \E id \in committed' : e \in made[id]
        <4>1. CASE e \in made[k]
          <5>1. \A id \in committed : e \notin made[id]
            BY <1>t, <2>3, <3>1, <4>1
          <5>2. billed[e] = 0
            BY <1>a, <5>1
          <5>3. billed'[e] = 1
            BY <2>5, <4>1, <5>2 DEF Book
          <5> QED
            BY <2>5, <4>1, <5>3
        <4>2. CASE e \notin made[k]
          <5>1. billed'[e] = billed[e]
            BY <2>5, <4>2 DEF Book
          <5> QED
            BY <1>a, <2>5, <5>1
        <4> QED
          BY <4>1, <4>2
      <3> QED
        BY <1>a, <2>1, <2>5, <3>1, <3>2 DEF BilledInv
    <2> QED
      BY <2>2, <2>4, <2>5
  <1> QED
    BY <1>1, <1>2, <1>3, <1>a, AnsweredBooks

\* An entry is billed once: every resend of a batch a master booked is one it
\* recognizes, since no round sends a batch older than what a master remembers.  (With
\* a save that fails an over-age batch may stay and be sent.)
THEOREM DeliveryBilledOnce ==
    ASSUME Remembering
    PROVE  DeliverySpec => []BilledOnce
  <1> DEFINE I == SoundInv /\ DeliveryInv /\ OnceInv
  <1>1. DeliveryInit => I
    BY SoundInit, DeliveryInvInit, OnceInit DEF Remembering, DeliveryInit
  <1>2. I /\ [DeliveryNext]_vars => I'
    <2> SUFFICES ASSUME I, [DeliveryNext]_vars PROVE I'
      OBVIOUS
    <2>1. SoundInv' /\ DeliveryInv'
      BY OutboxStep, SoundStep, DeliveryInvStep
    <2>2. RoundInv' /\ StoredInv' /\ WireInv' /\ BilledInv'
      BY RoundStep, StoredInvStep, WireStep, BilledStep DEF OnceInv
    <2> QED
      BY <2>1, <2>2 DEF OnceInv
  <1>3. I => BilledOnce
    <2> SUFFICES ASSUME I, NEW e \in Entry PROVE billed[e] <= 1
      BY DEF BilledOnce
    <2>1. billed[e] = 0 \/ billed[e] = 1
      BY DEF OnceInv, BilledInv
    <2> QED
      BY <2>1
  <1> QED
    BY <1>1, <1>2, <1>3, PTL DEF DeliverySpec

-------------------------------------------------------------------------------
(* The promise of TrafficLedger.                                           *)

\* While the file can be read it is never set aside nor left behind.
FileInv == disk.state # "corrupt" /\ abandoned = {} /\ quarantine = {}

\* Batches that left the outbox, or are leaving it, were created.
HistoryInv ==
    /\ \A id \in committed \cup expired \cup blind : made[id] # {}
    /\ \A id \in Id : OnWire(id) => made[id] # {}

\* Entries are between memory and file during a flush only.
FlightInv == rpc # "append" => flight = {}

LedgerInv == RetainedInv /\ DeliveryInv /\ FileInv /\ HistoryInv /\ FlightInv

LEMMA FlightStep == FlightInv /\ [DeliveryNext]_vars => FlightInv'
  <1> SUFFICES ASSUME FlightInv, [DeliveryNext]_vars PROVE FlightInv'
    OBVIOUS
  <1> USE DEF FlightInv, memVars, loopVars
  <1>1. CASE Collect \/ Stop \/ BreakSocket \/ Restart \/ Day \/ UNCHANGED vars
    BY <1>1 DEF Collect, Stop, BreakSocket, Restart, Day, vars
  <1>2. CASE StartReport \/ FlushDone \/ FlushFails \/ DropStep \/ CheckConnected
             \/ PickOldest \/ EndRound \/ SendBatch \/ SendFails \/ CloseAfterFailure
             \/ MarkSent \/ DeleteSent
    BY <1>2 DEF StartReport, FlushDone, FlushFails, DropStep, CheckConnected, PickOldest,
                EndRound, SendBatch, SendFails, CloseAfterFailure, MarkSent, DeleteSent
  <1>3. CASE Connection
    BY <1>3 DEF Connection, Dial, SendAuth, AuthOK, ResetSent, Disconnect, HandleNack,
                HandleAck
  <1>4. CASE Master
    BY <1>4 DEF Master, MasterBooks, MasterRefuses, OldMasterAdds, MasterForgets,
                LoseFrames
  <1> QED
    BY <1>1, <1>2, <1>3, <1>4 DEF DeliveryNext, ReportLoop

LEMMA FileStep ==
    FileInv /\ "read" \notin Faults /\ [DeliveryNext]_vars => FileInv'
  <1> SUFFICES ASSUME FileInv, "read" \notin Faults, [DeliveryNext]_vars PROVE FileInv'
    OBVIOUS
  <1> USE DEF FileInv
  <1>c. ASSUME UNCHANGED <<disk, abandoned, quarantine>> PROVE FileInv'
    BY <1>c
  <1>s. ASSUME NEW s, NEW bs, Commit(s, bs), UNCHANGED <<abandoned, quarantine>>
        PROVE  FileInv'
    BY <1>s DEF Commit, FileOf
  <1> USE DEF outboxVars
  <1>1. CASE FlushDone \/ DropStep \/ DeleteSent \/ HandleAck
    BY <1>c, <1>s, <1>1 DEF FlushDone, DropStep, DeleteSent, HandleAck, AppendBatch,
                            DropExpired, Ack
  <1>2. CASE Restart
    BY <1>c, <1>2 DEF Restart, Load, LoadSound, LoadUnreadable, QuarantineFails, Salvage,
                      NothingToSalvage
  <1>3. CASE Stop \/ Day \/ Collect \/ BreakSocket \/ UNCHANGED vars
    BY <1>c, <1>3 DEF Stop, Crash, Day, Tick, Collect, BreakSocket, vars
  <1>4. CASE StartReport \/ FlushFails \/ CheckConnected \/ PickOldest \/ EndRound
             \/ SendBatch \/ SendFails \/ CloseAfterFailure \/ MarkSent
    BY <1>c, <1>4 DEF StartReport, FlushFails, CheckConnected, PickOldest, EndRound,
                      SendBatch, SendFails, CloseAfterFailure, MarkSent
  <1>5. CASE Dial \/ SendAuth \/ AuthOK \/ ResetSent \/ Disconnect \/ HandleNack
    BY <1>c, <1>5 DEF Dial, SendAuth, AuthOK, ResetSent, Disconnect, HandleNack
  <1>6. CASE Master
    BY <1>c, <1>6 DEF Master, MasterBooks, MasterRefuses, OldMasterAdds, MasterForgets,
                      LoseFrames
  <1> QED
    BY <1>1, <1>2, <1>3, <1>4, <1>5, <1>6 DEF DeliveryNext, ReportLoop, Connection

\* The batches a step gives up were stored before it, but for the one it creates.
GivenUp ==
    /\ expired \cup blind \subseteq expired' \cup blind'
    /\ \A id \in (expired' \cup blind') \ (expired \cup blind) : made'[id] # {} /\ id \in Id

LEMMA GivenUpStep == SoundInv /\ DeliveryInv /\ [DeliveryNext]_vars => GivenUp
  <1> SUFFICES ASSUME SoundInv, DeliveryInv, [DeliveryNext]_vars PROVE GivenUp
    OBVIOUS
  <1>t. /\ TypeOK /\ \A b \in batches : b.id \in Id /\ made[b.id] # {}
    BY DEF SoundInv, Sound, TypeOK, Batch
  <1>c. ASSUME UNCHANGED <<expired, blind>> PROVE GivenUp
    BY <1>c DEF GivenUp
  <1>d. ASSUME made' = made, UNCHANGED blind,
               NEW bs \in SUBSET batches, expired' = expired \cup Ids(bs)
        PROVE  GivenUp
    BY <1>t, <1>d DEF GivenUp, Ids
  <1> USE DEF outboxVars, histVars
  <1>1. CASE FlushDone
    <2>1. PICK id \in Fresh :
            LET b == [id |-> id, seq |-> seq + 1, created |-> now, entries |-> flight]
                all == batches \cup {b}
            IN /\ made' = [made EXCEPT ![id] = flight]
               /\ expired' = expired \cup Ids(all \ Fit(all))
      BY <1>1 DEF FlushDone, AppendBatch
    <2> DEFINE b == [id |-> id, seq |-> seq + 1, created |-> now, entries |-> flight]
               all == batches \cup {b}
    <2>2. flight # {} /\ blind' = blind
      BY <1>1 DEF FlushDone, AppendBatch
    <2>3. \A i \in Id : made[i] # {} \/ i = id => made'[i] # {}
      BY <1>t, <2>1, <2>2 DEF TypeOK
    <2>4. \A c \in all : c.id \in Id /\ made'[c.id] # {}
      BY <1>t, <2>3 DEF Fresh
    <2>5. expired' = expired \cup Ids(all \ Fit(all))
      BY <2>1
    <2> HIDE DEF all
    <2> QED
      BY <2>2, <2>4, <2>5 DEF GivenUp, Ids
  <1>2. CASE DropStep
    <2>1. CASE DropExpired
      BY <1>2, <1>d, <2>1 DEF DropStep, DropExpired
    <2>2. CASE UNCHANGED outboxVars
      BY <1>2, <1>c, <2>2 DEF DropStep
    <2> QED
      BY <1>2, <2>1, <2>2 DEF DropStep
  <1>3. CASE DeleteSent
    <2>1. CASE Ack(picked) /\ blind' = blind \cup {picked}
      <3> DEFINE rest == {b \in batches : b.id # picked}
      <3>1. /\ made' = made /\ expired' = expired \cup Ids(rest \ Fit(rest))
            /\ picked \in Ids(batches)
        BY <2>1 DEF Ack
      <3>2. rest \ Fit(rest) \subseteq batches
        OBVIOUS
      <3> HIDE DEF rest
      <3> QED
        BY <1>t, <2>1, <3>1, <3>2 DEF GivenUp, Ids
    <2>2. CASE UNCHANGED <<outboxVars, blind>>
      BY <1>c, <2>2
    <2> QED
      BY <1>3, <2>1, <2>2 DEF DeleteSent
  <1>4. CASE HandleAck
    <2>1. ASSUME NEW id, Ack(id), UNCHANGED blind PROVE GivenUp
      BY <1>d, <2>1 DEF Ack
    <2> QED
      BY <1>4, <1>c, <2>1 DEF HandleAck
  <1>5. CASE Restart \/ Stop \/ Day \/ Collect \/ BreakSocket \/ UNCHANGED vars
    BY <1>c, <1>5 DEF Restart, Load, Stop, Crash, Day, Tick, Collect, BreakSocket, vars
  <1>6. CASE StartReport \/ FlushFails \/ CheckConnected \/ PickOldest \/ EndRound
             \/ SendBatch \/ SendFails \/ CloseAfterFailure \/ MarkSent
    BY <1>c, <1>6 DEF StartReport, FlushFails, CheckConnected, PickOldest, EndRound,
                      SendBatch, SendFails, CloseAfterFailure, MarkSent
  <1>7. CASE Dial \/ SendAuth \/ AuthOK \/ ResetSent \/ Disconnect \/ HandleNack
    BY <1>c, <1>7 DEF Dial, SendAuth, AuthOK, ResetSent, Disconnect, HandleNack
  <1>8. CASE Master
    BY <1>c, <1>8 DEF Master, MasterBooks, MasterRefuses, OldMasterAdds, MasterForgets,
                      LoseFrames
  <1> QED
    BY <1>1, <1>2, <1>3, <1>4, <1>5, <1>6, <1>7, <1>8 DEF DeliveryNext, ReportLoop,
                                                          Connection

\* A booking is of a batch on the wire.
LEMMA BookedFromWire ==
    ASSUME DeliveryInv, NEW c \in Conn, MasterBooks(c) \/ OldMasterAdds(c)
    PROVE  /\ Head(up[c]) \in Id /\ OnWire(Head(up[c]))
           /\ committed' = committed \/ committed' = committed \cup {Head(up[c])}
  <1>1. up[c] # <<>> /\ up \in [Conn -> Seq(Id)]
    BY DEF MasterBooks, OldMasterAdds, DeliveryInv, DeliveryTypeOK
  <1>2. Head(up[c]) \in Id /\ 1 \in DOMAIN up[c] /\ Head(up[c]) = up[c][1]
    BY <1>1, QueueHead
  <1> QED
    BY <1>2 DEF OnWire, MasterBooks, OldMasterAdds, ledgerVars

LEMMA HistoryStep ==
    SoundInv /\ DeliveryInv /\ HistoryInv /\ [DeliveryNext]_vars => HistoryInv'
  <1> SUFFICES ASSUME SoundInv, DeliveryInv, HistoryInv, [DeliveryNext]_vars
               PROVE  HistoryInv'
    OBVIOUS
  <1>a. /\ \A id \in committed \cup expired \cup blind : made[id] # {} /\ id \in Id
        /\ \A id \in Id : OnWire(id) => made[id] # {}
    BY DEF HistoryInv, DeliveryInv, DeliveryTypeOK, TypeOK
  <1>m. \A id \in Id : made[id] # {} => made'[id] # {}
    BY OutboxStep, StoredStep
  <1>1. \A id \in expired' \cup blind' : made'[id] # {}
    BY <1>a, <1>m, GivenUpStep DEF GivenUp
  <1>2. ASSUME NEW id \in committed' PROVE made'[id] # {}
    <2>1. id \in committed \/ (id \in Id /\ OnWire(id))
      BY <1>2, BooksChange, BookedFromWire DEF BooksStand, MasterForgets
    <2> QED
      BY <1>a, <1>m, <2>1
  <1>3. ASSUME NEW id \in Id, OnWire(id)' PROVE made'[id] # {}
    <2>1. OnWire(id) \/ id \in Ids(batches)
      BY <1>3, WireSource
    <2>2. id \in Ids(batches) => made[id] # {}
      BY DEF SoundInv, Sound, Ids
    <2> QED
      BY <1>a, <1>m, <2>1, <2>2
  <1> QED
    BY <1>1, <1>2, <1>3 DEF HistoryInv

-------------------------------------------------------------------------------
(* Where a unit stands, step by step.                                      *)

\* The batches that decide where a unit stands are batches.
LEMMA KnownIds ==
    ASSUME LedgerInv
    PROVE  /\ committed \subseteq Id /\ expired \cup blind \subseteq Id
           /\ Ids(disk.batches) \subseteq Id
           /\ \A b \in disk.batches : b.id \in Id /\ made[b.id] # {}
           /\ made \in [Id -> SUBSET Entry]
           /\ \A i, j \in Id : i # j => made[i] \cap made[j] = {}
           /\ \A i \in Id : made[i] \cap (pending \cup flight) = {}
           /\ \A i \in Id : \A e \in made[i] : e \in Seen
  <1>1. TypeOK /\ Sound(made, acked, disk.batches, disk.seq)
    BY DEF LedgerInv, RetainedInv, SoundInv
  <1>2. \A b \in disk.batches : b.id \in Id /\ made[b.id] # {}
    BY <1>1 DEF Sound, TypeOK, File, Batch
  <1>3. EntryInOnePlace /\ committed \subseteq Id /\ blind \subseteq Id
    BY DEF LedgerInv, DeliveryInv, DeliveryTypeOK
  <1>4. \A i \in Id : made[i] \subseteq Stored
    BY DEF Stored
  <1> QED
    BY <1>1, <1>2, <1>3, <1>4 DEF EntryInOnePlace, TypeOK, Ids, Seen

\* What decides where a unit stands.
Volatile(e) == e \in pending \cup flight
Billed(e) == InBatches(e, committed)
Released(e) == InBatches(e, expired \cup blind)
Durable(e) == InBatches(e, Ids(disk.batches))

LEMMA StatusIs ==
    ASSUME NEW e \in Entry
    PROVE  /\ StatusOf(e) \in Ledger!Status
           /\ StatusOf(e) = "volatile" <=> Volatile(e)
           /\ StatusOf(e) = "billed" <=> Billed(e) /\ ~Volatile(e)
           /\ StatusOf(e) = "released" <=> Released(e) /\ ~Volatile(e) /\ ~Billed(e)
           /\ StatusOf(e) = "durable" <=>
                 Durable(e) /\ ~Volatile(e) /\ ~Billed(e) /\ ~Released(e)
           /\ StatusOf(e) = "unseen" <=>
                 e \notin Seen /\ ~Volatile(e) /\ ~Billed(e) /\ ~Released(e) /\ ~Durable(e)
  <1> USE DEF StatusOf, Volatile, Billed, Released, Durable
  <1>1. CASE Volatile(e)
    <2>1. StatusOf(e) = "volatile"
      BY <1>1
    <2> QED
      BY <1>1, <2>1 DEF Ledger!Status
  <1>2. CASE ~Volatile(e) /\ Billed(e)
    <2>1. StatusOf(e) = "billed"
      BY <1>2
    <2> QED
      BY <1>2, <2>1 DEF Ledger!Status
  <1>3. CASE ~Volatile(e) /\ ~Billed(e) /\ Released(e)
    <2>1. StatusOf(e) = "released"
      BY <1>3
    <2> QED
      BY <1>3, <2>1 DEF Ledger!Status
  <1>4. CASE ~Volatile(e) /\ ~Billed(e) /\ ~Released(e) /\ Durable(e)
    <2>1. StatusOf(e) = "durable"
      BY <1>4
    <2> QED
      BY <1>4, <2>1 DEF Ledger!Status
  <1>5. CASE ~Volatile(e) /\ ~Billed(e) /\ ~Released(e) /\ ~Durable(e)
    <2>1. StatusOf(e) = IF e \in Entry \ Seen THEN "unseen" ELSE "lost"
      BY <1>5
    <2> QED
      BY <1>5, <2>1 DEF Ledger!Status
  <1> QED
    BY <1>1, <1>2, <1>3, <1>4, <1>5

\* A move of the units of S, and of them alone.
LEMMA MoveOf ==
    ASSUME NEW S \in SUBSET Entry, NEW from, NEW to,
           \A e \in S : StatusOf(e) \in from /\ StatusOf(e)' = to,
           \A e \in Entry \ S : StatusOf(e)' = StatusOf(e)
    PROVE  Standing' = Standing \/ Ledger!Move(S, from, to)
  <1>1. CASE S = {}
    BY <1>1 DEF Standing
  <1>2. CASE S # {}
    <2>1. \A e \in S : Standing[e] \in from
      BY DEF Standing
    <2>2. Standing' = [e \in Entry |-> IF e \in S THEN to ELSE Standing[e]]
      BY DEF Standing
    <2> QED
      BY <1>2, <2>1, <2>2 DEF Ledger!Move
  <1> QED
    BY <1>1, <1>2

LEMMA StandingStays ==
    ASSUME pending' \cup flight' = pending \cup flight, vanished' = vanished,
           UNCHANGED <<made, committed, expired, blind>>, disk'.batches = disk.batches
    PROVE  Standing' = Standing
  <1>1. Stored' = Stored
    BY DEF Stored
  <1>2. Seen' = Seen
    BY <1>1 DEF Seen
  <1>3. ASSUME NEW e \in Entry PROVE StatusOf(e)' = StatusOf(e)
    BY <1>2 DEF StatusOf, InBatches, Ids
  <1> QED
    BY <1>3 DEF Standing

LEMMA CollectMoves ==
    ASSUME LedgerInv, Collect PROVE Standing' = Standing \/ Ledger!LedgerStep
  <1>1. PICK e \in Entry \ Seen : pending' = pending \cup {e}
    BY DEF Collect
  <1>2. UNCHANGED <<flight, vanished, made, committed, expired, blind, disk>>
    BY DEF Collect, outboxVars, ledgerVars, histVars
  <1>3. Stored' = Stored /\ Seen' = Seen \cup {e}
    BY <1>1, <1>2 DEF Stored, Seen
  <1>4. ~Volatile(e) /\ ~Billed(e) /\ ~Released(e) /\ ~Durable(e)
    BY <1>1, KnownIds DEF Volatile, Billed, Released, Durable, InBatches, Seen
  <1>5. StatusOf(e) = "unseen" /\ StatusOf(e)' = "volatile"
    <2>1. StatusOf(e) = "unseen"
      BY <1>1, <1>4, StatusIs
    <2>2. StatusOf(e)' = "volatile"
      BY <1>1 DEF StatusOf
    <2> QED
      BY <2>1, <2>2
  <1>6. ASSUME NEW x \in Entry \ {e} PROVE StatusOf(x)' = StatusOf(x)
    BY <1>1, <1>2, <1>3 DEF StatusOf, InBatches
  <1>7. {e} \in SUBSET Entry
    BY <1>1
  <1>8. Standing' = Standing \/ Ledger!Observe(e)
    BY <1>5, <1>6, <1>7, MoveOf DEF Ledger!Observe
  <1> QED
    BY <1>1, <1>8 DEF Ledger!LedgerStep

LEMMA StopMoves ==
    ASSUME LedgerInv, Stop PROVE Standing' = Standing \/ Ledger!LedgerStep
  <1>1. /\ pending' = {} /\ flight' = {} /\ vanished' = vanished \cup pending \cup flight
        /\ UNCHANGED <<made, committed, expired, blind, disk>>
    BY DEF Stop, Crash, ledgerVars
  <1>2. Stored' = Stored /\ Seen' = Seen
    BY <1>1 DEF Stored, Seen
  <1>3. ASSUME NEW e \in Entry, Volatile(e) PROVE StatusOf(e)' = "lost"
    <2>1. ~Billed(e) /\ ~Released(e) /\ ~Durable(e) /\ e \in Seen
      BY <1>3, KnownIds DEF Volatile, Billed, Released, Durable, InBatches, Seen
    <2> QED
      BY <1>1, <1>2, <2>1 DEF StatusOf, Billed, Released, Durable, InBatches
  <1>4. ASSUME NEW e \in Entry, ~Volatile(e) PROVE StatusOf(e)' = StatusOf(e)
    BY <1>1, <1>2, <1>4 DEF StatusOf, InBatches, Volatile
  <1>5. ASSUME NEW e \in Entry
        PROVE  StatusOf(e)' = IF Standing[e] = "volatile" THEN "lost" ELSE Standing[e]
    BY <1>3, <1>4, StatusIs DEF Standing
  <1>6. Standing' = [e \in Entry |-> IF Standing[e] = "volatile" THEN "lost"
                                      ELSE Standing[e]]
    BY <1>5 DEF Standing
  <1> QED
    BY <1>6 DEF Ledger!LedgerStep, Ledger!LoseMemory

\* A master books a batch that is in the outbox, or was released from it.
LEMMA BookingMoves ==
    ASSUME LedgerInv, NEW c \in Conn, MasterBooks(c) \/ OldMasterAdds(c)
    PROVE  Standing' = Standing \/ Ledger!LedgerStep
  <1> DEFINE id == Head(up[c])
  <1>1. id \in Id /\ OnWire(id) /\ (committed' = committed \/ committed' = committed \cup {id})
    BY BookedFromWire DEF LedgerInv
  <1>2. UNCHANGED <<pending, flight, vanished, made, expired, blind, disk>>
    BY DEF MasterBooks, OldMasterAdds, outboxVars, memVars, histVars
  <1> HIDE DEF id
  <1>3. Stored' = Stored /\ Seen' = Seen
    BY <1>2 DEF Stored, Seen
  <1>4. CASE committed' = committed
    BY <1>2, <1>4, StandingStays
  <1>5. CASE committed' = committed \cup {id} /\ id \notin committed
    <2>1. made[id] # {} /\ id \in committed \cup blind \cup expired \cup Ids(disk.batches)
      <3>1. made[id] # {}
        BY <1>1 DEF LedgerInv, HistoryInv
      <3>2. id \in acked \cup expired \cup Ids(disk.batches)
        BY <1>1, <3>1 DEF LedgerInv, RetainedInv, Retained, FileInv, Fresh, Ids
      <3> QED
        BY <3>1, <3>2 DEF LedgerInv, DeliveryInv, AckMeansBooked
    <2>2. made[id] \in SUBSET Entry
      BY <1>1, KnownIds
    <2>3. ASSUME NEW e \in made[id] PROVE StatusOf(e) \in {"durable", "released"}
      <3>1. ~Volatile(e) /\ ~Billed(e)
        BY <1>1, <1>5, <2>3, KnownIds DEF Volatile, Billed, InBatches
      <3>2. Released(e) \/ Durable(e)
        BY <1>5, <2>1, <2>3 DEF Released, Durable, InBatches
      <3> QED
        BY <2>2, <3>1, <3>2, StatusIs
    <2>4. ASSUME NEW e \in made[id] PROVE StatusOf(e)' = "billed"
      <3>1. ~Volatile(e)
        BY <1>1, <2>4, KnownIds DEF Volatile
      <3>2. e \notin pending' \cup flight' /\ InBatches(e, committed)'
        BY <1>2, <1>5, <2>4, <3>1 DEF InBatches, Volatile
      <3> QED
        BY <3>2 DEF StatusOf
    <2>5. ASSUME NEW e \in Entry \ made[id] PROVE StatusOf(e)' = StatusOf(e)
      BY <1>2, <1>3, <1>5, <2>5 DEF StatusOf, InBatches
    <2>6. Standing' = Standing \/ Ledger!Bill(made[id])
      BY <2>2, <2>3, <2>4, <2>5, MoveOf DEF Ledger!Bill
    <2> QED
      BY <2>2, <2>6 DEF Ledger!LedgerStep
  <1> QED
    BY <1>1, <1>4, <1>5

LEMMA ReleasedOrSame ==
    ASSUME NEW e \in Entry, Volatile(e)' <=> Volatile(e), Billed(e)' <=> Billed(e),
           Released(e) => Released(e)', Released(e)' => Released(e) \/ Durable(e),
           Durable(e)' => Durable(e), Durable(e) => Durable(e)' \/ Released(e)' \/ Billed(e),
           Seen' = Seen
    PROVE  \/ StatusOf(e)' = StatusOf(e)
           \/ StatusOf(e) = "durable" /\ StatusOf(e)' = "released"
  BY DEF StatusOf, Volatile, Billed, Released, Durable

\* The file gives up batches: to a limit, to an acknowledgement, or on sending.
LEMMA ReleaseMoves ==
    ASSUME LedgerInv,
           UNCHANGED <<pending, flight, vanished, made, committed>>,
           expired \cup blind \subseteq expired' \cup blind',
           disk'.batches \subseteq disk.batches,
           (expired' \cup blind') \ (expired \cup blind) \subseteq Ids(disk.batches),
           Ids(disk.batches) \ Ids(disk'.batches) \subseteq expired' \cup blind' \cup committed
    PROVE  Standing' = Standing \/ Ledger!LedgerStep
  <1>1. Stored' = Stored
    BY DEF Stored
  <1>2. Seen' = Seen
    BY <1>1 DEF Seen
  <1>i. Ids(disk'.batches) \subseteq Ids(disk.batches)
    BY DEF Ids
  <1>3. ASSUME NEW e \in Entry
        PROVE  \/ StatusOf(e)' = StatusOf(e)
               \/ StatusOf(e) = "durable" /\ StatusOf(e)' = "released"
    <2>1. /\ Volatile(e)' <=> Volatile(e)
          /\ Billed(e)' <=> Billed(e)
      BY DEF Volatile, Billed, InBatches
    <2>2. /\ Released(e) => Released(e)'
          /\ Released(e)' => Released(e) \/ Durable(e)
          /\ Durable(e)' => Durable(e)
          /\ Durable(e) => Durable(e)' \/ Released(e)' \/ Billed(e)
      BY <1>i DEF Released, Durable, Billed, InBatches
    <2> QED
      BY <1>2, <2>1, <2>2, ReleasedOrSame
  <1> DEFINE S == {e \in Entry : StatusOf(e)' # StatusOf(e)}
  <1>4. /\ \A e \in S : StatusOf(e) \in {"durable"} /\ StatusOf(e)' = "released"
        /\ \A e \in Entry \ S : StatusOf(e)' = StatusOf(e)
    BY <1>3
  <1>5. S \in SUBSET Entry
    OBVIOUS
  <1> HIDE DEF S
  <1>6. Standing' = Standing \/ Ledger!Release(S)
    BY <1>4, <1>5, MoveOf DEF Ledger!Release
  <1> QED
    BY <1>5, <1>6 DEF Ledger!LedgerStep

\* A flush makes what was taken out of memory durable, at the expense of the oldest.
LEMMA FlushMoves ==
    ASSUME LedgerInv, FlushDone PROVE Standing' = Standing \/ Ledger!LedgerStep
  <1>1. PICK id \in Fresh :
          LET b == [id |-> id, seq |-> seq + 1, created |-> now, entries |-> flight]
              all == batches \cup {b}
          IN /\ Commit(seq + 1, all)
             /\ made' = [made EXCEPT ![id] = flight]
             /\ expired' = expired \cup Ids(all \ Fit(all))
    BY DEF FlushDone, AppendBatch
  <1> DEFINE b == [id |-> id, seq |-> seq + 1, created |-> now, entries |-> flight]
             all == batches \cup {b}
  <1>2. /\ running /\ flight # {} /\ flight' = {}
        /\ UNCHANGED <<pending, committed, blind, vanished>>
    BY DEF FlushDone, AppendBatch, ledgerVars, histVars
  <1>3. batches = disk.batches
    BY <1>2 DEF LedgerInv, RetainedInv, MemoryIsDisk, FileInv
  <1>4. /\ \A c \in batches : c.seq \in Nat /\ c.seq <= seq
        /\ seq \in Nat
    BY DEF LedgerInv, RetainedInv, SoundInv, Sound, TypeOK, Batch
  <1>5. id \in Id /\ made[id] = {} /\ b.id = id /\ b.seq = seq + 1
    BY DEF Fresh
  <1> HIDE DEF b
  <1>6. b \in Fit(all)
    <2>1. From(all, b) = {b}
      BY <1>4, <1>5 DEF From
    <2> QED
      BY <2>1 DEF Fit
  <1>7. /\ disk'.batches = Fit(all) /\ expired' = expired \cup Ids(all \ Fit(all))
        /\ made' = [made EXCEPT ![id] = flight]
    BY <1>1 DEF Commit, FileOf, b
  <1>8. Fit(all) \subseteq all
    BY FitSubset
  <1> HIDE DEF all
  <1>9. all = disk.batches \cup {b}
    BY <1>3 DEF all
  <1>k. /\ committed \subseteq Id /\ expired \cup blind \subseteq Id
        /\ Ids(disk.batches) \subseteq Id /\ made \in [Id -> SUBSET Entry]
        /\ \A c \in disk.batches : c.id \in Id /\ made[c.id] # {}
        /\ \A i \in Id : made[i] \cap (pending \cup flight) = {}
    BY KnownIds
  <1>10. \A i \in Id : made'[i] = IF i = id THEN flight ELSE made[i]
    BY <1>5, <1>7, <1>k
  <1>11. /\ id \notin committed \cup expired \cup blind
         /\ \A c \in disk.batches : c.id # id
    BY <1>5, <1>k DEF LedgerInv, HistoryInv
  <1>12. /\ Ids(disk'.batches) \subseteq Ids(disk.batches) \cup {id}
         /\ id \in Ids(disk'.batches) /\ id \notin expired' \cup blind'
         /\ expired \subseteq expired' /\ expired' \subseteq expired \cup Ids(disk.batches)
         /\ Ids(disk.batches) \subseteq Ids(disk'.batches) \cup expired'
    BY <1>2, <1>5, <1>6, <1>7, <1>8, <1>9, <1>11 DEF Ids
  <1>13. pending \cap flight = {} /\ flight \in SUBSET Entry
    BY DEF LedgerInv, DeliveryInv, DeliveryTypeOK, EntryInOnePlace
  <1>14. Seen' = Seen
    <2>1. Stored' = Stored \cup flight
      BY <1>5, <1>10 DEF Stored
    <2> QED
      BY <1>2, <2>1 DEF Seen
  <1>15. ASSUME NEW e \in flight PROVE StatusOf(e) = "volatile" /\ StatusOf(e)' = "durable"
    <2>1. StatusOf(e) = "volatile"
      BY DEF StatusOf
    <2>2. \A i \in Id : e \in made'[i] <=> i = id
      BY <1>10, <1>k
    <2>3. /\ e \notin pending' \cup flight'
          /\ ~InBatches(e, committed)'
          /\ ~InBatches(e, expired \cup blind)'
          /\ InBatches(e, Ids(disk.batches))'
      BY <1>2, <1>5, <1>11, <1>12, <1>13, <1>k, <2>2 DEF InBatches
    <2>4. StatusOf(e)' = "durable"
      BY <2>3 DEF StatusOf
    <2> QED
      BY <2>1, <2>4
  <1>16. ASSUME NEW e \in Entry \ flight
         PROVE  \/ StatusOf(e)' = StatusOf(e)
                \/ StatusOf(e) = "durable" /\ StatusOf(e)' = "released"
    <2>1. \A i \in Id : e \in made'[i] <=> e \in made[i]
      BY <1>5, <1>10
    <2>2. e \notin made'[id] /\ e \notin made[id]
      BY <1>5, <1>10
    <2>3. (Volatile(e)' <=> Volatile(e)) /\ (Billed(e)' <=> Billed(e))
      BY <1>2, <1>k, <2>1 DEF Volatile, Billed, InBatches
    <2>4. /\ Released(e) => Released(e)'
          /\ Released(e)' => Released(e) \/ Durable(e)
      BY <1>2, <1>12, <1>k, <2>1, <2>2 DEF Released, Durable, InBatches
    <2>5. /\ Durable(e)' => Durable(e)
          /\ Durable(e) => Durable(e)' \/ Released(e)'
      BY <1>2, <1>5, <1>12, <1>k, <2>1, <2>2 DEF Released, Durable, InBatches
    <2> QED
      BY <1>14, <2>3, <2>4, <2>5, ReleasedOrSame
  <1> DEFINE R == {e \in Entry \ flight : StatusOf(e)' # StatusOf(e)}
  <1>17. /\ R \in SUBSET Entry
         /\ \A e \in R : Standing[e] = "durable"
         /\ \A e \in flight : Standing[e] = "volatile"
         /\ \A e \in Entry : Standing'[e] = IF e \in flight THEN "durable"
                                ELSE IF e \in R THEN "released" ELSE Standing[e]
    BY <1>13, <1>15, <1>16 DEF Standing
  <1>18. Standing' = [e \in Entry |-> IF e \in flight THEN "durable"
                                ELSE IF e \in R THEN "released" ELSE Standing[e]]
    BY <1>17 DEF Standing
  <1> HIDE DEF R
  <1>19. CASE R = {}
    <2>1. Ledger!Persist(flight)
      BY <1>2, <1>17, <1>18, <1>19 DEF Ledger!Persist, Ledger!Move
    <2> QED
      BY <1>13, <2>1 DEF Ledger!LedgerStep
  <1>20. CASE R # {}
    <2>1. Ledger!PersistAndRelease(flight, R)
      BY <1>2, <1>17, <1>18, <1>20 DEF Ledger!PersistAndRelease
    <2> QED
      BY <1>13, <1>17, <2>1 DEF Ledger!LedgerStep
  <1> QED
    BY <1>19, <1>20

\* A method of the outbox that only removes: what it removes is given up or booked.
LEMMA RemovalMoves ==
    ASSUME LedgerInv, running, NEW s, NEW bs \in SUBSET batches, Commit(s, bs),
           UNCHANGED <<pending, flight, vanished, made, committed>>,
           expired' \cup blind' \subseteq expired \cup blind \cup Ids(batches),
           expired \cup Ids(bs \ Fit(bs)) \subseteq expired', blind \subseteq blind',
           \A b \in batches \ bs : b.id \in expired' \cup blind' \cup committed
    PROVE  Standing' = Standing \/ Ledger!LedgerStep
  <1>1. batches = disk.batches
    BY DEF LedgerInv, RetainedInv, MemoryIsDisk, FileInv
  <1>2. disk'.batches = Fit(bs) /\ Fit(bs) \subseteq bs
    BY FitSubset DEF Commit, FileOf
  <1>3. disk'.batches \subseteq disk.batches
    BY <1>1, <1>2
  <1>4. Ids(disk.batches) \ Ids(disk'.batches) \subseteq expired' \cup blind' \cup committed
    BY <1>1, <1>2 DEF Ids
  <1> QED
    BY <1>1, <1>3, <1>4, ReleaseMoves

LEMMA DropMoves ==
    ASSUME LedgerInv, DropStep PROVE Standing' = Standing \/ Ledger!LedgerStep
  <1>1. CASE DropExpired
    <2>1. /\ running /\ Commit(seq, Kept) /\ UNCHANGED made
          /\ expired' = expired \cup Ids(batches \ Fit(Kept))
      BY <1>1 DEF DropExpired
    <2>2. UNCHANGED <<pending, flight, vanished, committed, blind>>
      BY DEF DropStep, memVars, histVars, ledgerVars
    <2>3. Kept \in SUBSET batches /\ Fit(Kept) \subseteq Kept
      BY FitSubset DEF Kept, Live
    <2>4. /\ expired' \cup blind' \subseteq expired \cup blind \cup Ids(batches)
          /\ expired \cup Ids(Kept \ Fit(Kept)) \subseteq expired'
          /\ \A b \in batches \ Kept : b.id \in expired'
      BY <2>1, <2>2, <2>3 DEF Ids
    <2> QED
      BY <2>1, <2>2, <2>3, <2>4, RemovalMoves
  <1>2. CASE UNCHANGED outboxVars
    BY <1>2, StandingStays DEF DropStep, outboxVars, memVars, histVars, ledgerVars
  <1> QED
    BY <1>1, <1>2 DEF DropStep

LEMMA AckMoves ==
    ASSUME LedgerInv, NEW id, Ack(id), UNCHANGED <<pending, flight, vanished, committed>>,
           \/ blind' = blind /\ id \in committed
           \/ blind' = blind \cup {id}
    PROVE  Standing' = Standing \/ Ledger!LedgerStep
  <1> DEFINE rest == {b \in batches : b.id # id}
  <1>1. /\ running /\ Commit(seq, rest) /\ UNCHANGED made /\ id \in Ids(batches)
        /\ expired' = expired \cup Ids(rest \ Fit(rest))
    BY DEF Ack
  <1>2. rest \in SUBSET batches /\ \A b \in batches \ rest : b.id = id
    OBVIOUS
  <1> HIDE DEF rest
  <1>3. /\ expired' \cup blind' \subseteq expired \cup blind \cup Ids(batches)
        /\ expired \cup Ids(rest \ Fit(rest)) \subseteq expired' /\ blind \subseteq blind'
        /\ \A b \in batches \ rest : b.id \in expired' \cup blind' \cup committed
    BY <1>1, <1>2 DEF Ids
  <1> QED
    BY <1>1, <1>2, <1>3, RemovalMoves

\* Every step moves the units as TrafficLedger allows, or not at all.
LEMMA LedgerStepSimulated ==
    ASSUME LedgerInv, "read" \notin Faults, [DeliveryNext]_vars
    PROVE  [Ledger!LedgerNext]_Standing
  <1> SUFFICES Standing' = Standing \/ Ledger!LedgerStep
    BY DEF Ledger!LedgerNext
  <1> USE DEF outboxVars, memVars, histVars, ledgerVars
  <1>1. CASE Collect
    BY <1>1, CollectMoves
  <1>2. CASE FlushDone
    BY <1>2, FlushMoves
  <1>3. CASE DropStep
    BY <1>3, DropMoves
  <1>4. CASE DeleteSent
    <2>1. CASE Ack(picked) /\ blind' = blind \cup {picked}
      BY <1>4, <2>1, AckMoves DEF DeleteSent
    <2>2. CASE UNCHANGED <<outboxVars, blind>>
      BY <1>4, <2>2, StandingStays DEF DeleteSent
    <2> QED
      BY <1>4, <2>1, <2>2 DEF DeleteSent
  <1>5. CASE HandleAck
    <2>1. down # <<>> /\ Head(down).ok
      BY <1>5 DEF HandleAck
    <2>2. Head(down).id \in committed
      BY <2>1, QueueHead DEF LedgerInv, DeliveryInv, DeliveryTypeOK, AckMeansBooked
    <2>3. CASE Ack(Head(down).id)
      BY <1>5, <2>2, <2>3, AckMoves DEF HandleAck
    <2>4. CASE UNCHANGED outboxVars
      BY <1>5, <2>4, StandingStays DEF HandleAck
    <2> QED
      BY <1>5, <2>3, <2>4 DEF HandleAck
  <1>6. CASE Stop
    BY <1>6, StopMoves
  <1>7. CASE Restart
    <2>1. disk' = disk
      BY <1>7 DEF Restart, Load, LoadSound, LoadUnreadable, QuarantineFails, Salvage,
                  NothingToSalvage, LedgerInv, FileInv
    <2> QED
      BY <1>7, <2>1, StandingStays DEF Restart, Load
  <1>8. CASE Day
    BY <1>8, StandingStays DEF Day, Tick
  <1>9. CASE StartReport \/ FlushFails
    <2>1. /\ pending' \cup flight' = pending \cup flight
          /\ UNCHANGED <<vanished, made, committed, expired, blind, disk>>
      BY <1>9 DEF StartReport, FlushFails, LedgerInv, FlightInv
    <2> QED
      BY <2>1, StandingStays
  <1>10. CASE CheckConnected \/ PickOldest \/ EndRound \/ SendBatch \/ SendFails
              \/ CloseAfterFailure \/ MarkSent
    BY <1>10, StandingStays DEF CheckConnected, PickOldest, EndRound, SendBatch, SendFails,
                                CloseAfterFailure, MarkSent
  <1>11. CASE Dial \/ SendAuth \/ AuthOK \/ ResetSent \/ Disconnect \/ HandleNack
              \/ BreakSocket
    BY <1>11, StandingStays DEF Dial, SendAuth, AuthOK, ResetSent, Disconnect, HandleNack,
                                BreakSocket
  <1>12. ASSUME NEW c \in Conn, MasterBooks(c) \/ OldMasterAdds(c)
         PROVE  Standing' = Standing \/ Ledger!LedgerStep
    BY <1>12, BookingMoves
  <1>13. ASSUME NEW c \in Conn, MasterRefuses(c) \/ LoseFrames(c)
         PROVE  Standing' = Standing \/ Ledger!LedgerStep
    BY <1>13, StandingStays DEF MasterRefuses, LoseFrames
  <1>14. CASE MasterForgets
    BY <1>14, StandingStays DEF MasterForgets
  <1>15. CASE UNCHANGED vars
    BY <1>15, StandingStays DEF vars
  <1> QED
    BY <1>1, <1>2, <1>3, <1>4, <1>5, <1>6, <1>7, <1>8, <1>9, <1>10, <1>11, <1>12, <1>13,
       <1>14, <1>15 DEF DeliveryNext, ReportLoop, Connection, Master

LEMMA LedgerInitSimulated == DeliveryInit => Ledger!LedgerInit
  <1> SUFFICES ASSUME DeliveryInit, NEW e \in Entry PROVE StatusOf(e) = "unseen"
    BY DEF Ledger!LedgerInit, Standing
  <1>1. ~Volatile(e) /\ ~Billed(e) /\ ~Released(e) /\ ~Durable(e) /\ e \notin Seen
    BY DEF DeliveryInit, Init, Volatile, Billed, Released, Durable, InBatches, Seen, Stored,
           Absent, Ids
  <1> QED
    BY <1>1, StatusIs

\* The agent keeps the promise of TrafficLedger: what is durable stays so until it is
\* billed or released on purpose, and what was not yet saved is all that a stop loses.
\* (A file that cannot be read is replaced by the next save, with what it held.)
THEOREM DeliveryImplementsLedger ==
    ASSUME "read" \notin Faults
    PROVE  DeliverySpec => ImplementsLedger
  <1>1. DeliveryInit => LedgerInv /\ Ledger!LedgerInit
    <2>1. DeliveryInit => FileInv /\ HistoryInv /\ FlightInv
      BY DEF DeliveryInit, Init, FileInv, HistoryInv, FlightInv, OnWire, Absent
    <2> QED
      BY <2>1, RetainedInit, DeliveryInvInit, LedgerInitSimulated
      DEF DeliveryInit, LedgerInv
  <1>2. LedgerInv /\ [DeliveryNext]_vars => LedgerInv'
    <2> SUFFICES ASSUME LedgerInv, [DeliveryNext]_vars PROVE LedgerInv'
      OBVIOUS
    <2>1. RetainedInv' /\ DeliveryInv'
      BY OutboxStep, RetainedStep, DeliveryInvStep DEF LedgerInv
    <2>2. FileInv' /\ HistoryInv' /\ FlightInv'
      BY FileStep, HistoryStep, FlightStep DEF LedgerInv, RetainedInv
    <2> QED
      BY <2>1, <2>2 DEF LedgerInv
  <1>3. LedgerInv /\ [DeliveryNext]_vars => [Ledger!LedgerNext]_Standing
    BY LedgerStepSimulated
  <1> QED
    BY <1>1, <1>2, <1>3, PTL DEF DeliverySpec, ImplementsLedger, Ledger!LedgerSpec
===============================================================================
