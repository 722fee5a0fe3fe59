---------------------------- MODULE TrafficDelivery ----------------------------
(***************************************************************************)
(* Traffic from xray's counters to the master's books: the collect loop,   *)
(* the report loop and the message loop of internal/agent/client/client.go *)
(* around one Outbox, a WebSocket that may break at any moment, and the    *)
(* master, which is external.                                              *)
(*                                                                         *)
(* Three goroutines interleave: the report loop (rpc), connectAndServe     *)
(* (phase) and the collect loop (Collect).  A step is what one of them     *)
(* does under one mutex, or up to its next call that can block.            *)
(***************************************************************************)
EXTENDS Outbox, Sequences

CONSTANTS
    Caps,          \* the masters that may answer: TRUE declares traffic_ack
    BatchesPerTick,\* maxBatchesPerTick
    Retention,     \* external: how long a master remembers a batch id
    NetFaults,     \* subset of {"refuse", "break", "stop"}
    MaxConns,      \* bound on connections
    MaxFaults,     \* bound on refusals, broken sockets, stops and failed saves
    NoId

Conn == 1..MaxConns

ASSUME DeliveryAssumption ==
    /\ Caps \subseteq BOOLEAN
    /\ BatchesPerTick \in Nat \ {0}
    /\ Retention \in Nat
    /\ NetFaults \subseteq {"refuse", "break", "stop"}
    /\ MaxConns \in Nat
    /\ MaxFaults \in Nat
    /\ NoId \notin Id

VARIABLES
    pending,   \* c.pending
    flight,    \* entries flushPendingToOutbox took out of pending
    rpc,       \* where the report loop is
    picked,    \* the batch drainOutbox is sending
    left,      \* batches drainOutbox may still send in this round
    drainAck,  \* drainOutbox's local ackMode
    kick,      \* c.reportKick holds a token
    phase,     \* where connectAndServe is; c.ws = nil iff "down"
    conn,      \* the connection c.ws belongs to, numbered from 1
    alive,     \* the socket of conn works
    ackMode,   \* c.ackMode
    sent,      \* c.sentThisConn
    up,        \* traffic_report frames on their way, by connection
    down,      \* traffic_ack frames on their way to the agent
    cap,       \* external: what the master of each connection declares
    ledger,    \* external: <<batch id, commit time>> the master remembers
    committed, \* history: batches some master has booked
    billed,    \* history: how often each entry was booked, 2 stands for more
    blind,     \* history: batches deleted on sending, without waiting
    vanished,  \* history: entries that were only in memory at a crash
    faults     \* faults so far

ledgerVars == <<ledger, committed, billed>>
netVars == <<up, down, cap>>
connVars == <<phase, conn, alive, ackMode>>
loopVars == <<rpc, picked, left, drainAck>>
memVars == <<pending, flight>>
histVars == <<blind, vanished>>

vars == <<outboxVars, ledgerVars, netVars, connVars, loopVars, memVars,
          histVars, sent, kick, faults>>

RpcState == {"idle", "append", "drop", "check", "pick", "send", "fail", "sent"}
Phase == {"down", "dialed", "auth", "reset", "serving"}
Answer == [id : Id, ok : BOOLEAN]

Stored == UNION {made[i] : i \in Id}
Seen == pending \cup flight \cup Stored \cup vanished

\* A fault happens: the bound on the number of faults.
Fault ==
    /\ faults < MaxFaults
    /\ faults' = faults + 1

-------------------------------------------------------------------------------
DeliveryInit ==
    /\ Init
    /\ pending = {} /\ flight = {}
    /\ rpc = "idle" /\ picked = NoId /\ left = 0 /\ drainAck = FALSE
    /\ kick = FALSE
    /\ phase = "down" /\ conn = 0 /\ alive = FALSE /\ ackMode = FALSE
    /\ sent = {}
    /\ up = [c \in Conn |-> <<>>] /\ down = <<>>
    /\ cap \in [Conn -> Caps]
    /\ ledger = {} /\ committed = {} /\ billed = [e \in Entry |-> 0]
    /\ blind = {} /\ vanished = {} /\ faults = 0

-------------------------------------------------------------------------------
(* The collect loop: a delta xray counted is accumulated in pending.       *)

Collect ==
    /\ running
    /\ \E e \in Entry \ Seen : pending' = pending \cup {e}
    /\ UNCHANGED <<outboxVars, ledgerVars, netVars, connVars, loopVars,
                   flight, histVars, sent, kick, faults>>

-------------------------------------------------------------------------------
(* The report loop.                                                        *)

\* reportPending starts, on the ticker or on a kick.
StartReport ==
    /\ running
    /\ rpc = "idle"
    /\ \/ kick' = FALSE
       \/ UNCHANGED kick
    /\ flight' = pending
    /\ pending' = {}
    /\ rpc' = IF pending = {} THEN "drop" ELSE "append"
    /\ UNCHANGED <<outboxVars, ledgerVars, netVars, connVars, picked, left,
                   drainAck, histVars, sent, faults>>

\* Mutant of FlushDone: the entries are put back although they were saved.
FlushPutsBack ==
    /\ rpc = "append"
    /\ AppendBatch(flight)
    /\ pending' = pending \cup flight
    /\ flight' = {}
    /\ rpc' = "drop"
    /\ UNCHANGED <<ledgerVars, netVars, connVars, picked, left, drainAck,
                   histVars, sent, kick, faults>>

FlushDone ==
    /\ rpc = "append"
    /\ AppendBatch(flight)
    /\ flight' = {}
    /\ rpc' = "drop"
    /\ UNCHANGED <<ledgerVars, netVars, connVars, pending, picked, left,
                   drainAck, histVars, sent, kick, faults>>

\* Append could not save: restorePending.
FlushFails ==
    /\ rpc = "append"
    /\ "write" \in Faults
    /\ Fault
    /\ pending' = pending \cup flight
    /\ flight' = {}
    /\ rpc' = "drop"
    /\ UNCHANGED <<outboxVars, ledgerVars, netVars, connVars, picked, left,
                   drainAck, histVars, sent, kick>>

\* Mutant of DropStep: over-age batches stay.
DropNothing ==
    /\ rpc = "drop"
    /\ rpc' = "check"
    /\ UNCHANGED <<outboxVars, ledgerVars, netVars, connVars, memVars, picked,
                   left, drainAck, histVars, sent, kick, faults>>

\* DropExpired: something to drop, nothing to drop, or a save that failed.
DropStep ==
    /\ rpc = "drop"
    /\ rpc' = "check"
    /\ \/ DropExpired /\ UNCHANGED faults
       \/ Kept = batches /\ UNCHANGED <<outboxVars, faults>>
       \/ Kept # batches /\ "write" \in Faults /\ Fault /\ UNCHANGED outboxVars
    /\ UNCHANGED <<ledgerVars, netVars, connVars, memVars, picked, left,
                   drainAck, histVars, sent, kick>>

\* Mutant of CheckConnected: the limit of the round is not renewed.
CheckKeepsLimit ==
    /\ rpc = "check"
    /\ IF phase = "down"
         THEN rpc' = "idle" /\ UNCHANGED drainAck
         ELSE rpc' = "pick" /\ drainAck' = ackMode
    /\ UNCHANGED <<outboxVars, ledgerVars, netVars, connVars, memVars, picked,
                   left, histVars, sent, kick, faults>>

\* connected() and the single load of ackMode that serves the whole round.
CheckConnected ==
    /\ rpc = "check"
    /\ IF phase = "down"
         THEN rpc' = "idle" /\ UNCHANGED <<left, drainAck>>
         ELSE rpc' = "pick" /\ left' = BatchesPerTick /\ drainAck' = ackMode
    /\ UNCHANGED <<outboxVars, ledgerVars, netVars, connVars, memVars, picked,
                   histVars, sent, kick, faults>>

Unsent == {b \in batches : b.id \notin sent}

\* OldestExcept(awaitingAck)
PickOldest ==
    /\ rpc = "pick"
    /\ left > 0
    /\ \E b \in Unsent :
         /\ \A c \in Unsent : b.seq <= c.seq
         /\ picked' = b.id
    /\ rpc' = "send"
    /\ UNCHANGED <<outboxVars, ledgerVars, netVars, connVars, memVars, left,
                   drainAck, histVars, sent, kick, faults>>

EndRound ==
    /\ rpc = "pick"
    /\ left = 0 \/ Unsent = {}
    /\ rpc' = "idle"
    /\ UNCHANGED <<outboxVars, ledgerVars, netVars, connVars, memVars, picked,
                   left, drainAck, histVars, sent, kick, faults>>

\* send writes the frame.  The master insists on auth as the first frame: one
\* that overtakes it makes the master close the connection.
SendBatch ==
    /\ rpc = "send"
    /\ phase # "down" /\ alive
    /\ rpc' = "sent"
    /\ IF phase = "dialed"
         THEN alive' = FALSE /\ UNCHANGED up
         ELSE up' = [up EXCEPT ![conn] = Append(@, picked)] /\ UNCHANGED alive
    /\ UNCHANGED <<outboxVars, ledgerVars, down, cap, phase, conn, ackMode,
                   memVars, picked, left, drainAck, histVars, sent, kick, faults>>

SendFails ==
    /\ rpc = "send"
    /\ phase = "down" \/ ~alive
    /\ rpc' = "fail"
    /\ UNCHANGED <<outboxVars, ledgerVars, netVars, connVars, memVars, picked,
                   left, drainAck, histVars, sent, kick, faults>>

\* TriggerReconnect closes the connection c.ws holds by now.
CloseAfterFailure ==
    /\ rpc = "fail"
    /\ rpc' = "idle"
    /\ alive' = FALSE
    /\ UNCHANGED <<outboxVars, ledgerVars, netVars, phase, conn, ackMode,
                   memVars, picked, left, drainAck, histVars, sent, kick, faults>>

MarkSent ==
    /\ rpc = "sent"
    /\ drainAck
    /\ sent' = sent \cup {picked}
    /\ rpc' = "pick"
    /\ left' = left - 1
    /\ UNCHANGED <<outboxVars, ledgerVars, netVars, connVars, memVars, picked,
                   drainAck, histVars, kick, faults>>

\* A master without traffic_ack: the batch is deleted as soon as it is sent.
DeleteSent ==
    /\ rpc = "sent"
    /\ ~drainAck
    /\ rpc' = "pick"
    /\ left' = left - 1
    /\ \/ Ack(picked) /\ blind' = blind \cup {picked} /\ UNCHANGED faults
       \/ picked \notin Ids(batches) /\ UNCHANGED <<outboxVars, blind, faults>>
       \/ "write" \in Faults /\ Fault /\ UNCHANGED <<outboxVars, blind>>
    /\ UNCHANGED <<ledgerVars, netVars, connVars, memVars, picked, drainAck,
                   vanished, sent, kick>>

-------------------------------------------------------------------------------
(* connectAndServe.                                                        *)

Dial ==
    /\ running
    /\ phase = "down"
    /\ conn < MaxConns
    /\ phase' = "dialed"
    /\ conn' = conn + 1
    /\ alive' = TRUE
    /\ down' = <<>>
    /\ UNCHANGED <<outboxVars, ledgerVars, up, cap, ackMode, memVars, loopVars,
                   histVars, sent, kick, faults>>

SendAuth ==
    /\ phase = "dialed"
    /\ alive
    /\ phase' = "auth"
    /\ UNCHANGED <<outboxVars, ledgerVars, netVars, conn, alive, ackMode,
                   memVars, loopVars, histVars, sent, kick, faults>>

\* auth_ok arrives and its caps are stored.
AuthOK ==
    /\ phase = "auth"
    /\ alive
    /\ ackMode' = cap[conn]
    /\ phase' = "reset"
    /\ UNCHANGED <<outboxVars, ledgerVars, netVars, conn, alive, memVars,
                   loopVars, histVars, sent, kick, faults>>

\* resetSent and kickReport
ResetSent ==
    /\ phase = "reset"
    /\ sent' = {}
    /\ kick' = TRUE
    /\ phase' = "serving"
    /\ UNCHANGED <<outboxVars, ledgerVars, netVars, conn, alive, ackMode,
                   memVars, loopVars, histVars, faults>>

\* A write or read fails and the deferred function clears c.ws.
Disconnect ==
    /\ phase \in {"dialed", "auth", "serving"}
    /\ ~alive
    /\ phase' = "down"
    /\ down' = <<>>
    /\ UNCHANGED <<outboxVars, ledgerVars, up, cap, conn, alive, ackMode,
                   memVars, loopVars, histVars, sent, kick, faults>>

\* Mutant of HandleNack: any answer deletes the batch.
NackDeletes ==
    /\ phase = "serving"
    /\ down # <<>>
    /\ ~Head(down).ok
    /\ \/ Ack(Head(down).id)
       \/ Head(down).id \notin Ids(batches) /\ UNCHANGED outboxVars
    /\ sent' = sent \ {Head(down).id}
    /\ down' = Tail(down)
    /\ UNCHANGED <<ledgerVars, up, cap, connVars, memVars, loopVars, histVars,
                   kick, faults>>

\* traffic_ack with ok = false: clearSent.
HandleNack ==
    /\ phase = "serving"
    /\ down # <<>>
    /\ ~Head(down).ok
    /\ sent' = sent \ {Head(down).id}
    /\ down' = Tail(down)
    /\ UNCHANGED <<outboxVars, ledgerVars, up, cap, connVars, memVars, loopVars,
                   histVars, kick, faults>>

\* traffic_ack with ok = true: Ack, then clearSent.  No step of the report loop
\* can tell the two apart, so they are one action.
HandleAck ==
    /\ phase = "serving"
    /\ down # <<>>
    /\ Head(down).ok
    /\ \/ Ack(Head(down).id) /\ UNCHANGED faults
       \/ Head(down).id \notin Ids(batches) /\ UNCHANGED <<outboxVars, faults>>
       \/ "write" \in Faults /\ Fault /\ UNCHANGED outboxVars
    /\ sent' = sent \ {Head(down).id}
    /\ down' = Tail(down)
    /\ UNCHANGED <<ledgerVars, up, cap, connVars, memVars, loopVars, histVars,
                   kick>>

-------------------------------------------------------------------------------
(* The master and the network: external.                                   *)

Booked == {r[1] : r \in ledger}
Book(id) ==
    billed' = [e \in Entry |->
                 IF e \in made[id] /\ billed[e] < 2 THEN billed[e] + 1 ELSE billed[e]]

Reply(c, id, ok) ==
    down' = IF c = conn /\ alive
              THEN Append(down, [id |-> id, ok |-> ok]) ELSE down

\* The dedupe record and the traffic are one transaction, the answer follows.
MasterBooks(c) ==
    /\ up[c] # <<>>
    /\ cap[c]
    /\ LET id == Head(up[c])
       IN /\ IF id \in Booked
               THEN UNCHANGED ledgerVars
               ELSE /\ Book(id)
                    /\ ledger' = ledger \cup {<<id, now>>}
                    /\ committed' = committed \cup {id}
          /\ Reply(c, id, TRUE)
    /\ up' = [up EXCEPT ![c] = Tail(@)]
    /\ UNCHANGED <<outboxVars, cap, connVars, memVars, loopVars, histVars, sent,
                   kick, faults>>

MasterRefuses(c) ==
    /\ up[c] # <<>>
    /\ cap[c]
    /\ "refuse" \in NetFaults /\ Fault
    /\ Reply(c, Head(up[c]), FALSE)
    /\ up' = [up EXCEPT ![c] = Tail(@)]
    /\ UNCHANGED <<outboxVars, ledgerVars, cap, connVars, memVars, loopVars,
                   histVars, sent, kick>>

\* A master from before traffic_ack adds up whatever it receives.
OldMasterAdds(c) ==
    /\ up[c] # <<>>
    /\ ~cap[c]
    /\ Book(Head(up[c]))
    /\ committed' = committed \cup {Head(up[c])}
    /\ up' = [up EXCEPT ![c] = Tail(@)]
    /\ UNCHANGED <<outboxVars, ledger, down, cap, connVars, memVars, loopVars,
                   histVars, sent, kick, faults>>

MasterForgets ==
    /\ \E r \in ledger : r[2] < now - Retention /\ ledger' = ledger \ {r}
    /\ UNCHANGED <<outboxVars, committed, billed, netVars, connVars, memVars,
                   loopVars, histVars, sent, kick, faults>>

BreakSocket ==
    /\ alive
    /\ "break" \in NetFaults /\ Fault
    /\ alive' = FALSE
    /\ UNCHANGED <<outboxVars, ledgerVars, netVars, phase, conn, ackMode,
                   memVars, loopVars, histVars, sent, kick>>

\* What a broken connection still held does not arrive.
LoseFrames(c) ==
    /\ up[c] # <<>>
    /\ c # conn \/ ~alive
    /\ up' = [up EXCEPT ![c] = <<>>]
    /\ UNCHANGED <<outboxVars, ledgerVars, down, cap, connVars, memVars,
                   loopVars, histVars, sent, kick, faults>>

-------------------------------------------------------------------------------
(* The process stops, by a crash or by an orderly exit: Run returns        *)
(* without flushing pending.                                               *)
Stop ==
    /\ "stop" \in NetFaults /\ Fault
    /\ Crash
    /\ vanished' = vanished \cup pending \cup flight
    /\ pending' = {} /\ flight' = {}
    /\ rpc' = "idle" /\ picked' = NoId /\ left' = 0 /\ drainAck' = FALSE
    /\ kick' = FALSE
    /\ phase' = "down" /\ alive' = FALSE /\ ackMode' = FALSE
    /\ sent' = {}
    /\ down' = <<>>
    /\ UNCHANGED <<ledgerVars, up, cap, conn, blind>>

Restart ==
    /\ Load
    /\ UNCHANGED <<ledgerVars, netVars, connVars, memVars, loopVars, histVars,
                   sent, kick, faults>>

\* A tick is as long as MaxAge is in ticks: a round of the report loop, with its
\* write deadlines of 10 s, a frame and an answer are over within it.
Day ==
    /\ rpc = "idle"
    /\ \A c \in Conn : up[c] = <<>>
    /\ down = <<>>
    /\ Tick
    /\ UNCHANGED <<ledgerVars, netVars, connVars, memVars, loopVars, histVars,
                   sent, kick, faults>>

-------------------------------------------------------------------------------
ReportLoop ==
    \/ StartReport \/ FlushDone \/ FlushFails \/ DropStep \/ CheckConnected
    \/ PickOldest \/ EndRound \/ SendBatch \/ SendFails \/ CloseAfterFailure
    \/ MarkSent \/ DeleteSent

Connection ==
    \/ Dial \/ SendAuth \/ AuthOK \/ ResetSent \/ Disconnect
    \/ HandleNack \/ HandleAck

Master ==
    \/ \E c \in Conn : \/ MasterBooks(c) \/ MasterRefuses(c)
                       \/ OldMasterAdds(c) \/ LoseFrames(c)
    \/ MasterForgets

DeliveryNext ==
    \/ Collect \/ ReportLoop \/ Connection \/ Master
    \/ BreakSocket \/ Stop \/ Restart \/ Day

DeliverySpec == DeliveryInit /\ [][DeliveryNext]_vars

\* The loops of the agent run, and a master answers what it received.
Fairness ==
    /\ WF_vars(ReportLoop)
    /\ WF_vars(Connection)
    /\ WF_vars(Restart)
    /\ \A c \in Conn : WF_vars(MasterBooks(c) \/ OldMasterAdds(c) \/ LoseFrames(c))

FairSpec == DeliverySpec /\ Fairness

-------------------------------------------------------------------------------
(* Every variable has its type.                                            *)
DeliveryTypeOK ==
    /\ TypeOK
    /\ pending \subseteq Entry /\ flight \subseteq Entry
    /\ rpc \in RpcState /\ picked \in Id \cup {NoId}
    /\ left \in 0..BatchesPerTick /\ drainAck \in BOOLEAN
    /\ kick \in BOOLEAN
    /\ phase \in Phase /\ conn \in 0..MaxConns
    /\ alive \in BOOLEAN /\ ackMode \in BOOLEAN
    /\ sent \subseteq Id
    /\ up \in [Conn -> Seq(Id)] /\ down \in Seq(Answer)
    /\ cap \in [Conn -> BOOLEAN]
    /\ ledger \subseteq Id \X (0..MaxTime) /\ committed \subseteq Id
    /\ billed \in [Entry -> 0..2]
    /\ blind \subseteq Id /\ vanished \subseteq Entry
    /\ faults \in 0..MaxFaults

\* At-least-once delivery: a batch that was ever saved is still in a file, or a
\* master booked it, or it went to a limit or with a file that could not be read or
\* set aside, or the agent took the master for one that sends no traffic_ack.  No
\* crash, broken connection, lost answer or failed save is among the reasons.
DeletedOnlyWhenBooked ==
    \A id \in Id \ Fresh :
        id \in Ids(disk.batches) \cup Ids(quarantine) \cup abandoned
                 \cup committed \cup expired \cup blind

\* reportPending clears pending before it saves and puts it back when the save
\* fails: an entry is in one place, or it would be billed under two ids.
EntryInOnePlace ==
    /\ pending \cap flight = {}
    /\ (pending \cup flight) \cap Stored = {}
    /\ \A i, j \in Id : i # j => made[i] \cap made[j] = {}

\* Resending is absorbed by the master's dedupe records: an entry is billed once,
\* even when the batch is sent again until it is as old as maxAge.
BilledOnce == \A e \in Entry : billed[e] <= 1

\* A batch that waits while a connection serves is sent or deleted, unless the
\* connection ends first: neither the batches awaiting their answer nor the
\* limit of a round keep the report loop from it.
EventuallySent ==
    \A id \in Id :
        (id \in Ids(batches) /\ phase = "serving" /\ alive)
          ~> (id \in sent \/ id \notin Ids(batches) \/ ~alive)

\* PROTOCOL.md:151: traffic stored for a master that answers is deleted only
\* after its traffic_ack.
DeletedOnlyAfterAck == acked \subseteq committed
===============================================================================
