----------------------------- MODULE TrafficLedger -----------------------------
(***************************************************************************)
(* What the agent promises about a unit of traffic, without saying how:    *)
(* docs/PROTOCOL.md section 5 and the package comment of outbox.go.  Once  *)
(* it is durable nothing that may happen to the process or the connection  *)
(* loses it; it is billed, or it is released on purpose (a limit, or a     *)
(* master that sends no traffic_ack).                                      *)
(***************************************************************************)
CONSTANT Entry   \* units of traffic

VARIABLE status  \* where each unit stands

Status == {"unseen", "volatile", "durable", "released", "billed", "lost"}

LedgerTypeOK == status \in [Entry -> Status]

Move(S, from, to) ==
    /\ S # {}
    /\ \A e \in S : status[e] \in from
    /\ status' = [e \in Entry |-> IF e \in S THEN to ELSE status[e]]

LedgerInit == status = [e \in Entry |-> "unseen"]

\* Counted by xray and read by the agent.
Observe(e) == Move({e}, {"unseen"}, "volatile")

\* Saved in the outbox.
Persist(S) == Move(S, {"volatile"}, "durable")

\* Booked by the master.  It may book what the agent has released already.
Bill(S) == Move(S, {"durable", "released"}, "billed")

\* Deleted from the outbox without a traffic_ack.
Release(S) == Move(S, {"durable"}, "released")

\* The new batch is too large for the file and takes the oldest ones' place.
PersistAndRelease(S, R) ==
    /\ S # {} /\ R # {}
    /\ \A e \in S : status[e] = "volatile"
    /\ \A e \in R : status[e] = "durable"
    /\ status' = [e \in Entry |-> IF e \in S THEN "durable"
                                  ELSE IF e \in R THEN "released" ELSE status[e]]

\* The process stops: all that was volatile is gone, and nothing else.
LoseMemory ==
    status' = [e \in Entry |-> IF status[e] = "volatile" THEN "lost" ELSE status[e]]

LedgerStep ==
    \/ \E e \in Entry : Observe(e)
    \/ \E S \in SUBSET Entry : Persist(S) \/ Bill(S) \/ Release(S)
    \/ \E S, R \in SUBSET Entry : PersistAndRelease(S, R)
    \/ LoseMemory

\* Most steps of an implementation leave every unit where it is.
LedgerNext == status' # status /\ LedgerStep

LedgerSpec == LedgerInit /\ [][LedgerNext]_status
===============================================================================
