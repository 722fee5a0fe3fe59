--------------------------- MODULE TrafficRefinement ---------------------------
(***************************************************************************)
(* TrafficDelivery implements TrafficLedger: where a unit stands, read off *)
(* the agent's memory, its file and the master's books.                    *)
(***************************************************************************)
EXTENDS TrafficDelivery

\* An entry has been put in one of these batches.
InBatches(e, ids) == \E id \in ids : e \in made[id]

\* A booked batch stays in the file until its answer arrives, so the order matters:
\* what is in the books counts first, then what was released, then the file.
StatusOf(e) ==
    IF e \in pending \cup flight THEN "volatile"
    ELSE IF InBatches(e, committed) THEN "billed"
    ELSE IF InBatches(e, expired \cup blind) THEN "released"
    ELSE IF InBatches(e, Ids(disk.batches)) THEN "durable"
    ELSE IF e \in Entry \ Seen THEN "unseen"
    ELSE "lost"

Standing == [e \in Entry |-> StatusOf(e)]

Ledger == INSTANCE TrafficLedger WITH status <- Standing

\* The agent keeps the promise of TrafficLedger.
ImplementsLedger == Ledger!LedgerSpec
===============================================================================
