------------------------------ MODULE NodeFiles ------------------------------
(***************************************************************************)
(* The files the master's instructions write on the node: certificates     *)
(* (certs.go: push_cert, push_ca, sync_certs) and the internal accounts    *)
(* of relay inbounds (accounts.go: setup and rotate), with the handlers of *)
(* client.go that write them and answer.                                   *)
(*                                                                         *)
(* The message loop handles one instruction at a time, in steps: each file *)
(* operation may fail, the process may die between two of them, and the    *)
(* answer may be lost with its connection, after which the master does not *)
(* know.  A file is replaced by rename, so it is never seen half written;  *)
(* a certificate is two files, and removing a directory several steps.     *)
(*                                                                         *)
(* Abstracted: PEM contents are versions (a pair of one version matches),  *)
(* temporary files, permissions, and the order of the directory listing.   *)
(***************************************************************************)
EXTENDS Naturals, FiniteSets

CONSTANTS
    Domain,     \* the domains of certificates
    Manual,     \* those whose directory an operator made, holding a key of his own
    CaId,       \* the ids of CA certificates
    Version,    \* the contents the master pushes; one that does not validate is not among them
    Tag,        \* relay inbounds
    Uuid,       \* the UUIDs NewUUID may return
    Unset,     \* no such file, or nothing known
    MaxFaults   \* bound: crashes, failed operations, lost answers and damaged files

ASSUME FilesAssumption ==
    /\ Manual \subseteq Domain
    /\ Unset \notin Version \cup Uuid
    /\ IsFiniteSet(Uuid) /\ MaxFaults \in Nat

Own == "own"     \* what the operator put there

VARIABLES
    pushed,       \* domains for which a pair was pushed (history)
    cert, key,    \* <domain>/fullchain.pem, <domain>/key.pem
    ca,           \* ca/<id>.crt
    accounts,     \* internal_accounts.json: tag -> uuid
    damaged,      \* the accounts file no longer parses
    job,          \* the instruction in hand
    served,       \* what the master was told is in place: domain -> version
    servedCa,     \* the same for CAs
    known,        \* the UUIDs the master was told
    faults

fileVars   == <<cert, key, ca, accounts, damaged>>
masterVars == <<served, servedCa, known>>
nodeVars   == <<fileVars, masterVars, pushed, job, faults>>

Idle == [op |-> "idle"]

Fault == faults < MaxFaults /\ faults' = faults + 1

-----------------------------------------------------------------------------
(* Answers *)

\* Without an answer the master is unsure of the file the instruction was to replace.
Unsure(j) ==
    /\ servedCa' = IF j.op = "ca" THEN [servedCa EXCEPT ![j.of] = Unset] ELSE servedCa
    /\ known' = IF j.op \in {"setup", "rotate"} THEN [known EXCEPT ![j.of] = Unset] ELSE known
    /\ UNCHANGED served

\* handle: the result of the instruction goes out.
AnswerOk ==
    /\ job.op # "idle" /\ job.pc = "answer"
    /\ job' = Idle
    /\ served' = IF job.op = "cert" THEN [served EXCEPT ![job.of] = job.value] ELSE served
    /\ servedCa' = IF job.op = "ca" THEN [servedCa EXCEPT ![job.of] = job.value] ELSE servedCa
    /\ known' = IF job.op \in {"setup", "rotate"}
                THEN [known EXCEPT ![job.of] = job.value] ELSE known
    /\ UNCHANGED <<fileVars, pushed, faults>>

\* The connection is gone: the result is lost.
AnswerLost ==
    /\ job.op # "idle" /\ job.pc = "answer" /\ Fault
    /\ job' = Idle
    /\ Unsure(job)
    /\ UNCHANGED <<fileVars, pushed>>

\* Mutant of OperationFails: the error is swallowed and the answer is OK.
ErrorSwallowed ==
    /\ job.op # "idle" /\ job.pc # "answer" /\ Fault
    /\ job' = [job EXCEPT !.pc = "answer"]
    /\ UNCHANGED <<fileVars, masterVars, pushed>>

\* A file operation fails: the error is the answer.  What a single rename was to replace is
\* as it was, and the master goes on as before; a pair may be half replaced.
OperationFails ==
    /\ job.op # "idle" /\ job.pc # "answer" /\ Fault
    /\ job' = Idle
    /\ UNCHANGED <<fileVars, masterVars, pushed>>

\* The process dies, and another one starts with the files as they are.
NodeCrash ==
    /\ job.op # "idle" /\ Fault
    /\ job' = Idle
    /\ Unsure(job)
    /\ UNCHANGED <<fileVars, pushed>>

-----------------------------------------------------------------------------
(* Certificates *)

\* handlePushCert, certs.Write: a domain or a pair that does not validate is refused before
\* anything is written, which the master sees as no change.
PushCert(d, v) ==
    /\ job = Idle
    /\ job' = [op |-> "cert", of |-> d, value |-> v, pc |-> "cert"]
    /\ served' = [served EXCEPT ![d] = Unset] /\ pushed' = pushed \cup {d}
    /\ UNCHANGED <<fileVars, servedCa, known, faults>>

WriteFullchain ==
    /\ job.op = "cert" /\ job.pc = "cert"
    /\ cert' = [cert EXCEPT ![job.of] = job.value]
    /\ job' = [job EXCEPT !.pc = "key"]
    /\ UNCHANGED <<key, ca, accounts, damaged, masterVars, pushed, faults>>

WriteKey ==
    /\ job.op = "cert" /\ job.pc = "key"
    /\ key' = [key EXCEPT ![job.of] = job.value]
    /\ job' = [job EXCEPT !.pc = "answer"]
    /\ UNCHANGED <<cert, ca, accounts, damaged, masterVars, pushed, faults>>

\* handlePushCA, certs.WriteCA.
PushCa(i, v) ==
    /\ job = Idle
    /\ job' = [op |-> "ca", of |-> i, value |-> v, pc |-> "write"]
    /\ UNCHANGED <<fileVars, masterVars, pushed, faults>>

WriteCa ==
    /\ job.op = "ca" /\ job.pc = "write"
    /\ ca' = [ca EXCEPT ![job.of] = job.value]
    /\ job' = [job EXCEPT !.pc = "answer"]
    /\ UNCHANGED <<cert, key, accounts, damaged, masterVars, pushed, faults>>

\* The layout push_cert leaves: a fullchain.pem.
Managed(d) == cert[d] # Unset

\* handleSyncCerts, SyncManaged: the domains in keep are the ones the master still refers
\* to; it no longer expects the others.
SyncCerts(keep) ==
    /\ job = Idle
    /\ job' = [op |-> "sync", keep |-> keep, seen |-> {}, pc |-> "list"]
    /\ served' = [d \in Domain |-> IF d \in keep THEN served[d] ELSE Unset]
    /\ UNCHANGED <<fileVars, servedCa, known, pushed, faults>>

\* A directory still to be removed.
Unwanted(d) == Managed(d) /\ d \notin job.keep /\ d \notin job.seen

\* RemoveAll starts on a directory: it deletes its files one by one, in any order.
RemoveStarts(d) ==
    /\ job.op = "sync" /\ job.pc = "list" /\ Unwanted(d)
    /\ job' = [job EXCEPT !.pc = "remove", !.seen = job.seen \cup {d}]
    /\ \/ cert' = [cert EXCEPT ![d] = Unset] /\ UNCHANGED key
       \/ key' = [key EXCEPT ![d] = Unset] /\ UNCHANGED cert
    /\ UNCHANGED <<ca, accounts, damaged, masterVars, pushed, faults>>

RemoveEnds ==
    /\ job.op = "sync" /\ job.pc = "remove"
    /\ cert' = [d \in Domain |-> IF d \in job.seen THEN Unset ELSE cert[d]]
    /\ key' = [d \in Domain |-> IF d \in job.seen THEN Unset ELSE key[d]]
    /\ job' = [job EXCEPT !.pc = "list"]
    /\ UNCHANGED <<ca, accounts, damaged, masterVars, pushed, faults>>

SyncEnds ==
    /\ job.op = "sync" /\ job.pc = "list" /\ \A d \in Domain : ~Unwanted(d)
    /\ job' = [job EXCEPT !.pc = "answer"]
    /\ UNCHANGED <<fileVars, masterVars, pushed, faults>>

-----------------------------------------------------------------------------
(* Internal accounts *)

\* Store.Load: a missing file is an empty map, a damaged one is an error.
Loads == ~damaged

UnusedUuids == Uuid \ ({accounts[t] : t \in Tag} \cup {known[t] : t \in Tag})

\* handleInternalAccount, setup of a tag that has a UUID: it is the answer.
SetupExisting(t) ==
    /\ job = Idle /\ Loads /\ accounts[t] # Unset
    /\ job' = [op |-> "setup", of |-> t, value |-> accounts[t], pc |-> "answer"]
    /\ UNCHANGED <<fileVars, masterVars, pushed, faults>>

\* Mutant of NewAccount: a setup does not look for the UUID it has.
NewWhateverHas(t, op, u) ==
    /\ job = Idle /\ op \in {"setup", "rotate"} /\ u \in UnusedUuids
    /\ job' = [op |-> op, of |-> t, value |-> u, pc |-> "set"]
    /\ UNCHANGED <<fileVars, masterVars, pushed, faults>>

\* A new UUID: for a rotation, for a tag that has none, and when the file cannot be loaded.
NewAccount(t, op, u) ==
    /\ job = Idle /\ op \in {"setup", "rotate"} /\ u \in UnusedUuids
    /\ op = "setup" /\ Loads => accounts[t] = Unset
    /\ job' = [op |-> op, of |-> t, value |-> u, pc |-> "set"]
    /\ UNCHANGED <<fileVars, masterVars, pushed, faults>>

\* Store.Set: the whole map is loaded, changed and replaced.
SetAccount ==
    /\ job.op \in {"setup", "rotate"} /\ job.pc = "set" /\ Loads
    /\ accounts' = [accounts EXCEPT ![job.of] = job.value]
    /\ job' = [job EXCEPT !.pc = "answer"]
    /\ UNCHANGED <<cert, key, ca, damaged, masterVars, pushed, faults>>

SetRefused ==
    /\ job.op \in {"setup", "rotate"} /\ job.pc = "set" /\ ~Loads
    /\ job' = Idle
    /\ UNCHANGED <<fileVars, masterVars, pushed, faults>>

\* The file is damaged from outside.
Damage ==
    /\ ~damaged /\ Fault
    /\ damaged' = TRUE
    /\ UNCHANGED <<cert, key, ca, accounts, masterVars, pushed, job>>

-----------------------------------------------------------------------------
FilesInit ==
    /\ pushed = {}
    /\ cert = [d \in Domain |-> Unset]
    /\ key = [d \in Domain |-> IF d \in Manual THEN Own ELSE Unset]
    /\ ca = [i \in CaId |-> Unset] /\ accounts = [t \in Tag |-> Unset] /\ damaged = FALSE
    /\ job = Idle /\ faults = 0
    /\ served = [d \in Domain |-> Unset] /\ servedCa = [i \in CaId |-> Unset]
    /\ known = [t \in Tag |-> Unset]

FilesNext ==
    \/ \E d \in Domain, v \in Version : PushCert(d, v)
    \/ \E i \in CaId, v \in Version : PushCa(i, v)
    \/ \E keep \in SUBSET Domain : SyncCerts(keep)
    \/ \E d \in Domain : RemoveStarts(d)
    \/ WriteFullchain \/ WriteKey \/ WriteCa \/ RemoveEnds \/ SyncEnds
    \/ \E t \in Tag : SetupExisting(t)
    \/ \E t \in Tag, op \in {"setup", "rotate"}, u \in Uuid : NewAccount(t, op, u)
    \/ SetAccount \/ SetRefused \/ Damage
    \/ AnswerOk \/ AnswerLost \/ OperationFails \/ NodeCrash

FilesSpec == FilesInit /\ [][FilesNext]_nodeVars

-----------------------------------------------------------------------------
\* The instructions the handlers of client.go can have in hand.
Job ==
    {Idle}
      \cup [op : {"cert"}, of : Domain, value : Version, pc : {"cert", "key", "answer"}]
      \cup [op : {"ca"}, of : CaId, value : Version, pc : {"write", "answer"}]
      \cup [op : {"setup", "rotate"}, of : Tag, value : Uuid, pc : {"set", "answer"}]
      \cup [op : {"sync"}, keep : SUBSET Domain, seen : SUBSET Domain,
            pc : {"list", "remove", "answer"}]

FilesTypeOK ==
    /\ cert \in [Domain -> Version \cup {Unset}]
    /\ key \in [Domain -> Version \cup {Unset, Own}]
    /\ ca \in [CaId -> Version \cup {Unset}]
    /\ accounts \in [Tag -> Uuid \cup {Unset}] /\ damaged \in BOOLEAN
    /\ served \in [Domain -> Version \cup {Unset}]
    /\ servedCa \in [CaId -> Version \cup {Unset}]
    /\ known \in [Tag -> Uuid \cup {Unset}]
    /\ job.op = "sync" => job.seen \cap job.keep = {}
    /\ job \in Job /\ pushed \subseteq Domain /\ faults \in 0..MaxFaults

\* A domain the master was told is in place, and has neither pushed again nor dropped since,
\* has both files of that version; a CA has its file.  Removals, failures and crashes of
\* other instructions do not disturb it (certs.go:23-44, 66-87, 98-121).
CertServes ==
    /\ \A d \in Domain : served[d] # Unset => cert[d] = served[d] /\ key[d] = served[d]
    /\ \A i \in CaId : servedCa[i] # Unset /\ (job.op = "ca" => job.of # i)
                         => ca[i] = servedCa[i]

\* A directory an operator made is left alone until a pair is pushed for its domain
\* (certs.go:88-97).
OwnKept == \A d \in Manual \ pushed : key[d] = Own

\* The UUID the master knows for a tag is the one in the node's file, after failed and
\* interrupted changes of this and of other tags; a damaged file is never replaced
\* (accounts.go:35-76, client.go:1228-1253).
UuidAgrees ==
    ~damaged =>
      \A t \in Tag : known[t] # Unset /\ (job.op \in {"setup", "rotate"} => job.of # t)
                   => accounts[t] = known[t]

\* Only a rotation of that tag changes a UUID: a setup repeated after a lost answer finds
\* the UUID of the first (client.go:1239-1245).  A damaged file stays for the operator.
OnlyRotationChanges ==
    [][/\ damaged => damaged'
       /\ \A t \in Tag : accounts[t] \in {Unset, accounts'[t]}
                          \/ (job.op = "rotate" /\ job.of = t)]_nodeVars

\* Certificates: what the master was told is in place is there, and what an operator put
\* there stays, through failed, interrupted and repeated instructions.
CertsKept == CertServes /\ OwnKept

\* Accounts: master and node agree on every UUID, and only a rotation changes one, even when
\* its answer or that of a setup was lost.
AccountsKept == []UuidAgrees /\ OnlyRotationChanges

=============================================================================
