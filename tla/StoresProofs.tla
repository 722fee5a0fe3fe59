----------------------------- MODULE StoresProofs -----------------------------
(***************************************************************************)
(* Theorems about the parts of the agent that MCStores runs together.      *)
(*                                                                         *)
(* NodeFiles: what makes its properties inductive is how far the           *)
(* instruction in hand has come: what it has written, what it may not      *)
(* touch, and that the master expects nothing of a domain whose pair is    *)
(* being replaced.                                                         *)
(*                                                                         *)
(* SelfUpgrade: while the two installers have not crossed, the one that is *)
(* writing has <exe>.tmp to itself, and each step knows what the steps     *)
(* before it have made sure of.                                            *)
(*                                                                         *)
(* LogWindow: at each step of a rotation, which of the files a reader can  *)
(* find under the name of the log holds what.                              *)
(*                                                                         *)
(* LogBuffers: the ring and the tail are compared with the whole output,   *)
(* byte by byte.  Fed and Lines are recursive functions, and induction     *)
(* over the length of a piece goes by the least number that would fail.    *)
(*                                                                         *)
(* MCStores: only the part that moves can break its invariant.             *)
(***************************************************************************)
EXTENDS MCStores, OutboxProofs, NodeProofs, SequenceTheorems, WellFoundedInduction, TLAPS

-----------------------------------------------------------------------------
(* Certificates and internal accounts (NodeFiles) *)

CertJob    == [op : {"cert"}, of : Domain, value : Version, pc : {"cert", "key", "answer"}]
CaJob      == [op : {"ca"}, of : CaId, value : Version, pc : {"write", "answer"}]
AccountJob == [op : {"setup", "rotate"}, of : Tag, value : Uuid, pc : {"set", "answer"}]
SyncJob    == [op : {"sync"}, keep : SUBSET Domain, seen : SUBSET Domain,
               pc : {"list", "remove", "answer"}]

\* A pair being replaced is expected by nobody, and as far as it was written it is new.
CertProgress ==
    job.op = "cert" =>
        /\ served[job.of] = Unset /\ job.of \in pushed
        /\ job.pc \in {"key", "answer"} => cert[job.of] = job.value
        /\ job.pc = "answer" => key[job.of] = job.value

\* A removal leaves alone what the master refers to and what an operator put there.
SyncProgress ==
    job.op = "sync" =>
        /\ \A d \in Domain : served[d] # Unset => d \in job.keep
        /\ job.seen \cap (Manual \ pushed) = {}

CaProgress == job.op = "ca" /\ job.pc = "answer" => ca[job.of] = job.value

AccountProgress ==
    ~damaged /\ job.op \in {"setup", "rotate"} =>
        /\ job.pc = "answer" => accounts[job.of] = job.value
        /\ job.op = "setup" /\ job.pc = "set" => accounts[job.of] = Unset

PairsServe == \A d \in Domain : served[d] # Unset => cert[d] = served[d] /\ key[d] = served[d]

CasServe ==
    \A i \in CaId :
        servedCa[i] # Unset /\ ~(job.op = "ca" /\ job.pc = "answer" /\ job.of = i)
            => ca[i] = servedCa[i]

AccountsServe ==
    ~damaged =>
      \A t \in Tag :
        known[t] # Unset /\ ~(job.op \in {"setup", "rotate"} /\ job.pc = "answer" /\ job.of = t)
            => accounts[t] = known[t]

OwnAlone == \A d \in Manual \ pushed : key[d] = Own /\ cert[d] = Unset

Progress == CertProgress /\ SyncProgress /\ CaProgress /\ AccountProgress
Serve    == PairsServe /\ CasServe /\ AccountsServe /\ OwnAlone
FilesInv == FilesTypeOK /\ Progress /\ Serve

LEMMA JobByOp ==
    ASSUME FilesTypeOK
    PROVE  /\ job.op = "cert" => job \in CertJob
           /\ job.op = "ca" => job \in CaJob
           /\ job.op \in {"setup", "rotate"} => job \in AccountJob
           /\ job.op = "sync" => job \in SyncJob
  BY DEF FilesTypeOK, Job, Idle, CertJob, CaJob, AccountJob, SyncJob

LEMMA FilesTypeInit == FilesInit => FilesTypeOK
<1> SUFFICES ASSUME FilesInit PROVE FilesTypeOK
  OBVIOUS
<1>1. job \in Job /\ job.op # "sync"
  BY DEF FilesInit, Idle, Job
<1>2. pushed \subseteq Domain /\ damaged \in BOOLEAN
  BY DEF FilesInit
<1>5. faults \in 0..MaxFaults
  BY FilesAssumption DEF FilesInit
<1>3. /\ cert \in [Domain -> Version \cup {Unset}] /\ served \in [Domain -> Version \cup {Unset}]
      /\ ca \in [CaId -> Version \cup {Unset}] /\ servedCa \in [CaId -> Version \cup {Unset}]
      /\ accounts \in [Tag -> Uuid \cup {Unset}] /\ known \in [Tag -> Uuid \cup {Unset}]
  BY DEF FilesInit
<1>4. key \in [Domain -> Version \cup {Unset, Own}]
  BY DEF FilesInit
<1> QED BY <1>1, <1>2, <1>3, <1>4, <1>5 DEF FilesTypeOK

LEMMA FilesTypeStep == FilesTypeOK /\ [FilesNext]_nodeVars => FilesTypeOK'
<1> SUFFICES ASSUME FilesTypeOK, [FilesNext]_nodeVars PROVE FilesTypeOK'
  OBVIOUS
<1> USE FilesAssumption, JobByOp DEF FilesTypeOK, Job, Idle, CertJob, CaJob, AccountJob, SyncJob
<1>1. ASSUME NEW d \in Domain, NEW v \in Version, PushCert(d, v) PROVE FilesTypeOK'
  BY <1>1 DEF PushCert, fileVars
<1>2. ASSUME NEW i \in CaId, NEW v \in Version, PushCa(i, v) PROVE FilesTypeOK'
  BY <1>2 DEF PushCa, fileVars, masterVars
<1>3. ASSUME NEW keep \in SUBSET Domain, SyncCerts(keep) PROVE FilesTypeOK'
  BY <1>3 DEF SyncCerts, fileVars
<1>4. ASSUME NEW d \in Domain, RemoveStarts(d) PROVE FilesTypeOK'
  <2>1. job \in SyncJob /\ d \notin job.keep
    BY <1>4 DEF RemoveStarts, Unwanted
  <2>2. job' \in SyncJob /\ job'.seen \cap job'.keep = {}
    <3>1. job' = [op |-> job.op, keep |-> job.keep, seen |-> job.seen \cup {d}, pc |-> "remove"]
      BY <1>4, <2>1 DEF RemoveStarts
    <3> QED BY <2>1, <3>1
  <2>3. cert' \in [Domain -> Version \cup {Unset}] /\ key' \in [Domain -> Version \cup {Unset, Own}]
    BY <1>4 DEF RemoveStarts
  <2> QED BY <1>4, <2>2, <2>3 DEF RemoveStarts, masterVars
<1>5. ASSUME WriteFullchain PROVE FilesTypeOK'
  BY <1>5 DEF WriteFullchain, masterVars
<1>6. ASSUME WriteKey PROVE FilesTypeOK'
  BY <1>6 DEF WriteKey, masterVars
<1>7. ASSUME WriteCa PROVE FilesTypeOK'
  BY <1>7 DEF WriteCa, masterVars
<1>8. ASSUME RemoveEnds PROVE FilesTypeOK'
  BY <1>8 DEF RemoveEnds, masterVars
<1>9. ASSUME SyncEnds PROVE FilesTypeOK'
  BY <1>9 DEF SyncEnds, fileVars, masterVars
<1>10. ASSUME NEW t \in Tag, SetupExisting(t) PROVE FilesTypeOK'
  BY <1>10 DEF SetupExisting, Loads, fileVars, masterVars
<1>11. ASSUME NEW t \in Tag, NEW op \in {"setup", "rotate"}, NEW u \in Uuid, NewAccount(t, op, u) PROVE FilesTypeOK'
  BY <1>11 DEF NewAccount, UnusedUuids, Loads, fileVars, masterVars
<1>12. ASSUME SetAccount PROVE FilesTypeOK'
  BY <1>12 DEF SetAccount, Loads, masterVars
<1>13. ASSUME SetRefused PROVE FilesTypeOK'
  BY <1>13 DEF SetRefused, fileVars, masterVars, Loads
<1>14. ASSUME Damage PROVE FilesTypeOK'
  BY <1>14 DEF Damage, Fault, masterVars
<1>15. ASSUME AnswerOk PROVE FilesTypeOK'
  BY <1>15 DEF AnswerOk, fileVars
<1>16. ASSUME AnswerLost PROVE FilesTypeOK'
  BY <1>16 DEF AnswerLost, Unsure, Fault, fileVars
<1>17. ASSUME OperationFails PROVE FilesTypeOK'
  BY <1>17 DEF OperationFails, Fault, fileVars, masterVars
<1>18. ASSUME NodeCrash PROVE FilesTypeOK'
  BY <1>18 DEF NodeCrash, Unsure, Fault, fileVars
<1>19. CASE UNCHANGED nodeVars
  BY <1>19 DEF nodeVars, fileVars, masterVars
<1> QED BY <1>1, <1>2, <1>3, <1>4, <1>5, <1>6, <1>7, <1>8, <1>9, <1>10, <1>11, <1>12, <1>13, <1>14, <1>15, <1>16, <1>17, <1>18, <1>19 DEF FilesNext

LEMMA FilesProgressStep ==
    FilesInv /\ FilesTypeOK' /\ [FilesNext]_nodeVars => Progress' /\ Serve'
<1> SUFFICES ASSUME FilesInv, FilesTypeOK', [FilesNext]_nodeVars PROVE Progress' /\ Serve'
  OBVIOUS
<1> USE FilesAssumption, JobByOp DEF FilesInv, FilesTypeOK, Idle, CertJob, CaJob, AccountJob, SyncJob
<1> USE DEF Progress, CertProgress, SyncProgress, CaProgress, AccountProgress,
            Serve, PairsServe, CasServe, AccountsServe, OwnAlone, Own
<1>1. ASSUME NEW d \in Domain, NEW v \in Version, PushCert(d, v) PROVE Progress' /\ Serve'
  BY <1>1 DEF PushCert, fileVars
<1>2. ASSUME NEW i \in CaId, NEW v \in Version, PushCa(i, v) PROVE Progress' /\ Serve'
  BY <1>2 DEF PushCa, fileVars, masterVars
<1>3. ASSUME NEW keep \in SUBSET Domain, SyncCerts(keep) PROVE Progress' /\ Serve'
  BY <1>3 DEF SyncCerts, fileVars
<1>4. ASSUME NEW d \in Domain, RemoveStarts(d) PROVE Progress' /\ Serve'
  BY <1>4 DEF RemoveStarts, Unwanted, Managed, masterVars
<1>5. ASSUME WriteFullchain PROVE Progress' /\ Serve'
  BY <1>5 DEF WriteFullchain, masterVars
<1>6. ASSUME WriteKey PROVE Progress' /\ Serve'
  BY <1>6 DEF WriteKey, masterVars
<1>7. ASSUME WriteCa PROVE Progress' /\ Serve'
  BY <1>7 DEF WriteCa, masterVars
<1>8. ASSUME RemoveEnds PROVE Progress' /\ Serve'
  BY <1>8 DEF RemoveEnds, masterVars
<1>9. ASSUME SyncEnds PROVE Progress' /\ Serve'
  BY <1>9 DEF SyncEnds, fileVars, masterVars
<1>10. ASSUME NEW t \in Tag, SetupExisting(t) PROVE Progress' /\ Serve'
  BY <1>10 DEF SetupExisting, Loads, fileVars, masterVars
<1>11. ASSUME NEW t \in Tag, NEW op \in {"setup", "rotate"}, NEW u \in Uuid, NewAccount(t, op, u) PROVE Progress' /\ Serve'
  BY <1>11 DEF NewAccount, UnusedUuids, Loads, fileVars, masterVars
<1>12. ASSUME SetAccount PROVE Progress' /\ Serve'
  BY <1>12 DEF SetAccount, Loads, masterVars
<1>13. ASSUME SetRefused PROVE Progress' /\ Serve'
  BY <1>13 DEF SetRefused, fileVars, masterVars, Loads
<1>14. ASSUME Damage PROVE Progress' /\ Serve'
  BY <1>14 DEF Damage, Fault, masterVars
<1>15. ASSUME AnswerOk PROVE Progress' /\ Serve'
  BY <1>15 DEF AnswerOk, fileVars
<1>16. ASSUME AnswerLost PROVE Progress' /\ Serve'
  BY <1>16 DEF AnswerLost, Unsure, Fault, fileVars
<1>17. ASSUME OperationFails PROVE Progress' /\ Serve'
  BY <1>17 DEF OperationFails, Fault, fileVars, masterVars
<1>18. ASSUME NodeCrash PROVE Progress' /\ Serve'
  BY <1>18 DEF NodeCrash, Unsure, Fault, fileVars
<1>19. CASE UNCHANGED nodeVars
  BY <1>19 DEF nodeVars, fileVars, masterVars
<1> QED BY <1>1, <1>2, <1>3, <1>4, <1>5, <1>6, <1>7, <1>8, <1>9, <1>10, <1>11, <1>12, <1>13, <1>14, <1>15, <1>16, <1>17, <1>18, <1>19 DEF FilesNext

LEMMA FilesInvInit == FilesInit => FilesInv
<1> SUFFICES ASSUME FilesInit PROVE FilesInv
  OBVIOUS
<1>1. FilesTypeOK
  BY FilesTypeInit
<1>2. Progress
  BY DEF FilesInit, Idle, Progress, CertProgress, SyncProgress, CaProgress, AccountProgress
<1>3. Serve
  BY FilesAssumption DEF FilesInit, Serve, PairsServe, CasServe, AccountsServe, OwnAlone
<1> QED BY <1>1, <1>2, <1>3 DEF FilesInv

LEMMA FilesInvariant == FilesSpec => []FilesInv
<1>1. FilesInit => FilesInv
  BY FilesInvInit
<1>2. FilesInv /\ [FilesNext]_nodeVars => FilesInv'
  BY FilesTypeStep, FilesProgressStep DEF FilesInv
<1> QED BY <1>1, <1>2, PTL DEF FilesSpec

\* The variables of the files on the node keep their types (certs.go, accounts.go).
THEOREM FilesTyping == FilesSpec => []FilesTypeOK
<1>1. FilesInv => FilesTypeOK
  BY DEF FilesInv
<1> QED BY <1>1, FilesInvariant, PTL

\* A pair, a CA or a key of an operator that somebody relies on is on disk, for any number
\* of domains, versions, failures, crashes and lost answers (certs.go:23-121).
THEOREM FilesCertsKept == FilesSpec => []CertsKept
<1>1. FilesInv => CertsKept
  BY DEF FilesInv, Serve, PairsServe, CasServe, OwnAlone, CertsKept, CertServes, OwnKept
<1> QED BY <1>1, FilesInvariant, PTL

\* Master and node agree on the UUIDs and only a rotation changes one (accounts.go:35-76,
\* client.go:1228-1253).
THEOREM FilesAccountsKept == FilesSpec => AccountsKept
<1>1. FilesInv => UuidAgrees
  BY DEF FilesInv, Serve, AccountsServe, UuidAgrees
<1> DEFINE OnlyRotates ==
      /\ damaged => damaged'
      /\ \A t \in Tag : accounts[t] \in {Unset, accounts'[t]}
                         \/ (job.op = "rotate" /\ job.of = t)
<1>2. FilesInv /\ [FilesNext]_nodeVars => [OnlyRotates]_nodeVars
  <2> SUFFICES ASSUME FilesInv, FilesNext PROVE OnlyRotates
    OBVIOUS
  <2>1. CASE SetAccount
    BY <2>1, JobByOp DEF SetAccount, Loads, FilesInv, FilesTypeOK, AccountJob, Progress, AccountProgress
  <2>2. accounts' = accounts /\ damaged' = damaged => OnlyRotates
    BY DEF FilesInv, FilesTypeOK
  <2>3. ASSUME NEW d \in Domain, NEW v \in Version, PushCert(d, v) PROVE OnlyRotates
    BY <2>3, <2>2 DEF PushCert, fileVars
  <2>4. ASSUME NEW i \in CaId, NEW v \in Version, PushCa(i, v) PROVE OnlyRotates
    BY <2>4, <2>2 DEF PushCa, fileVars
  <2>5. ASSUME NEW keep \in SUBSET Domain, SyncCerts(keep) PROVE OnlyRotates
    BY <2>5, <2>2 DEF SyncCerts, fileVars
  <2>6. ASSUME NEW d \in Domain, RemoveStarts(d) PROVE OnlyRotates
    BY <2>6, <2>2 DEF RemoveStarts
  <2>7. CASE WriteFullchain \/ WriteKey \/ WriteCa
    BY <2>7, <2>2 DEF WriteFullchain, WriteKey, WriteCa
  <2>8. CASE RemoveEnds \/ SyncEnds
    BY <2>8, <2>2 DEF RemoveEnds, SyncEnds, fileVars
  <2>9. ASSUME NEW t \in Tag, SetupExisting(t) PROVE OnlyRotates
    BY <2>9, <2>2 DEF SetupExisting, fileVars
  <2>10. ASSUME NEW t \in Tag, NEW op \in {"setup", "rotate"}, NEW u \in Uuid, NewAccount(t, op, u)
         PROVE OnlyRotates
    BY <2>10, <2>2 DEF NewAccount, fileVars
  <2>11. CASE SetRefused \/ OperationFails
    BY <2>11, <2>2 DEF SetRefused, OperationFails, fileVars
  <2>12. CASE Damage
    BY <2>12 DEF Damage
  <2>13. CASE AnswerOk \/ AnswerLost \/ NodeCrash
    BY <2>13, <2>2 DEF AnswerOk, AnswerLost, NodeCrash, fileVars
  <2> QED
    BY <2>1, <2>3, <2>4, <2>5, <2>6, <2>7, <2>8, <2>9, <2>10, <2>11, <2>12, <2>13 DEF FilesNext
<1> QED BY <1>1, <1>2, FilesInvariant, PTL DEF FilesSpec, AccountsKept, OnlyRotationChanges

-----------------------------------------------------------------------------
(* The agent replaces its own program (SelfUpgrade) *)

\* A version has been found, and is one that the installer may install.
Decided(i) ==
    inst[i].at \in {"download", "verify", "open", "write", "rename", "reply", "restart"} =>
        inst[i].tag \in Release /\ (inst[i].force \/ inst[i].tag > inst[i].from)

\* What is written was verified, lies in <exe>.tmp, and is the program in the end.
Installed(i) ==
    /\ inst[i].at \in {"open", "write", "rename", "reply", "restart"} => inst[i].data = inst[i].tag
    /\ inst[i].at = "write" /\ ~crossed => exeTmp # Nothing
    /\ inst[i].at = "rename" /\ ~crossed => exeTmp = inst[i].tag
    /\ inst[i].at \in {"reply", "restart"} /\ ~crossed => exe = inst[i].tag

\* Beside an installer that is writing, without crossing, the other is not.
OneInstalls == ~crossed => ~(Installing("panel") /\ Installing("cli"))

Promised == inst["panel"].at = "restart" => promised = inst["panel"].tag

Place == {"idle", "latest", "compare", "download", "verify", "open", "write", "rename", "reply",
          "restart"}

Install == [at : Place, tag : Release \cup {NewestTag}, force : BOOLEAN,
            from : Release \cup {NewestTag}, data : Program \cup {Nothing}, mirror : 1 .. Mirrors]

SelfTypes ==
    /\ exe \in Program /\ exeTmp \in Program \cup {Nothing}
    /\ runs \in Release \cup {Nothing} /\ promised \in Release \cup {Nothing}
    /\ inst \in [Installer -> Install] /\ crossed \in BOOLEAN
    /\ \A i \in Installer : inst[i].at = "compare" => inst[i].tag \in Release
    /\ crossed \/ exe \in Release

SelfInv ==
    /\ SelfTypes /\ OneInstalls /\ Promised
    /\ \A i \in Installer : Decided(i) /\ Installed(i)

LEMMA Fields ==
    ASSUME inst \in [Installer -> Install], NEW i \in Installer
    PROVE  /\ inst[i].at \in Place /\ inst[i].tag \in Nat /\ inst[i].from \in Nat
           /\ inst[i].tag \in Release \cup {NewestTag} /\ inst[i].force \in BOOLEAN
           /\ inst[i].from \in Release \cup {NewestTag} /\ inst[i].mirror \in 1 .. Mirrors
           /\ inst[i].data \in Program \cup {Nothing}
  BY DEF Install, Release, NewestTag

LEMMA NoInstallType == NoInstall \in Install /\ NoInstall.at = "idle"
  BY SelfAssumption DEF NoInstall, Install, NewestTag, Place

\* What a step of an installer leaves of its record, and of the other's.
LEMMA Going ==
    ASSUME inst \in [Installer -> Install], NEW i \in Installer, NEW p \in Place, GoesOn(i, p)
    PROVE  /\ inst' \in [Installer -> Install]
           /\ inst'[i].at = p /\ inst'[i].tag = inst[i].tag /\ inst'[i].force = inst[i].force
           /\ inst'[i].from = inst[i].from /\ inst'[i].data = inst[i].data
           /\ \A j \in Installer \ {i} : inst'[j] = inst[j]
  BY DEF GoesOn, Install

LEMMA Giving ==
    ASSUME inst \in [Installer -> Install], NEW i \in Installer, GivesUp(i)
    PROVE  /\ inst' \in [Installer -> Install] /\ inst'[i].at = "idle"
           /\ \A j \in Installer \ {i} : inst'[j] = inst[j]
  BY NoInstallType DEF GivesUp

LEMMA Putting ==
    ASSUME inst \in [Installer -> Install], NEW i \in Installer, NEW r \in Install,
           inst' = [inst EXCEPT ![i] = r]
    PROVE  /\ inst' \in [Installer -> Install] /\ inst'[i] = r
           /\ \A j \in Installer \ {i} : inst'[j] = inst[j]
  OBVIOUS

\* The records a step puts.
LEMMA Compared ==
    ASSUME NEW q \in Install, NEW tag \in Release
    PROVE  LET r == [q EXCEPT !.at = "compare", !.tag = tag]
           IN  r \in Install /\ r.at = "compare" /\ r.tag = tag
  BY DEF Install, Place

LEMMA Fetched ==
    ASSUME NEW q \in Install, NEW file \in Program
    PROVE  LET r == [q EXCEPT !.at = "verify", !.data = file]
           IN  /\ r \in Install /\ r.at = "verify" /\ r.tag = q.tag
               /\ r.force = q.force /\ r.from = q.from
  BY DEF Install, Place

LEMMA Passed ==
    ASSUME NEW q \in Install, q.mirror < Mirrors
    PROVE  LET r == [q EXCEPT !.mirror = @ + 1]
           IN  /\ r \in Install /\ r.at = q.at /\ r.tag = q.tag
               /\ r.force = q.force /\ r.from = q.from
  BY SelfAssumption DEF Install, Place

LEMMA SelfInvInit == SelfInit => SelfInv
<1> SUFFICES ASSUME SelfInit PROVE SelfInv
  OBVIOUS
<1> QED BY NoInstallType, SelfAssumption DEF SelfInit, SelfInv, SelfTypes, OneInstalls, Promised, Decided,
        Installed, Installing, NoInstall, Program, Installer

\* A step of an installer that has not come to the file yet, or gives up.
LEMMA BeforeWriting ==
    ASSUME SelfInv, NEW i \in Installer, UNCHANGED <<exe, exeTmp, runs, promised, crossed>>,
           inst' \in [Installer -> Install], \A j \in Installer \ {i} : inst'[j] = inst[j],
           inst'[i].at \in {"idle", "latest", "compare", "download", "verify"},
           inst'[i].at = "compare" => inst'[i].tag \in Release, Decided(i)'
    PROVE  SelfInv'
  BY DEF SelfInv, SelfTypes, OneInstalls, Promised, Decided, Installed, Installing, Installer

LEMMA SelfInvStep == SelfInv /\ [SelfNext]_selfVars => SelfInv'
<1> SUFFICES ASSUME SelfInv, [SelfNext]_selfVars PROVE SelfInv'
  OBVIOUS
<1>0. inst \in [Installer -> Install] /\ \A i \in Installer : inst[i] \in Install
  BY DEF SelfInv, SelfTypes
<1>1. ASSUME NEW i \in Installer, NEW STATE from, NEW tag \in Release \cup {NewestTag},
             NEW force \in BOOLEAN, Requests(i, from, tag, force)
      PROVE SelfInv'
  <2> DEFINE r == [at |-> IF tag = NewestTag THEN "latest" ELSE "compare", tag |-> tag,
                   force |-> force, from |-> from, data |-> Nothing, mirror |-> 1]
  <2>1. /\ r \in Install /\ r.at \in {"latest", "compare"}
        /\ r.at = "compare" => r.tag \in Release
    BY <1>1, SelfAssumption DEF Requests, Install, Place
  <2>2. inst' = [inst EXCEPT ![i] = r] /\ UNCHANGED <<exe, exeTmp, runs, promised, crossed>>
    BY <1>1 DEF Requests
  <2> HIDE DEF r
  <2> QED BY <1>0, <2>1, <2>2, Putting, BeforeWriting DEF Decided
<1>2. CASE PanelRequest
  BY <1>2, <1>1 DEF PanelRequest, Installer
<1>3. CASE CommandRequest
  BY <1>3, <1>1 DEF CommandRequest, Installer
<1>4. ASSUME NEW i \in Installer, Latest(i) PROVE SelfInv'
  <2>0. UNCHANGED <<exe, exeTmp, runs, promised, crossed>>
    BY <1>4 DEF Latest, unmoved
  <2>1. ASSUME NEW tag \in Release,
               inst' = [inst EXCEPT ![i] = [@ EXCEPT !.at = "compare", !.tag = tag]]
        PROVE SelfInv'
    <3> DEFINE r == [inst[i] EXCEPT !.at = "compare", !.tag = tag]
    <3>1. r \in Install /\ r.at = "compare" /\ r.tag = tag
      BY <1>0, Compared
    <3>2. inst' = [inst EXCEPT ![i] = r]
      BY <2>1
    <3> HIDE DEF r
    <3> QED BY <1>0, <2>0, <3>1, <3>2, Putting, BeforeWriting DEF Decided
  <2>2. CASE GivesUp(i)
    BY <1>0, <2>0, <2>2, Giving, BeforeWriting DEF Decided
  <2> QED BY <1>4, <2>1, <2>2 DEF Latest
<1>5. ASSUME NEW i \in Installer, CompareWith(i) PROVE SelfInv'
  <2>0. UNCHANGED <<exe, exeTmp, runs, promised, crossed>> /\ inst[i].at = "compare"
    BY <1>5 DEF CompareWith, unmoved, Does
  <2>1. CASE GivesUp(i)
    BY <1>0, <2>0, <2>1, Giving, BeforeWriting DEF Decided
  <2>2. CASE GoesOn(i, "download") /\ ~UpToDateAlready(i)
    <3>1. inst[i].tag \in Release /\ (inst[i].force \/ inst[i].tag > inst[i].from)
      BY <1>0, <2>0, <2>2, Fields, SelfAssumption DEF UpToDateAlready, SelfInv, SelfTypes
    <3> QED BY <1>0, <2>0, <2>2, <3>1, Going, BeforeWriting DEF Decided, Place
  <2> QED BY <1>5, <2>1, <2>2 DEF CompareWith
<1>6. ASSUME NEW i \in Installer, Download(i) PROVE SelfInv'
  <2>0. /\ UNCHANGED <<exe, exeTmp, runs, promised, crossed>> /\ inst[i].at = "download"
        /\ inst[i].tag \in Release /\ (inst[i].force \/ inst[i].tag > inst[i].from)
    BY <1>6 DEF Download, unmoved, Does, SelfInv, Decided
  <2>1. ASSUME NEW file \in Program,
               inst' = [inst EXCEPT ![i] = [@ EXCEPT !.at = "verify", !.data = file]]
        PROVE SelfInv'
    <3> DEFINE r == [inst[i] EXCEPT !.at = "verify", !.data = file]
    <3>1. /\ r \in Install /\ r.at = "verify" /\ r.tag = inst[i].tag
          /\ r.force = inst[i].force /\ r.from = inst[i].from
      BY <1>0, Fetched
    <3>2. inst' = [inst EXCEPT ![i] = r]
      BY <2>1
    <3> HIDE DEF r
    <3> QED BY <1>0, <2>0, <3>1, <3>2, Putting, BeforeWriting DEF Decided
  <2>2. CASE inst[i].mirror < Mirrors /\ inst' = [inst EXCEPT ![i].mirror = @ + 1]
    <3> DEFINE r == [inst[i] EXCEPT !.mirror = @ + 1]
    <3>1. /\ r \in Install /\ r.at = inst[i].at /\ r.tag = inst[i].tag
          /\ r.force = inst[i].force /\ r.from = inst[i].from
      BY <1>0, <2>2, Passed
    <3>2. inst' = [inst EXCEPT ![i] = r]
      BY <2>2
    <3> HIDE DEF r
    <3> QED BY <1>0, <2>0, <3>1, <3>2, Putting, BeforeWriting DEF Decided
  <2>3. CASE GivesUp(i)
    BY <1>0, <2>0, <2>3, Giving, BeforeWriting DEF Decided
  <2> QED BY <1>6, <2>1, <2>2, <2>3 DEF Download
<1> USE SelfAssumption, <1>0, Fields, Going, Giving DEF SelfInv, SelfTypes, OneInstalls, Promised, Decided,
        Installed, Installing, Installer, Program, Partner, Crosses, Does, Place
<1>7. ASSUME NEW i \in Installer, VerifyDigest(i) PROVE SelfInv'
  BY <1>7 DEF VerifyDigest, unmoved
<1>8. ASSUME NEW i \in Installer, OpenExeTmp(i) PROVE SelfInv'
  <2>1. /\ exeTmp' = Broken /\ UNCHANGED <<exe, runs, promised>> /\ inst[i].at = "open"
        /\ GoesOn(i, "write") /\ Crosses(i)
    BY <1>8 DEF OpenExeTmp
  <2>2. crossed' \in BOOLEAN /\ (crossed => crossed') /\ (~crossed' => ~Installing(Partner(i)))
    BY <2>1
  <2>3. SelfTypes'
    BY <2>1, <2>2
  <2>4. OneInstalls' /\ Promised'
    BY <2>1, <2>2
  <2>5. \A j \in Installer : Decided(j)'
    BY <2>1, <2>2
  <2>6. \A j \in Installer : Installed(j)'
    BY <2>1, <2>2
  <2> QED BY <2>3, <2>4, <2>5, <2>6
<1>9. ASSUME NEW i \in Installer, WriteExeTmp(i) PROVE SelfInv'
  BY <1>9 DEF WriteExeTmp
<1>10. ASSUME NEW i \in Installer, RenameExeTmp(i) PROVE SelfInv'
  BY <1>10 DEF RenameExeTmp
<1>11. ASSUME NEW i \in Installer, InstallFails(i) PROVE SelfInv'
  <2>1. /\ exeTmp' = Nothing /\ UNCHANGED <<exe, runs, promised>>
        /\ inst[i].at \in {"open", "write", "rename"} /\ GivesUp(i) /\ Crosses(i)
    BY <1>11 DEF InstallFails, MayFail
  <2>2. crossed' \in BOOLEAN /\ (crossed => crossed') /\ (~crossed' => ~Installing(Partner(i)))
    BY <2>1
  <2>3. SelfTypes'
    BY <2>1, <2>2
  <2>4. OneInstalls' /\ Promised'
    BY <2>1, <2>2
  <2>5. \A j \in Installer : Decided(j)'
    BY <2>1, <2>2
  <2>6. \A j \in Installer : Installed(j)'
    BY <2>1, <2>2
  <2> QED BY <2>3, <2>4, <2>5, <2>6
<1>12. ASSUME NEW i \in Installer, Reply(i) PROVE SelfInv'
  BY <1>12 DEF Reply
<1>13. ASSUME NEW i \in Installer, RestartAgent(i) PROVE SelfInv'
  <2>1. /\ inst' \in [Installer -> Install]
        /\ \A j \in Installer : inst'[j] = IF j \in {i, "panel"} THEN NoInstall ELSE inst[j]
    BY <1>13, NoInstallType DEF RestartAgent
  <2>2. \A j \in Installer : j \notin {i, "panel"} => inst'[j] = inst[j]
    BY <2>1
  <2>3. inst'["panel"].at = "idle" /\ inst'[i].at = "idle"
    BY <2>1, NoInstallType
  <2>4. CASE i = "panel"
    BY <1>13, <2>1, <2>2, <2>3, <2>4 DEF RestartAgent, Runnable
  <2>5. CASE i = "cli"
    BY <1>13, <2>1, <2>2, <2>3, <2>5 DEF RestartAgent, Runnable
  <2> QED BY <2>4, <2>5
<1>14. CASE AgentEnds
  BY <1>14 DEF AgentEnds, Runnable
<1>15. CASE CommandKilled
  BY <1>15 DEF CommandKilled
<1>16. CASE UNCHANGED selfVars
  BY <1>16 DEF selfVars
<1> QED
  BY <1>2, <1>3, <1>4, <1>5, <1>6, <1>7, <1>8, <1>9, <1>10, <1>11, <1>12, <1>13, <1>14, <1>15, <1>16
     DEF SelfNext

LEMMA SelfTyped == SelfInv => SelfTypeOK
  BY Fields DEF SelfInv, SelfTypes, SelfTypeOK

LEMMA SelfInvariant == SelfSpec => []SelfInv
  BY SelfInvInit, SelfInvStep, PTL DEF SelfSpec

\* The variables keep their types, and whenever a process ends the program is that of a
\* release, unless both installers were replacing it at once (upgrade.go:355-415).
THEOREM SelfTyping == SelfSpec => []SelfTypeOK
  BY SelfTyped, SelfInvariant, PTL

\* The program becomes only what was asked for and verified, and until the restart it is the
\* one the panel was told, for any number of releases, mirrors, requests, ends of the
\* processes and interleavings of the two installers (upgrade.go:355-415, client.go:1208-1213).
THEOREM SelfProgramKept == SelfSpec => ProgramKept
<1>1. SelfInv => PromiseKept
  BY DEF SelfInv, Promised, Installed, PromiseKept, Does, Installer
<1> DEFINE Asked ==
      exe' # exe /\ ~crossed' =>
        \E i \in Installer :
           /\ Does(i, "rename") /\ exe' = inst[i].tag
           /\ inst[i].force \/ exe' > inst[i].from
<1>2. SelfInv /\ [SelfNext]_selfVars => [Asked]_selfVars
  <2> SUFFICES ASSUME SelfInv, SelfNext PROVE Asked
    OBVIOUS
  <2>1. exe' = exe => Asked
    OBVIOUS
  <2>2. CASE PanelRequest \/ CommandRequest
    BY <2>1, <2>2 DEF PanelRequest, CommandRequest, Requests
  <2>3. ASSUME NEW i \in Installer, WriteExeTmp(i) PROVE Asked
    BY <2>3 DEF WriteExeTmp, Crosses, Does, SelfInv, Installed
  <2>4. ASSUME NEW i \in Installer, RenameExeTmp(i) PROVE Asked
    BY <2>4 DEF RenameExeTmp, Crosses, Does, SelfInv, Installed, Decided
  <2>5. ASSUME NEW i \in Installer,
               Latest(i) \/ CompareWith(i) \/ Download(i) \/ VerifyDigest(i)
        PROVE Asked
    BY <2>1, <2>5 DEF Latest, CompareWith, Download, VerifyDigest, unmoved
  <2>6. ASSUME NEW i \in Installer,
               OpenExeTmp(i) \/ InstallFails(i) \/ Reply(i) \/ RestartAgent(i)
        PROVE Asked
    BY <2>1, <2>6 DEF OpenExeTmp, InstallFails, Reply, RestartAgent
  <2>7. CASE AgentEnds \/ CommandKilled
    BY <2>1, <2>7 DEF AgentEnds, CommandKilled
  <2> QED BY <2>2, <2>3, <2>4, <2>5, <2>6, <2>7 DEF SelfNext
<1> QED BY <1>1, <1>2, SelfInvariant, PTL DEF SelfSpec, ProgramKept, OnlyAsked

-----------------------------------------------------------------------------
(* The log file of xray (LogWindow) *)

OpenSteps == {"idle", "checked", "append"}
SlideSteps == {"slide", "tmp", "rename"}

\* c is of the first w lines, in order.
InOrder(c, w) ==
    /\ c \in Seq(1 .. MaxLines)
    /\ \A i \in 1 .. Len(c) : c[i] <= w
    /\ \A i, j \in 1 .. Len(c) : i < j => c[i] < c[j]

\* Every one of the first w lines that comes after from is in c, but for those of e.
Covers(c, from, w, e) ==
    \A k \in 1 .. w : k > from => k \in e \/ \E i \in 1 .. Len(c) : c[i] = k

\* What a slide takes with it.
NewPart(c, w, e) == InOrder(c, w) /\ Len(c) = KeptLines /\ Covers(c, c[1], w, e)

First(c, none) == IF c = <<>> THEN none ELSE c[1]

LogTypes ==
    /\ lines \in [Inode -> Seq(1 .. MaxLines)]
    /\ path \in Inode \cup {NoInode} /\ fd \in Inode \cup {NoInode}
    /\ stat \in Inode \cup {NoInode}
    /\ step \in OpenSteps \cup SlideSteps \cup {"closed"}
    /\ doing \in {"none", "open", "write"} /\ vacuum \in {"idle", "tmp", "rename"}
    /\ size \in Nat /\ written \in 0 .. MaxLines /\ cut \in Nat
    /\ exposed \subseteq 1 .. written

\* Where the writer is tells what it has open, and that there is room for a line.
StepInv ==
    /\ step \in OpenSteps => fd \in Inode /\ stat = fd
    /\ step \notin OpenSteps => fd = NoInode
    /\ step \in {"checked", "append"} => doing = "write" /\ written < MaxLines
    /\ step \in SlideSteps => doing # "none" /\ (doing = "write" => written < MaxLines)

\* What the slide and the vacuum hold is the newest part of the log; else <path>.tmp is
\* nobody's.
HeldInv ==
    /\ step = "tmp" => NewPart(buf, written, exposed)
    /\ vacuum = "tmp" => NewPart(vbuf, written, exposed)
    /\ (step = "rename" \/ vacuum = "rename") /\ tmp # NoInode => NewPart(tmp, written, exposed)

VisibleInv ==
    InOrder(Visible, written) /\ Covers(Visible, First(Visible, cut), written, exposed)

\* The writer has another file open than the one under the name only while it has not looked.
ApartInv == step \in OpenSteps /\ path # fd => window

\* The writer takes its file for no smaller than it is.
SizeInv ==
    /\ LogBounded
    /\ step \in OpenSteps => BytesOf(lines[fd]) <= size
    /\ step = "append" /\ ~unslid => size + LineBytes <= LimitBytes

LogInv == LogTypes /\ StepInv /\ HeldInv /\ VisibleInv /\ ApartInv /\ SizeInv

LEMMA BytesGrow ==
    ASSUME NEW n \in Nat
    PROVE  /\ n * LineBytes \in Nat /\ (n + 1) * LineBytes = n * LineBytes + LineBytes
           /\ \A m \in Nat : m <= n => m * LineBytes <= n * LineBytes
<1>1. LineBytes \in Nat
  BY LogAssumption
<1>2. ASSUME NEW m \in Nat, m <= n PROVE m * LineBytes <= n * LineBytes
  BY <1>1, <1>2
<1> QED BY <1>1, <1>2

LEMMA Halves ==
    /\ Keep \in Nat /\ LineBytes \in Nat \ {0} /\ LimitBytes \in Nat
    /\ LineBytes < Keep /\ Keep + Keep <= LimitBytes
  BY LogAssumption DEF Keep

LEMMA KeptFit == KeptLines \in Nat \ {0} /\ KeptLines * LineBytes < Keep
<1>1. Keep - 1 \in Nat /\ LineBytes <= Keep - 1
  BY Halves
<1> DEFINE a == Keep - 1
<1>2. ASSUME NEW x \in Nat, NEW y \in Nat \ {0}, y <= x
      PROVE  x \div y \in Nat \ {0} /\ (x \div y) * y <= x
  BY <1>2
<1>3. KeptLines \in Nat \ {0} /\ KeptLines * LineBytes <= Keep - 1
  BY <1>1, <1>2, Halves DEF KeptLines
<1>4. KeptLines * LineBytes \in Nat
  BY <1>3, BytesGrow
<1> QED BY <1>3, <1>4, Halves

LEMMA MoreThanKept ==
    ASSUME NEW n \in Nat, n * LineBytes > Keep
    PROVE  n > KeptLines
<1>1. n <= KeptLines => n * LineBytes <= KeptLines * LineBytes
  BY KeptFit, BytesGrow
<1>2. KeptLines * LineBytes \in Nat /\ n * LineBytes \in Nat
  BY KeptFit, BytesGrow
<1> QED BY <1>1, <1>2, KeptFit, Halves

LEMMA UnusedIs == Unused \in Inode /\ Unused \notin {path, fd, stat}
<1>1. \E i \in Inode : i \notin {path, fd, stat}
  BY DEF Inode
<1> QED BY <1>1 DEF Unused

\* The end of what covers the log covers it.
LEMMA NewestIsNew ==
    ASSUME NEW c, NEW w \in Nat, NEW e,
           InOrder(c, w), Covers(c, c[1], w, e), Len(c) * LineBytes > Keep
    PROVE  NewPart(Newest(c), w, e)
<1> DEFINE d == Len(c) - KeptLines
           n == Newest(c)
<1>1. c \in Seq(1 .. MaxLines) /\ Len(c) \in Nat /\ KeptLines \in Nat \ {0}
      /\ Len(c) > KeptLines
  BY KeptFit, MoreThanKept DEF InOrder
<1>2. n \in Seq(1 .. MaxLines) /\ Len(n) = KeptLines
      /\ \A i \in 1 .. KeptLines : n[i] = c[d + i] /\ d + i \in 1 .. Len(c)
  <2>1. n = SubSeq(c, d + 1, Len(c)) /\ d \in Nat /\ d + KeptLines = Len(c)
    BY <1>1 DEF Newest
  <2> HIDE DEF n, d
  <2>2. n \in Seq(1 .. MaxLines) /\ Len(n) = KeptLines
        /\ \A i \in 1 .. KeptLines : n[i] = c[d + i] /\ d + i \in 1 .. Len(c)
    <3>1. \A i \in d + 1 .. Len(c) : c[i] \in 1 .. MaxLines
      <4>1. \A i \in d + 1 .. Len(c) : i \in 1 .. Len(c)
        BY <1>1, <2>1
      <4> QED BY <1>1, <4>1, ElementOfSeq
    <3>2. d + 1 \in Int /\ Len(c) \in Int /\ d + 1 <= Len(c) /\ Len(c) - (d + 1) + 1 = KeptLines
      BY <1>1, <2>1
    <3>3. /\ n \in Seq(1 .. MaxLines) /\ Len(n) = KeptLines
          /\ \A i \in 1 .. KeptLines : n[i] = c[d + 1 + i - 1]
      BY <2>1, <3>1, <3>2, SubSeqProperties
    <3>4. \A i \in 1 .. KeptLines : d + 1 + i - 1 = d + i /\ d + i \in 1 .. Len(c)
      BY <1>1, <2>1
    <3> QED BY <3>3, <3>4
  <2> QED BY <2>2
<1>3. InOrder(n, w)
  <2>1. \A i \in 1 .. KeptLines : n[i] <= w
    BY <1>2 DEF InOrder
  <2>2. ASSUME NEW i \in 1 .. KeptLines, NEW j \in 1 .. KeptLines, i < j
        PROVE  n[i] < n[j]
    <3>1. d + i < d + j
      BY <1>1, <2>2
    <3> QED BY <1>2, <3>1 DEF InOrder
  <2> QED BY <1>2, <2>1, <2>2 DEF InOrder
<1>4. ASSUME NEW k \in 1 .. w, k > n[1], k \notin e
      PROVE  \E i \in 1 .. Len(n) : n[i] = k
  <2>1. n[1] = c[d + 1] /\ d + 1 \in 1 .. Len(c) /\ 1 < d + 1 /\ 1 \in 1 .. Len(c)
    BY <1>1, <1>2
  <2>2. c[1] < c[d + 1] /\ \A i \in 1 .. Len(c) : c[i] \in Nat
    BY <1>1, <2>1, LogAssumption DEF InOrder
  <2>3. k > c[1]
    BY <1>4, <2>1, <2>2
  <2>4. PICK i \in 1 .. Len(c) : c[i] = k
    BY <1>4, <2>3 DEF Covers
  <2>5. d + 1 < i
    BY <1>4, <2>1, <2>2, <2>4 DEF InOrder
  <2>6. i - d \in 1 .. KeptLines /\ d + (i - d) = i
    BY <1>1, <2>4, <2>5
  <2> QED BY <1>2, <2>4, <2>6
<1> QED BY <1>2, <1>3, <1>4 DEF NewPart, Covers

LEMMA StillOrdered ==
    ASSUME NEW c, NEW w \in Nat, InOrder(c, w)
    PROVE  InOrder(c, w + 1)
<1>1. \A i \in 1 .. Len(c) : c[i] \in Nat
  BY LogAssumption DEF InOrder
<1> QED BY <1>1 DEF InOrder

\* A line that is exposed is missed by nobody.
LEMMA StillCovers ==
    ASSUME NEW c, NEW from, NEW w \in Nat, NEW e, Covers(c, from, w, e)
    PROVE  Covers(c, from, w + 1, e \cup {w + 1})
  BY DEF Covers

LEMMA StillNew ==
    ASSUME NEW c, NEW w \in Nat, NEW e, NewPart(c, w, e)
    PROVE  NewPart(c, w + 1, e \cup {w + 1})
  BY StillOrdered, StillCovers DEF NewPart

\* The next line keeps the file in order.
LEMMA NextLine ==
    ASSUME NEW c, NEW w \in Nat, w < MaxLines, NEW e, NEW f, e \subseteq f, NEW none,
           InOrder(c, w), Covers(c, First(c, none), w, e)
    PROVE  /\ InOrder(Append(c, w + 1), w + 1)
           /\ Covers(Append(c, w + 1), First(Append(c, w + 1), none), w + 1, f)
<1> DEFINE n == Append(c, w + 1)
<1>1. c \in Seq(1 .. MaxLines) /\ Len(c) \in Nat /\ w + 1 \in 1 .. MaxLines
  BY LogAssumption DEF InOrder
<1>2. /\ n \in Seq(1 .. MaxLines) /\ Len(n) = Len(c) + 1 /\ n # <<>> /\ n[Len(c) + 1] = w + 1
      /\ \A i \in 1 .. Len(c) : n[i] = c[i]
  <2>1. /\ n \in Seq(1 .. MaxLines) /\ Len(n) = Len(c) + 1 /\ n[Len(c) + 1] = w + 1
        /\ \A i \in 1 .. Len(c) : n[i] = c[i]
    BY <1>1, AppendProperties
  <2>2. n # <<>>
    BY <1>1, AppendProperties
  <2> QED
    BY <2>1, <2>2
<1>3. \A i \in 1 .. Len(n) : i \in 1 .. Len(c) \/ i = Len(c) + 1
  BY <1>1, <1>2
<1>4. \A i \in 1 .. Len(c) : c[i] \in Nat /\ c[i] <= w
  BY <1>1, LogAssumption DEF InOrder
<1>5. InOrder(n, w + 1)
  <2>1. \A i \in 1 .. Len(n) : n[i] <= w + 1
    BY <1>2, <1>3, <1>4
  <2>2. ASSUME NEW i \in 1 .. Len(n), NEW j \in 1 .. Len(n), i < j
        PROVE  n[i] < n[j]
    <3>1. i \in 1 .. Len(c)
      BY <1>1, <1>2, <2>2
    <3>2. CASE j \in 1 .. Len(c)
      BY <1>2, <2>2, <3>1, <3>2 DEF InOrder
    <3>3. CASE j = Len(c) + 1
      BY <1>2, <1>4, <3>1, <3>3
    <3> QED BY <1>3, <3>2, <3>3
  <2> QED BY <1>2, <2>1, <2>2 DEF InOrder
<1>6. ASSUME NEW k \in 1 .. w + 1, k > First(n, none)
      PROVE  k \in f \/ \E i \in 1 .. Len(n) : n[i] = k
  <2>1. CASE k = w + 1
    BY <1>1, <1>2, <2>1
  <2>2. CASE k # w + 1 /\ c = <<>>
    BY <1>1, <1>2, <1>6, <2>2 DEF First
  <2>3. CASE k # w + 1 /\ c # <<>>
    <3>1. k \in 1 .. w
      BY <2>3
    <3>2. n[1] = c[1] /\ First(n, none) = First(c, none)
      BY <1>1, <1>2, <2>3 DEF First
    <3>3. k \in e \/ \E i \in 1 .. Len(c) : c[i] = k
      BY <1>6, <3>1, <3>2 DEF Covers
    <3>4. \A i \in 1 .. Len(c) : i \in 1 .. Len(n)
      BY <1>1, <1>2
    <3> QED BY <1>2, <3>3, <3>4
  <2> QED BY <2>1, <2>2, <2>3
<1> QED BY <1>5, <1>6 DEF Covers

LEMMA VisibleTypes ==
    ASSUME VisibleInv
    PROVE  /\ Visible \in Seq(1 .. MaxLines) /\ Len(Visible) \in Nat
           /\ BytesOf(Visible) = Len(Visible) * LineBytes /\ BytesOf(Visible) \in Nat
<1>1. Visible \in Seq(1 .. MaxLines)
  BY DEF VisibleInv, InOrder
<1> QED BY <1>1, BytesGrow DEF BytesOf

LEMMA SameFile ==
    ASSUME VisibleInv, LogBounded, Visible' = Visible, written' = written, exposed' = exposed,
           cut' = cut, unslid' = unslid
    PROVE  VisibleInv' /\ LogBounded'
  BY DEF VisibleInv, LogBounded, BytesOf

\* What reopening does: the file under the name stays, and is the one that is open.
LEMMA Reopened ==
    ASSUME LogTypes, ReopenNow
    PROVE  /\ path' \in Inode /\ fd' = path' /\ stat' = path' /\ Visible' = Visible
           /\ lines' \in [Inode -> Seq(1 .. MaxLines)] /\ lines'[fd'] = Visible
           /\ size' = BytesOf(Visible) /\ size' \in Nat
<1> DEFINE p == IF path = NoInode THEN Unused ELSE path
<1>1. p \in Inode /\ path' = p /\ fd' = p /\ stat' = p /\ size' = BytesOf(Visible)
      /\ lines' = [lines EXCEPT ![p] = Visible]
  BY UnusedIs DEF ReopenNow, Reopen, LogTypes
<1>2. Visible \in Seq(1 .. MaxLines)
  <2>1. <<>> \in Seq(1 .. MaxLines)
    OBVIOUS
  <2> QED BY <2>1 DEF Visible, LogTypes
<1>3. lines' \in [Inode -> Seq(1 .. MaxLines)] /\ lines'[p] = Visible
  BY <1>1, <1>2 DEF LogTypes
<1>4. p # NoInode
  BY <1>1, LogAssumption
<1>5. Visible' = Visible
  BY <1>1, <1>3, <1>4 DEF Visible
<1>6. size' \in Nat
  BY <1>1, <1>2, BytesGrow DEF BytesOf
<1> QED BY <1>1, <1>3, <1>5, <1>6

LEMMA LogInitInv == LogInit => LogInv
<1> SUFFICES ASSUME LogInit PROVE LogInv
  OBVIOUS
<1>1. /\ step = "closed" /\ doing = "none" /\ vacuum = "idle" /\ fd = NoInode /\ stat = NoInode
      /\ unslid = TRUE /\ exposed = {} /\ cut = 0 /\ size = 0
  BY DEF LogInit
<1>2. CASE path = NoInode /\ lines = [i \in Inode |-> <<>>] /\ written = 0
  <2>1. Visible = <<>> /\ <<>> \in Seq(1 .. MaxLines) /\ Len(<<>>) = 0
    BY <1>2 DEF Visible
  <2>2. VisibleInv
    BY <1>2, <2>1 DEF VisibleInv, InOrder, Covers
  <2>3. LogTypes
    BY <1>1, <1>2, <2>1, LogAssumption DEF LogTypes
  <2> QED BY <1>1, <2>2, <2>3 DEF LogInv, StepInv, HeldInv, ApartInv, SizeInv, LogBounded,
                                  OpenSteps, SlideSteps
<1>3. CASE /\ path = 1 /\ written = OldLines
           /\ lines = [i \in Inode |-> IF i = 1 THEN [k \in 1 .. OldLines |-> k] ELSE <<>>]
  <2> DEFINE old == [k \in 1 .. OldLines |-> k]
  <2>1. OldLines \in Nat /\ OldLines \in 0 .. MaxLines /\ MaxLines \in Nat
    BY LogAssumption
  <2>2. old \in Seq(1 .. MaxLines) /\ Len(old) = OldLines /\ \A k \in 1 .. OldLines : old[k] = k
    BY <2>1
  <2>3. path \in Inode /\ path # NoInode /\ Visible = old
    BY <1>3, LogAssumption DEF Visible, Inode
  <2> HIDE DEF old
  <2>4. InOrder(old, written)
    BY <1>3, <2>1, <2>2 DEF InOrder
  <2>5. Covers(old, First(old, cut), written, exposed)
    BY <1>3, <2>1, <2>2 DEF Covers
  <2>6. lines \in [Inode -> Seq(1 .. MaxLines)]
    <3>1. <<>> \in Seq(1 .. MaxLines)
      OBVIOUS
    <3> QED BY <1>3, <2>2, <3>1 DEF old
  <2>7. LogTypes
    BY <1>1, <1>3, <2>1, <2>3, <2>6 DEF LogTypes
  <2> QED BY <1>1, <2>3, <2>4, <2>5, <2>7
          DEF LogInv, StepInv, HeldInv, VisibleInv, ApartInv, SizeInv, LogBounded, OpenSteps, SlideSteps
<1> QED BY <1>2, <1>3 DEF LogInit

\* Opening, looking at the name and reopening.
LEMMA OpensAndLooks ==
    ASSUME LogInv, Open \/ CheckExternal
    PROVE  LogInv'
<1>0. LogTypes /\ StepInv /\ HeldInv /\ VisibleInv /\ ApartInv /\ SizeInv /\ LogBounded
  BY DEF LogInv, SizeInv
<1>1. CASE Open /\ step' = "slide"
  <2>1. /\ UNCHANGED <<lines, path, fd, stat, size, unslid, tmp, buf, vacuum, vbuf, written, exposed, cut>>
        /\ step = "closed" /\ step' = "slide" /\ doing' = "open"
    BY <1>1 DEF Open
  <2>2. VisibleInv' /\ LogBounded'
    BY <1>0, <2>1, SameFile DEF Visible
  <2> QED BY <1>0, <2>1, <2>2 DEF LogInv, LogTypes, StepInv, HeldInv, ApartInv, SizeInv,
                                   OpenSteps, SlideSteps
<1>2. CASE Open /\ step' = "idle"
  <2>1. /\ UNCHANGED <<tmp, buf, vacuum, vbuf, written, exposed, cut, doing>>
        /\ step = "closed" /\ step' = "idle" /\ ReopenNow /\ BytesOf(Visible) <= LimitBytes
    BY <1>2 DEF Open
  <2>2. /\ path' \in Inode /\ fd' = path' /\ stat' = path' /\ Visible' = Visible
        /\ lines' \in [Inode -> Seq(1 .. MaxLines)] /\ lines'[fd'] = Visible
        /\ size' = BytesOf(Visible) /\ size' \in Nat
    BY <1>0, <2>1, Reopened
  <2>3. VisibleInv' /\ LogBounded'
    BY <1>0, <2>1, <2>2 DEF VisibleInv, LogBounded, BytesOf
  <2> QED BY <1>0, <2>1, <2>2, <2>3 DEF LogInv, LogTypes, StepInv, HeldInv, ApartInv, SizeInv,
                                         OpenSteps, SlideSteps, BytesOf
<1>3. CASE CheckExternal /\ lookDue /\ FileGone
  <2>1. /\ UNCHANGED <<tmp, buf, vacuum, vbuf, written, exposed, cut, unslid>> /\ ReopenNow
        /\ step = "idle" /\ step' = "checked" /\ written < MaxLines /\ doing' = "write"
    BY <1>3 DEF CheckExternal
  <2>2. /\ path' \in Inode /\ fd' = path' /\ stat' = path' /\ Visible' = Visible
        /\ lines' \in [Inode -> Seq(1 .. MaxLines)] /\ lines'[fd'] = Visible
        /\ size' = BytesOf(Visible) /\ size' \in Nat
    BY <1>0, <2>1, Reopened
  <2>3. VisibleInv' /\ LogBounded'
    BY <1>0, <2>1, <2>2, SameFile
  <2> QED BY <1>0, <2>1, <2>2, <2>3 DEF LogInv, LogTypes, StepInv, HeldInv, ApartInv, SizeInv,
                                         OpenSteps, SlideSteps, BytesOf
<1>4. CASE CheckExternal /\ ~(lookDue /\ FileGone)
  <2>1. /\ UNCHANGED <<lines, path, fd, stat, tmp, buf, vacuum, vbuf, written, exposed, cut, unslid>>
        /\ step = "idle" /\ step' = "checked" /\ written < MaxLines /\ doing' = "write"
        /\ size' = IF lookDue THEN BytesOf(Visible) ELSE size
        /\ window' = (window /\ ~lookDue)
    BY <1>4 DEF CheckExternal
  <2>2. VisibleInv' /\ LogBounded'
    BY <1>0, <2>1, SameFile DEF Visible
  <2>3. lookDue => path = fd /\ path # NoInode
    BY <1>0, <1>4, <2>1 DEF FileGone, StepInv, OpenSteps
  <2>4. size' \in Nat /\ BytesOf(lines'[fd']) <= size'
    <3>1. CASE lookDue
      <4>1. Visible = lines[fd] /\ Visible \in Seq(1 .. MaxLines)
        BY <1>0, <2>3, <3>1 DEF Visible, VisibleInv, InOrder
      <4>2. BytesOf(Visible) \in Nat
        BY <1>0, VisibleTypes
      <4> QED BY <2>1, <3>1, <4>1, <4>2
    <3>2. CASE ~lookDue
      BY <1>0, <2>1, <3>2 DEF LogTypes, SizeInv, OpenSteps
    <3> QED BY <3>1, <3>2
  <2>5. ApartInv'
    BY <1>0, <2>1, <2>3 DEF ApartInv, OpenSteps
  <2> QED BY <1>0, <2>1, <2>2, <2>4, <2>5 DEF LogInv, LogTypes, StepInv, HeldInv, SizeInv,
                                               OpenSteps, SlideSteps
<1> QED BY <1>1, <1>2, <1>3, <1>4 DEF Open, CheckExternal

\* What is read of the file is the newest part of the log.
LEMMA ReadsNewest ==
    ASSUME LogInv, BytesOf(Visible) > Keep
    PROVE  NewPart(Newest(Visible), written, exposed)
<1>1. Visible # <<>>
  BY Halves, BytesGrow DEF BytesOf
<1>2. InOrder(Visible, written) /\ Covers(Visible, Visible[1], written, exposed) /\ written \in Nat
  BY <1>1 DEF LogInv, VisibleInv, First, LogTypes
<1> QED BY <1>2, NewestIsNew DEF BytesOf

\* The steps that leave alone what is under the name.
LEMMA NameStays ==
    ASSUME LogInv, Close \/ SecondPasses \/ Slides \/ SlideReads \/ SlideWrites
                   \/ VacuumReads \/ VacuumWrites
    PROVE  LogInv'
<1>0. LogTypes /\ StepInv /\ HeldInv /\ VisibleInv /\ ApartInv /\ SizeInv /\ LogBounded
  BY DEF LogInv, SizeInv
<1>1. UNCHANGED <<lines, path, written, exposed, cut, unslid, size, window>>
  BY DEF Close, SecondPasses, Slides, SlideReads, SlideWrites, VacuumReads, VacuumWrites, logFile,
         sliding, logGhost
<1>2. VisibleInv' /\ LogBounded'
  BY <1>0, <1>1, SameFile DEF Visible
<1>3. CASE Close \/ SecondPasses
  <2>1. /\ UNCHANGED <<tmp, doing, buf, vacuum, vbuf>> /\ step = "idle"
        /\ \/ fd' = NoInode /\ stat' = NoInode /\ step' = "closed"
           \/ UNCHANGED <<fd, stat, step>>
    BY <1>3 DEF Close, SecondPasses, logFile, sliding, logGhost
  <2> QED BY <1>0, <1>1, <1>2, <2>1 DEF LogInv, LogTypes, StepInv, HeldInv, ApartInv, SizeInv,
                                         OpenSteps, SlideSteps
<1>4. CASE Slides
  <2>1. /\ UNCHANGED <<tmp, doing, buf, vacuum, vbuf, stat>> /\ step = "checked"
        /\ fd' = NoInode /\ step' = "slide"
    BY <1>4 DEF Slides, logFile, sliding, logGhost
  <2> QED BY <1>0, <1>1, <1>2, <2>1 DEF LogInv, LogTypes, StepInv, HeldInv, ApartInv, SizeInv,
                                         OpenSteps, SlideSteps
<1>5. CASE SlideReads \/ SlideWrites
  <2>1. /\ UNCHANGED <<doing, vacuum, vbuf, stat, fd>>
        /\ \/ /\ step = "slide" /\ step' = "tmp" /\ tmp' = tmp
              /\ NewPart(buf', written, exposed)
           \/ step = "tmp" /\ step' = "rename" /\ tmp' = buf
    BY <1>5, ReadsNewest DEF SlideReads, SlideWrites, logFile, sliding, logGhost
  <2> QED BY <1>0, <1>1, <1>2, <2>1 DEF LogInv, LogTypes, StepInv, HeldInv, ApartInv, SizeInv,
                                         OpenSteps, SlideSteps
<1>6. CASE VacuumReads \/ VacuumWrites
  <2>1. /\ UNCHANGED <<doing, step, buf, stat, fd>>
        /\ \/ vacuum' = "tmp" /\ tmp' = tmp /\ NewPart(vbuf', written, exposed)
           \/ vacuum = "tmp" /\ vacuum' = "rename" /\ tmp' = vbuf
    BY <1>6, ReadsNewest DEF VacuumReads, VacuumWrites, logFile, sliding, logGhost
  <2> QED BY <1>0, <1>1, <1>2, <2>1 DEF LogInv, LogTypes, StepInv, HeldInv, ApartInv, SizeInv,
                                         OpenSteps, SlideSteps
<1> QED BY <1>3, <1>4, <1>5, <1>6

\* A new part of the log under the name.
LEMMA NewPartIsWhole ==
    ASSUME NEW c, NEW w \in Nat, NEW e, NEW none, NewPart(c, w, e)
    PROVE  /\ c \in Seq(1 .. MaxLines) /\ c # <<>> /\ Len(c) * LineBytes < Keep
           /\ InOrder(c, w) /\ Covers(c, First(c, none), w, e)
<1>1. c \in Seq(1 .. MaxLines) /\ Len(c) = KeptLines
  BY DEF NewPart, InOrder
<1>2. c # <<>>
  BY <1>1, KeptFit
<1> QED BY <1>1, <1>2, KeptFit DEF NewPart, First

LEMMA SlideEnds ==
    ASSUME LogInv, SlideRenames \/ SlideReopens
    PROVE  LogInv'
<1>0. LogTypes /\ StepInv /\ HeldInv /\ VisibleInv /\ ApartInv /\ SizeInv /\ LogBounded
  BY DEF LogInv, SizeInv
<1>1. /\ UNCHANGED <<vacuum, vbuf, written, exposed, cut, doing>> /\ step \in SlideSteps
      /\ step' = IF doing = "open" THEN "idle" ELSE "append"
  BY DEF SlideRenames, SlideReopens, SlideDoesNothing, AfterSlide, SlideSteps
<1>2. CASE SlideRenames
  <2>1. /\ step = "rename" /\ tmp # NoInode /\ unslid' = FALSE
        /\ path' = Unused /\ fd' = Unused /\ stat' = Unused
        /\ lines' = [lines EXCEPT ![Unused] = tmp] /\ size' = BytesOf(tmp)
        /\ tmp' = NoInode
    BY <1>2 DEF SlideRenames, Reopen
  <2>2. NewPart(tmp, written, exposed) /\ written \in Nat
    BY <1>0, <2>1 DEF HeldInv, LogTypes
  <2>3. /\ tmp \in Seq(1 .. MaxLines) /\ Len(tmp) * LineBytes < Keep
        /\ InOrder(tmp, written) /\ Covers(tmp, First(tmp, cut), written, exposed)
    BY <2>2, NewPartIsWhole
  <2>4. Unused \in Inode /\ Unused # NoInode
    BY UnusedIs, LogAssumption
  <2>5. lines' \in [Inode -> Seq(1 .. MaxLines)] /\ lines'[Unused] = tmp
    BY <1>0, <2>1, <2>3, <2>4 DEF LogTypes
  <2>6. Visible' = tmp
    BY <2>1, <2>4, <2>5 DEF Visible
  <2>7. size' \in Nat /\ size' = Len(tmp) * LineBytes /\ size' < Keep
    BY <2>1, <2>3, BytesGrow DEF BytesOf
  <2>8. VisibleInv'
    BY <1>1, <2>3, <2>6 DEF VisibleInv
  <2>9. LogBounded' /\ BytesOf(lines'[fd']) <= size' /\ size' + LineBytes <= LimitBytes
    BY <2>1, <2>5, <2>6, <2>7, Halves DEF LogBounded, BytesOf
  <2> QED BY <1>0, <1>1, <2>1, <2>4, <2>5, <2>7, <2>8, <2>9
          DEF LogInv, LogTypes, StepInv, HeldInv, ApartInv, SizeInv, OpenSteps, SlideSteps
<1>3. CASE SlideReopens
  <2>1. ReopenNow /\ tmp' = tmp
    BY <1>3 DEF SlideReopens
  <2>2. /\ path' \in Inode /\ fd' = path' /\ stat' = path' /\ Visible' = Visible
        /\ lines' \in [Inode -> Seq(1 .. MaxLines)] /\ lines'[fd'] = Visible
        /\ size' = BytesOf(Visible) /\ size' \in Nat
    BY <1>0, <2>1, Reopened
  <2>3. unslid' = TRUE \/ (unslid' = unslid /\ BytesOf(Visible) <= Keep)
    BY <1>3 DEF SlideReopens, SlideDoesNothing
  <2>4. VisibleInv'
    BY <1>0, <1>1, <2>2 DEF VisibleInv
  <2>5. LogBounded' /\ (~unslid' => size' + LineBytes <= LimitBytes)
    BY <1>0, <2>2, <2>3, Halves DEF LogBounded, BytesOf
  <2> QED BY <1>0, <1>1, <2>1, <2>2, <2>4, <2>5
          DEF LogInv, LogTypes, StepInv, HeldInv, ApartInv, SizeInv, OpenSteps, SlideSteps, BytesOf
<1> QED BY <1>2, <1>3

\* A line is appended, or the write fails.
LEMMA LineWritten ==
    ASSUME LogInv, Appends
    PROVE  LogInv'
<1>0. LogTypes /\ StepInv /\ HeldInv /\ VisibleInv /\ ApartInv /\ SizeInv /\ LogBounded
  BY DEF LogInv, SizeInv
<1>1. /\ UNCHANGED <<path, tmp, fd, stat, doing, buf, vacuum, vbuf, window, cut, unslid>>
      /\ step \in {"append", "checked"} /\ (step = "checked" => ~NeedsSlide) /\ step' = "idle"
  BY DEF Appends
<1>2. fd \in Inode /\ stat = fd /\ written < MaxLines /\ (path # fd => window)
      /\ fd # NoInode /\ BytesOf(lines[fd]) <= size
  BY <1>0, <1>1, LogAssumption DEF StepInv, ApartInv, SizeInv, OpenSteps
<1>3. CASE UNCHANGED <<written, lines, size, exposed>>
  <2>1. VisibleInv' /\ LogBounded'
    BY <1>0, <1>1, <1>3, SameFile DEF Visible
  <2> QED BY <1>0, <1>1, <1>2, <1>3, <2>1
          DEF LogInv, LogTypes, StepInv, HeldInv, ApartInv, SizeInv, OpenSteps, SlideSteps
<1>4. CASE WritesLine /\ exposed' = IF window \/ vacuum # "idle"
                                    THEN exposed \cup {written + 1} ELSE exposed
  <2>1. /\ written' = written + 1 /\ size' = size + LineBytes
        /\ lines' = [lines EXCEPT ![fd] = Append(lines[fd], written + 1)]
    BY <1>4 DEF WritesLine
  <2>2. /\ written \in Nat /\ MaxLines \in Nat /\ written + 1 \in 1 .. MaxLines
        /\ lines[fd] \in Seq(1 .. MaxLines)
    BY <1>0, <1>2, LogAssumption DEF LogTypes
  <2>3. /\ Append(lines[fd], written + 1) \in Seq(1 .. MaxLines)
        /\ Len(Append(lines[fd], written + 1)) = Len(lines[fd]) + 1
        /\ Len(lines[fd]) \in Nat
    BY <2>2
  <2>4. /\ lines' \in [Inode -> Seq(1 .. MaxLines)]
        /\ lines'[fd] = Append(lines[fd], written + 1)
        /\ \A i \in Inode : i # fd => lines'[i] = lines[i]
    BY <1>0, <1>2, <2>1, <2>3 DEF LogTypes
  <2>5. size' \in Nat /\ BytesOf(lines'[fd']) <= size'
    <3>1. BytesOf(lines'[fd']) = BytesOf(lines[fd]) + LineBytes
      BY <1>1, <2>3, <2>4, BytesGrow DEF BytesOf
    <3>2. BytesOf(lines[fd]) \in Nat
      BY <2>3, BytesGrow DEF BytesOf
    <3> QED BY <1>0, <1>2, <2>1, <3>1, <3>2, Halves DEF LogTypes
  <2>6. LogTypes'
    <3>1. exposed' \subseteq 1 .. written'
      BY <1>0, <1>4, <2>1, <2>2 DEF LogTypes
    <3>2. step' \in OpenSteps \cup SlideSteps \cup {"closed"}
      BY <1>1 DEF OpenSteps
    <3> QED BY <1>0, <1>1, <2>1, <2>2, <2>4, <2>5, <3>1, <3>2 DEF LogTypes
  <2>7. HeldInv'
    <3>1. CASE vacuum = "idle"
      BY <1>1, <3>1 DEF HeldInv
    <3>2. CASE vacuum # "idle"
      <4>1. exposed' = exposed \cup {written + 1}
        BY <1>4, <3>2
      <4>2. \A c : NewPart(c, written, exposed) => NewPart(c, written', exposed')
        BY <2>1, <2>2, <4>1, StillNew
      <4> QED BY <1>0, <1>1, <4>2 DEF HeldInv
    <3> QED BY <3>1, <3>2
  <2>8. CASE path # fd
    <3>1. Visible' = Visible
      BY <1>0, <1>1, <2>4, <2>8 DEF Visible, LogTypes
    <3>2. exposed' = exposed \cup {written + 1}
      BY <1>2, <1>4, <2>8
    <3>3. VisibleInv'
      BY <1>0, <1>1, <2>1, <2>2, <3>1, <3>2, StillOrdered, StillCovers DEF VisibleInv
    <3>4. LogBounded'
      BY <1>0, <1>1, <3>1 DEF LogBounded, BytesOf
    <3> QED BY <1>0, <1>1, <1>2, <2>5, <2>6, <2>7, <3>3, <3>4
            DEF LogInv, StepInv, ApartInv, SizeInv, OpenSteps, SlideSteps
  <2>9. CASE path = fd
    <3>1. Visible = lines[fd] /\ Visible' = Append(Visible, written + 1)
      BY <1>1, <1>2, <2>4, <2>9 DEF Visible
    <3>2. exposed \subseteq exposed'
      BY <1>4
    <3>3. /\ InOrder(Append(Visible, written + 1), written + 1)
          /\ Covers(Append(Visible, written + 1), First(Append(Visible, written + 1), cut),
                    written + 1, exposed')
      BY <1>0, <1>2, <2>2, <3>2, NextLine DEF VisibleInv
    <3>4. VisibleInv'
      BY <1>1, <2>1, <3>1, <3>3 DEF VisibleInv
    <3>5. ASSUME ~unslid PROVE size + LineBytes <= LimitBytes \/ size = 0
      BY <1>0, <1>1, <3>5, Halves DEF SizeInv, NeedsSlide, LogTypes
    <3>6. BytesOf(Visible') <= size' /\ size' = size + LineBytes
      BY <1>1, <2>1, <2>4, <2>5, <3>1
    <3>7. BytesOf(Visible') \in Nat
      <4>1. Len(Visible') \in Nat
        BY <2>3, <3>1
      <4> QED BY <4>1, BytesGrow DEF BytesOf
    <3>8. LogBounded'
      BY <1>0, <1>1, <3>5, <3>6, <3>7, Halves DEF LogBounded, BytesOf, LogTypes
    <3> QED BY <1>0, <1>1, <1>2, <2>5, <2>6, <2>7, <2>9, <3>4, <3>8
            DEF LogInv, StepInv, ApartInv, SizeInv, OpenSteps, SlideSteps
  <2> QED BY <2>8, <2>9
<1> QED BY <1>3, <1>4 DEF Appends

\* What the operator does beside.
LEMMA Meddled ==
    ASSUME LogInv, VacuumRenames \/ Truncate \/ RemoveFile
    PROVE  LogInv'
<1>0. LogTypes /\ StepInv /\ HeldInv /\ VisibleInv /\ ApartInv /\ SizeInv /\ LogBounded
  BY DEF LogInv, SizeInv
<1>1. UNCHANGED <<fd, stat, size, doing, step, buf, vbuf, written, exposed, unslid>>
  BY DEF VacuumRenames, Truncate, RemoveFile, sliding
<1>2. CASE VacuumRenames /\ tmp = NoInode
  <2>1. UNCHANGED <<lines, path, tmp, window, cut>> /\ vacuum' = "idle"
    BY <1>2 DEF VacuumRenames, logFile
  <2>2. VisibleInv' /\ LogBounded'
    BY <1>0, <1>1, <2>1, SameFile DEF Visible
  <2> QED BY <1>0, <1>1, <2>1, <2>2
          DEF LogInv, LogTypes, StepInv, HeldInv, ApartInv, SizeInv
<1>3. CASE VacuumRenames /\ tmp # NoInode
  <2>1. /\ vacuum = "rename" /\ vacuum' = "idle" /\ window' = TRUE /\ cut' = cut
        /\ path' = Unused /\ lines' = [lines EXCEPT ![Unused] = tmp] /\ tmp' = NoInode
    BY <1>3 DEF VacuumRenames
  <2>2. NewPart(tmp, written, exposed) /\ written \in Nat
    BY <1>0, <1>3, <2>1 DEF HeldInv, LogTypes
  <2>3. /\ tmp \in Seq(1 .. MaxLines) /\ Len(tmp) * LineBytes < Keep /\ Len(tmp) \in Nat
        /\ InOrder(tmp, written) /\ Covers(tmp, First(tmp, cut), written, exposed)
    BY <2>2, NewPartIsWhole
  <2>4. Unused \in Inode /\ Unused # NoInode /\ Unused # fd
    BY UnusedIs, LogAssumption
  <2>5. /\ lines' \in [Inode -> Seq(1 .. MaxLines)] /\ lines'[Unused] = tmp
        /\ (fd \in Inode => lines'[fd] = lines[fd])
    BY <1>0, <2>1, <2>3, <2>4 DEF LogTypes
  <2>6. Visible' = tmp
    BY <2>1, <2>4, <2>5 DEF Visible
  <2>7. VisibleInv'
    BY <1>1, <2>1, <2>3, <2>6 DEF VisibleInv
  <2>8. LogBounded'
    <3>1. Len(tmp) * LineBytes \in Nat
      BY <2>3, BytesGrow
    <3> QED BY <2>3, <2>6, <3>1, Halves DEF LogBounded, BytesOf
  <2> QED BY <1>0, <1>1, <2>1, <2>4, <2>5, <2>7, <2>8
          DEF LogInv, LogTypes, StepInv, HeldInv, ApartInv, SizeInv, BytesOf
<1>4. CASE Truncate \/ RemoveFile
  <2>1. /\ path \in Inode /\ path # NoInode /\ cut' = written /\ window' = TRUE
        /\ UNCHANGED <<tmp, vacuum>>
        /\ \/ path' = path /\ lines' = [lines EXCEPT ![path] = <<>>]
           \/ path' = NoInode /\ lines' = lines
    BY <1>0, <1>4 DEF Truncate, RemoveFile, LogTypes
  <2>2. <<>> \in Seq(1 .. MaxLines) /\ Len(<<>>) = 0
    OBVIOUS
  <2>3. lines' \in [Inode -> Seq(1 .. MaxLines)]
    BY <1>0, <2>1, <2>2 DEF LogTypes
  <2>4. Visible' = <<>>
    BY <1>0, <2>1 DEF Visible, LogTypes
  <2>5. written \in Nat
    BY <1>0 DEF LogTypes
  <2>6. VisibleInv'
    BY <1>1, <2>1, <2>2, <2>4, <2>5 DEF VisibleInv, InOrder, Covers, First
  <2>7. LogBounded'
    BY <2>2, <2>4, Halves, BytesGrow DEF LogBounded, BytesOf
  <2>8. step \in OpenSteps => BytesOf(lines'[fd]) <= size
    <3>1. CASE lines'[fd] = lines[fd]
      BY <1>0, <3>1 DEF SizeInv, BytesOf
    <3>2. CASE lines'[fd] = <<>>
      BY <1>0, <2>2, <3>2, BytesGrow, Halves DEF BytesOf, LogTypes
    <3>3. step \in OpenSteps => lines'[fd] = lines[fd] \/ lines'[fd] = <<>>
      BY <1>0, <2>1 DEF StepInv, LogTypes
    <3> QED BY <3>1, <3>2, <3>3
  <2> QED BY <1>0, <1>1, <2>1, <2>3, <2>5, <2>6, <2>7, <2>8
          DEF LogInv, LogTypes, StepInv, HeldInv, ApartInv, SizeInv
<1> QED BY <1>2, <1>3, <1>4

LEMMA LogInvStep == LogInv /\ [LogNext]_logVars => LogInv'
<1> SUFFICES ASSUME LogInv, [LogNext]_logVars PROVE LogInv'
  OBVIOUS
<1>1. CASE UNCHANGED logVars
  <2>1. /\ UNCHANGED <<lines, path, tmp, fd, stat, size, doing, step, buf, vacuum, vbuf>>
        /\ UNCHANGED <<written, window, exposed, cut, unslid>>
    BY <1>1 DEF logVars, logFile, sliding, logGhost
  <2>2. Visible' = Visible
    BY <2>1 DEF Visible
  <2> QED BY <2>1, <2>2 DEF LogInv, LogTypes, StepInv, HeldInv, VisibleInv, ApartInv, SizeInv,
                            LogBounded, BytesOf
<1> QED BY <1>1, OpensAndLooks, NameStays, SlideEnds, LineWritten, Meddled DEF LogNext

LEMMA LogTyped == LogInv => LogTypeOK
  BY LogAssumption DEF LogInv, LogTypes, StepInv, LogTypeOK, OpenSteps, SlideSteps

\* What the writer and the vacuum hold and know of the file holds in every reachable state
\* (logfile.go:88-222), whoever changes the file in between.
THEOREM LogInvariant == LogSpec => []LogInv
<1> QED BY LogInitInv, LogInvStep, PTL DEF LogSpec

\* Every variable of the log has its type: a writer that goes on has a file open.
THEOREM LogTyping == LogSpec => []LogTypeOK
<1> QED BY LogInvariant, LogTyped, PTL

\* The file under the name is a window of the log, in order, without holes but for the lines
\* that were written while it was changed by another, and not over its limit unless the last
\* slide failed (logfile.go:61, 224), for any limit, line length, failures and meddling.
THEOREM LogKeepsWindow == LogSpec => []LogIsWindow
<1>1. LogInv => LogIsWindow
  <2> SUFFICES ASSUME LogInv PROVE LogIsWindow
    OBVIOUS
  <2>1. InOrder(Visible, written) /\ Covers(Visible, First(Visible, cut), written, exposed)
    BY DEF LogInv, VisibleInv
  <2>2. Len(Visible) \in Nat
    BY <2>1 DEF InOrder
  <2>3. \A i \in 1 .. Len(Visible) - 1 : Visible[i] < Visible[i + 1]
    BY <2>1, <2>2 DEF InOrder
  <2>4. NoSilentGap
    BY <2>1, <2>3 DEF NoSilentGap, Covers, First
  <2>5. LogBounded
    BY DEF LogInv, SizeInv
  <2> QED BY <2>4, <2>5 DEF LogIsWindow
<1> QED BY LogInvariant, <1>1, PTL

-----------------------------------------------------------------------------
(* What is remembered of the output (LogBuffers) *)

-------------------------------------------------------------------------------
(* Induction and recursion over 0, 1, 2, ..., as facts about sets.         *)

LEMMA SetInduction ==
    ASSUME NEW P, 0 \in P, \A n \in Nat : n \in P => n + 1 \in P
    PROVE  Nat \subseteq P
  <1> DEFINE R == {ss \in Nat \X Nat : ss[1] < ss[2]}
             T == Nat \ P
  <1> SUFFICES ASSUME T # {} PROVE FALSE
    OBVIOUS
  <1>1. IsWellFoundedOn(R, Nat)
    BY NatLessThanWellFounded DEF OpToRel
  <1>2. T \subseteq Nat
    OBVIOUS
  <1>3. \E x \in T : \A y \in T : <<y, x>> \notin R
    <2> HIDE DEF R, T
    <2> QED
      BY <1>1, <1>2, WFMin
  <1>4. PICK x \in T : \A y \in T : <<y, x>> \notin R
    BY <1>3
  <1>5. x # 0 /\ x \in Nat
    OBVIOUS
  <1>6. x - 1 \in Nat /\ x - 1 < x /\ (x - 1) + 1 = x
    BY <1>5
  <1>7. x - 1 \in T
    BY <1>6
  <1> QED
    BY <1>4, <1>5, <1>6, <1>7

\* A stepAt function can be repeated any number of times.
LEMMA Repetition ==
    ASSUME NEW S, NEW x \in S, NEW m \in Nat, NEW stepAt \in [1 .. m -> [S -> S]]
    PROVE  \E f \in [0 .. m -> S] :
             f[0] = x /\ \A n \in 1 .. m : f[n] = stepAt[n][f[n - 1]]
  <1> DEFINE Good(n, f) == f[0] = x /\ \A k \in 1 .. n : f[k] = stepAt[k][f[k - 1]]
             P == {n \in Nat : n <= m => \E f \in [0 .. n -> S] : Good(n, f)}
  <1>1. 0 \in P
    <2>1. [i \in 0 .. 0 |-> x] \in [0 .. 0 -> S] /\ Good(0, [i \in 0 .. 0 |-> x])
      OBVIOUS
    <2> QED
      BY <2>1
  <1>2. ASSUME NEW n \in Nat, n \in P PROVE n + 1 \in P
    <2> SUFFICES ASSUME n + 1 <= m PROVE \E f \in [0 .. n + 1 -> S] : Good(n + 1, f)
      OBVIOUS
    <2>1. PICK f \in [0 .. n -> S] : Good(n, f)
      BY <1>2
    <2> DEFINE g == [i \in 0 .. n + 1 |-> IF i <= n THEN f[i] ELSE stepAt[n + 1][f[n]]]
    <2>2. f[n] \in S /\ stepAt[n + 1] \in [S -> S]
      BY <2>1
    <2>3. stepAt[n + 1][f[n]] \in S
      BY <2>2
    <2>4. g \in [0 .. n + 1 -> S]
      BY <2>3
    <2>5. g[0] = x
      BY <2>1
    <2>6. ASSUME NEW k \in 1 .. n + 1 PROVE g[k] = stepAt[k][g[k - 1]]
      <3>1. CASE k <= n
        <4>1. k \in 1 .. n /\ k - 1 \in 0 .. n
          BY <3>1
        <4>2. g[k] = f[k] /\ g[k - 1] = f[k - 1]
          BY <4>1
        <4>3. f[k] = stepAt[k][f[k - 1]]
          BY <2>1, <4>1
        <4> QED
          BY <4>2, <4>3
      <3>2. CASE k = n + 1
        <4>1. k - 1 = n /\ g[k - 1] = f[n]
          BY <3>2
        <4>2. g[k] = stepAt[n + 1][f[n]]
          BY <3>2
        <4> QED
          BY <3>2, <4>1, <4>2
      <3> QED
        BY <3>1, <3>2
    <2> HIDE DEF g
    <2> QED
      BY <2>4, <2>5, <2>6
  <1> HIDE DEF P
  <1>3. m \in P
    BY <1>1, <1>2, SetInduction
  <1> QED
    BY <1>3 DEF P

-------------------------------------------------------------------------------
(* The newest part of a sequence.                                          *)

LEMMA SequenceOf ==
    ASSUME NEW S, NEW n \in Nat, NEW f \in [1 .. n -> S]
    PROVE  f \in Seq(S) /\ Len(f) = n
  OBVIOUS

LEMMA NewestIs ==
    ASSUME NEW S, NEW s \in Seq(S), NEW n \in Nat
    PROVE  /\ NewestOf(s, n) \in Seq(S)
           /\ Len(NewestOf(s, n)) = AtMost(n, Len(s))
           /\ \A i \in 1 .. AtMost(n, Len(s)) :
                 NewestOf(s, n)[i] = s[Len(s) - AtMost(n, Len(s)) + i]
  <1> DEFINE k == AtMost(n, Len(s))
  <1>1. k \in Nat /\ k <= Len(s) /\ Len(s) \in Nat
    BY DEF AtMost
  <1>2. NewestOf(s, n) = SubSeq(s, Len(s) - k + 1, Len(s))
    BY DEF NewestOf
  <1> HIDE DEF k
  <1>3. /\ SubSeq(s, Len(s) - k + 1, Len(s)) \in Seq(S)
        /\ Len(SubSeq(s, Len(s) - k + 1, Len(s))) = k
        /\ \A i \in 1 .. k : SubSeq(s, Len(s) - k + 1, Len(s))[i] = s[Len(s) - k + i]
    <2>1. \A i \in (Len(s) - k + 1) .. Len(s) : s[i] \in S
      BY <1>1
    <2>2. /\ SubSeq(s, Len(s) - k + 1, Len(s)) \in Seq(S)
          /\ Len(SubSeq(s, Len(s) - k + 1, Len(s))) = 
               IF Len(s) - k + 1 <= Len(s) THEN Len(s) - (Len(s) - k + 1) + 1 ELSE 0
          /\ \A i \in 1 .. Len(s) - (Len(s) - k + 1) + 1 : 
                SubSeq(s, Len(s) - k + 1, Len(s))[i] = s[(Len(s) - k + 1) + i - 1]
      BY <1>1, <2>1, SubSeqProperties
    <2>3. Len(s) - (Len(s) - k + 1) + 1 = k /\ (Len(s) - k + 1 <= Len(s) <=> k >= 1)
      BY <1>1
    <2>4. \A i \in 1 .. k : (Len(s) - k + 1) + i - 1 = Len(s) - k + i
      BY <1>1
    <2> QED
      BY <1>1, <2>2, <2>3, <2>4
  <1> QED
    BY <1>2, <1>3 DEF k

LEMMA Wrapped ==
    ASSUME NEW N \in Nat \ {0}, NEW a \in 0 .. 2 * N - 1
    PROVE  a % N = IF a < N THEN a ELSE a - N
  OBVIOUS

-------------------------------------------------------------------------------
(* The lines that are kept.                                                *)

Byte == Nat \cup {NL}
Line == Seq(Nat)
KeptLine == Seq(Nat \cup {Mark})
TailState == [shown : Seq(KeptLine), partial : Line]
TextState == [lines : Seq(Line), rest : Line]

LEMMA BuffersConstants ==
    /\ RingBytes \in Nat \ {0} /\ MemTailLines \in Nat \ {0}
    /\ MemTailBytes \in Nat \ {0} /\ MemTailLine \in Nat \ {0}
    /\ NL \notin Nat /\ Mark \notin Nat
  BY BuffersAssumption

LEMMA Shortened ==
    ASSUME NEW line \in Line
    PROVE  /\ Shorten(line) \in KeptLine
           /\ Unmarked(Shorten(line)) = NewestOf(line, MemTailLine)
  <1> DEFINE ending == NewestOf(line, MemTailLine)
  <1>1. /\ ending \in Seq(Nat) /\ Len(ending) = AtMost(MemTailLine, Len(line))
        /\ \A i \in 1 .. Len(ending) : ending[i] = line[Len(line) - Len(ending) + i]
    <2>1. MemTailLine \in Nat /\ line \in Seq(Nat)
      BY BuffersConstants DEF Line
    <2>2. /\ ending \in Seq(Nat) /\ Len(ending) = AtMost(MemTailLine, Len(line))
          /\ \A i \in 1 .. AtMost(MemTailLine, Len(line)) :
                ending[i] = line[Len(line) - AtMost(MemTailLine, Len(line)) + i]
      BY <2>1, NewestIs
    <2> HIDE DEF ending
    <2> QED
      BY <2>2
  <1> HIDE DEF ending
  <1>2. CASE Len(line) > MemTailLine
    <2> DEFINE x == <<Mark>> \o ending
    <2>1. Shorten(line) = x
      BY <1>2 DEF Shorten, ending
    <2>2. ending \in KeptLine /\ <<Mark>> \in KeptLine
      BY <1>1 DEF KeptLine
    <2>3. x \in KeptLine /\ Len(x) = 1 + Len(ending) /\ x[1] = Mark
          /\ \A i \in 1 .. Len(ending) : x[i + 1] = ending[i]
      BY <2>2 DEF KeptLine
    <2>4. x # <<>>
      BY <1>1, <2>3
    <2> HIDE DEF x
    <2>5. /\ Tail(x) \in KeptLine /\ Len(Tail(x)) = Len(x) - 1
          /\ \A i \in 1 .. Len(Tail(x)) : Tail(x)[i] = x[i + 1]
      BY <2>3, <2>4, HeadTailProperties DEF KeptLine
    <2>6. Tail(x) = ending
      <3>1. Len(Tail(x)) = Len(ending)
        BY <1>1, <2>3, <2>5
      <3>2. \A i \in 1 .. Len(ending) : Tail(x)[i] = ending[i]
        BY <2>3, <2>5, <3>1
      <3> QED
        BY <2>2, <2>5, <3>1, <3>2, SeqEqual DEF KeptLine
    <2> QED
      BY <2>1, <2>3, <2>4, <2>6 DEF Unmarked, ending
  <1>3. CASE ~(Len(line) > MemTailLine)
    <2>1. Shorten(line) = line /\ line \in KeptLine
      BY <1>3 DEF Shorten, Line, KeptLine
    <2>2. ending = line
      <3>1. Len(ending) = Len(line) /\ Len(line) \in Nat
        BY <1>1, <1>3, BuffersConstants DEF AtMost, Line
      <3>2. \A i \in 1 .. Len(ending) : ending[i] = line[i]
        BY <1>1, <3>1
      <3> QED
        BY <1>1, <3>1, <3>2, SeqEqual DEF Line
    <2>3. line # <<>> => line[1] # Mark
      <3> SUFFICES ASSUME line # <<>> PROVE line[1] # Mark
        OBVIOUS
      <3>1. Len(line) \in Nat /\ Len(line) # 0
        BY DEF Line
      <3>2. line[1] \in Nat
        BY <3>1 DEF Line
      <3> QED
        BY <3>2, BuffersConstants
    <2> QED
      BY <2>1, <2>2, <2>3 DEF Unmarked, ending
  <1> QED
    BY <1>2, <1>3

LEMMA DropFirstIs ==
    ASSUME NEW S, NEW all \in Seq(S), NEW n \in 0 .. Len(all)
    PROVE  /\ DropFirst(all, n) \in Seq(S) /\ Len(DropFirst(all, n)) = Len(all) - n
           /\ \A i \in 1 .. Len(all) - n : DropFirst(all, n)[i] = all[n + i]
  <1>1. Len(all) \in Nat
    OBVIOUS
  <1>2. \A i \in n + 1 .. Len(all) : all[i] \in S
    BY <1>1
  <1>3. /\ SubSeq(all, n + 1, Len(all)) \in Seq(S)
        /\ Len(SubSeq(all, n + 1, Len(all))) =
              IF n + 1 <= Len(all) THEN Len(all) - (n + 1) + 1 ELSE 0
        /\ \A i \in 1 .. Len(all) - (n + 1) + 1 :
              SubSeq(all, n + 1, Len(all))[i] = all[(n + 1) + i - 1]
    BY <1>1, <1>2, SubSeqProperties
  <1>4. /\ (IF n + 1 <= Len(all) THEN Len(all) - (n + 1) + 1 ELSE 0) = Len(all) - n
        /\ Len(all) - (n + 1) + 1 = Len(all) - n
    BY <1>1
  <1>5. \A i \in 1 .. Len(all) - n : (n + 1) + i - 1 = n + i
    BY <1>1
  <1> QED
    BY <1>3, <1>4, <1>5 DEF DropFirst

\* pushLocked drops some of the oldest lines, and never the new one.
LEMMA Pushed ==
    ASSUME NEW ls \in Seq(KeptLine), NEW line \in Line
    PROVE  \E n \in 0 .. Len(ls) :
             /\ PushLocked(ls, line) = DropFirst(Append(ls, Shorten(line)), n)
             /\ Fits(PushLocked(ls, line))
  <1> DEFINE all == Append(ls, Shorten(line))
             P(n) == Fits(DropFirst(all, n)) /\ \A m \in 0 .. n - 1 : ~Fits(DropFirst(all, m))
             T == {n \in Nat : n \in 0 .. Len(all) - 1 => ~Fits(DropFirst(all, n))}
  <1>1. all \in Seq(KeptLine) /\ Len(all) = Len(ls) + 1 /\ Len(ls) \in Nat
    BY Shortened
  <1> HIDE DEF all
  <1>2. Fits(DropFirst(all, Len(ls)))
    <2>1. Len(DropFirst(all, Len(ls))) = 1
      <3>1. Len(ls) \in 0 .. Len(all) /\ Len(all) - Len(ls) = 1
        BY <1>1
      <3> QED
        BY <1>1, <3>1, DropFirstIs
    <2> QED
      BY <2>1, BuffersConstants DEF Fits
  <1>3. \E n \in 0 .. Len(all) - 1 : P(n)
    <2> SUFFICES ASSUME \A n \in 0 .. Len(all) - 1 : ~P(n) PROVE FALSE
      OBVIOUS
    <2> DEFINE U == {n \in Nat : \A m \in 0 .. n : m <= Len(ls) => ~Fits(DropFirst(all, m))}
    <2>1. 0 \in U
      <3>1. \A m \in 0 .. 0 - 1 : ~Fits(DropFirst(all, m))
        OBVIOUS
      <3>2. 0 \in 0 .. Len(all) - 1
        BY <1>1
      <3>3. ~Fits(DropFirst(all, 0))
        BY <3>1, <3>2
      <3> QED
        BY <3>3
    <2>2. ASSUME NEW n \in Nat, n \in U PROVE n + 1 \in U
      <3>1. CASE n + 1 <= Len(ls)
        <4>1. n + 1 \in 0 .. Len(all) - 1 /\ (n + 1) - 1 = n
          BY <1>1, <3>1
        <4>2. \A m \in 0 .. n : ~Fits(DropFirst(all, m))
          BY <1>1, <2>2, <3>1
        <4>3. ~Fits(DropFirst(all, n + 1))
          BY <4>1, <4>2
        <4> QED
          BY <1>1, <4>2, <4>3
      <3>2. CASE ~(n + 1 <= Len(ls))
        BY <1>1, <2>2, <3>2
      <3> QED
        BY <3>1, <3>2
    <2> HIDE DEF U
    <2>3. Len(ls) \in U
      BY <1>1, <2>1, <2>2, SetInduction
    <2> QED
      BY <1>1, <1>2, <2>3 DEF U
  <1> DEFINE drop == CHOOSE n \in 0 .. Len(all) - 1 : P(n)
  <1>4. drop \in 0 .. Len(all) - 1 /\ P(drop)
    BY <1>3
  <1>5. PushLocked(ls, line) = DropFirst(all, drop)
    BY DEF PushLocked, all
  <1>6. drop \in 0 .. Len(ls)
    BY <1>1, <1>4
  <1> HIDE DEF drop
  <1> QED
    BY <1>4, <1>5, <1>6 DEF all

LEMMA AddByteType ==
    ASSUME NEW t \in TailState, NEW c \in Byte
    PROVE  AddByte(t, c) \in TailState
  <1>0. t.shown \in Seq(KeptLine) /\ t.partial \in Line
    BY DEF TailState
  <1>1. CASE c = NL
    <2>1. PICK n \in 0 .. Len(t.shown) :
            PushLocked(t.shown, t.partial) = DropFirst(Append(t.shown, Shorten(t.partial)), n)
      BY <1>0, Pushed
    <2>2. Append(t.shown, Shorten(t.partial)) \in Seq(KeptLine)
          /\ n \in 0 .. Len(Append(t.shown, Shorten(t.partial)))
      BY <1>0, Shortened
    <2>3. PushLocked(t.shown, t.partial) \in Seq(KeptLine)
      BY <2>1, <2>2, DropFirstIs
    <2>4. <<>> \in Line
      BY DEF Line
    <2> QED
      BY <1>1, <2>3, <2>4 DEF AddByte, TailState
  <1>2. CASE c # NL
    <2>1. Append(t.partial, c) \in Line
      BY <1>0, <1>2 DEF Line, Byte
    <2>2. AddByte(t, c) = [t EXCEPT !.partial = Append(@, c)]
      BY <1>2 DEF AddByte
    <2> QED
      BY <1>0, <2>1, <2>2 DEF TailState
  <1> QED
    BY <1>1, <1>2

LEMMA EndLineType ==
    ASSUME NEW t \in TextState, NEW c \in Byte
    PROVE  EndLine(t, c) \in TextState
  <1>0. t.lines \in Seq(Line) /\ t.rest \in Line
    BY DEF TextState
  <1>1. CASE c = NL
    <2>1. Append(t.lines, t.rest) \in Seq(Line) /\ <<>> \in Line
      BY <1>0 DEF Line
    <2> QED
      BY <1>1, <2>1 DEF EndLine, TextState
  <1>2. CASE c # NL
    <2>1. Append(t.rest, c) \in Line
      BY <1>0, <1>2 DEF Line, Byte
    <2>2. EndLine(t, c) = [t EXCEPT !.rest = Append(@, c)]
      BY <1>2 DEF EndLine
    <2> QED
      BY <1>0, <2>1, <2>2 DEF TextState
  <1> QED
    BY <1>1, <1>2

\* A piece is taken in byte by byte.
LEMMA FedStepwise ==
    ASSUME NEW t \in TailState, NEW p \in Seq(Byte)
    PROVE  \E f \in [0 .. Len(p) -> TailState] :
             /\ f[0] = t /\ f[Len(p)] = Fed(t, p)
             /\ \A n \in 1 .. Len(p) : f[n] = AddByte(f[n - 1], p[n])
  <1> DEFINE m == Len(p)
             stepAt == [n \in 1 .. m |-> [a \in TailState |-> AddByte(a, p[n])]]
             Is(f) == f = [n \in 0 .. m |-> IF n = 0 THEN t ELSE AddByte(f[n - 1], p[n])]
  <1>1. m \in Nat /\ \A n \in 1 .. m : p[n] \in Byte
    OBVIOUS
  <1>2. stepAt \in [1 .. m -> [TailState -> TailState]]
    <2>1. \A n \in 1 .. m : \A a \in TailState : AddByte(a, p[n]) \in TailState
      BY <1>1, AddByteType
    <2> HIDE DEF m
    <2> QED
      BY <2>1
  <1>3. PICK g \in [0 .. m -> TailState] :
          g[0] = t /\ \A n \in 1 .. m : g[n] = stepAt[n][g[n - 1]]
    <2> DEFINE Repeats(S, x, k, st) ==
                 \E g \in [0 .. k -> S] : g[0] = x /\ \A n \in 1 .. k : g[n] = st[n][g[n - 1]]
    <2>1. \A S : \A x \in S : \A k \in Nat : \A st \in [1 .. k -> [S -> S]] : Repeats(S, x, k, st)
      BY Repetition
    <2> HIDE DEF Repeats, stepAt, m
    <2>2. Repeats(TailState, t, m, stepAt)
      BY <1>1, <1>2, <2>1
    <2> QED
      BY <2>2 DEF Repeats
  <1>4. \A n \in 1 .. m : g[n] = AddByte(g[n - 1], p[n])
    <2> SUFFICES ASSUME NEW n \in 1 .. m PROVE g[n] = AddByte(g[n - 1], p[n])
      OBVIOUS
    <2>1. n - 1 \in 0 .. m
      BY <1>1
    <2>2. g[n - 1] \in TailState
      BY <2>1
    <2> QED
      BY <1>3, <2>2
  <1>5. Is(g)
    <2>1. \A n \in 0 .. m : n = 0 \/ n \in 1 .. m
      BY <1>1
    <2>2. \A n \in 0 .. m : g[n] = IF n = 0 THEN t ELSE AddByte(g[n - 1], p[n])
      BY <1>3, <1>4, <2>1
    <2> HIDE DEF m, stepAt
    <2> QED
      BY <2>2
  <1> DEFINE f == CHOOSE x : Is(x)
  <1>6. Is(f)
    <2> HIDE DEF Is
    <2> QED
      BY <1>5
  <1>7. Fed(t, p) = f[m]
    BY DEF Fed
  <1>8. f[0] = t /\ \A n \in 1 .. m : f[n] = AddByte(f[n - 1], p[n])
    <2> HIDE DEF f, m
    <2>1. \A n \in 0 .. m : f[n] = IF n = 0 THEN t ELSE AddByte(f[n - 1], p[n])
      BY <1>6
    <2>2. 0 \in 0 .. m /\ \A n \in 1 .. m : n \in 0 .. m /\ n # 0
      BY <1>1
    <2> QED
      BY <2>1, <2>2
  <1>9. f \in [0 .. m -> TailState]
    <2> HIDE DEF f, m
    <2> DEFINE P == {n \in Nat : n \in 0 .. m => f[n] \in TailState}
    <2>1. 0 \in P
      BY <1>8
    <2>2. ASSUME NEW n \in Nat, n \in P PROVE n + 1 \in P
      <3> SUFFICES ASSUME n + 1 \in 0 .. m PROVE f[n + 1] \in TailState
        OBVIOUS
      <3>1. f[n] \in TailState /\ n + 1 \in 1 .. m /\ (n + 1) - 1 = n
        BY <1>1, <2>2
      <3>2. f[n + 1] = AddByte(f[n], p[n + 1])
        BY <1>8, <3>1
      <3> QED
        BY <1>1, <3>1, <3>2, AddByteType
    <2> HIDE DEF P
    <2>3. Nat \subseteq P
      BY <2>1, <2>2, SetInduction
    <2>4. \A n \in 0 .. m : f[n] \in TailState
      BY <2>3 DEF P
    <2>5. f = [n \in 0 .. m |-> f[n]]
      BY <1>6
    <2> QED
      BY <2>4, <2>5
  <1> HIDE DEF f
  <1> QED
    BY <1>7, <1>8, <1>9
NoText == [lines |-> <<>>, rest |-> <<>>]

\* The lines of a text come about byte by byte.
LEMMA LinesStepwise ==
    ASSUME NEW p \in Seq(Byte)
    PROVE  \E f \in [0 .. Len(p) -> TextState] :
             /\ f[0] = NoText /\ f[Len(p)] = Lines(p)
             /\ \A n \in 1 .. Len(p) : f[n] = EndLine(f[n - 1], p[n])
  <1> DEFINE m == Len(p)
             stepAt == [n \in 1 .. m |-> [a \in TextState |-> EndLine(a, p[n])]]
             Is(f) == f = [n \in 0 .. m |-> IF n = 0 THEN NoText ELSE EndLine(f[n - 1], p[n])]
  <1>0. NoText \in TextState
    BY DEF NoText, TextState, Line
  <1>1. m \in Nat /\ \A n \in 1 .. m : p[n] \in Byte
    OBVIOUS
  <1>2. stepAt \in [1 .. m -> [TextState -> TextState]]
    <2>1. \A n \in 1 .. m : \A a \in TextState : EndLine(a, p[n]) \in TextState
      BY <1>1, EndLineType
    <2> HIDE DEF m
    <2> QED
      BY <2>1
  <1>3. PICK g \in [0 .. m -> TextState] :
          g[0] = NoText /\ \A n \in 1 .. m : g[n] = stepAt[n][g[n - 1]]
    <2> DEFINE Repeats(S, x, k, st) ==
                 \E g \in [0 .. k -> S] : g[0] = x /\ \A n \in 1 .. k : g[n] = st[n][g[n - 1]]
    <2>1. \A S : \A x \in S : \A k \in Nat : \A st \in [1 .. k -> [S -> S]] : Repeats(S, x, k, st)
      BY Repetition
    <2> HIDE DEF Repeats, stepAt, m
    <2>2. Repeats(TextState, NoText, m, stepAt)
      BY <1>0, <1>1, <1>2, <2>1
    <2> QED
      BY <2>2 DEF Repeats
  <1>4. \A n \in 1 .. m : g[n] = EndLine(g[n - 1], p[n])
    <2> SUFFICES ASSUME NEW n \in 1 .. m PROVE g[n] = EndLine(g[n - 1], p[n])
      OBVIOUS
    <2>1. n - 1 \in 0 .. m
      BY <1>1
    <2>2. g[n - 1] \in TextState
      BY <2>1
    <2> QED
      BY <1>3, <2>2
  <1>5. Is(g)
    <2>1. \A n \in 0 .. m : n = 0 \/ n \in 1 .. m
      BY <1>1
    <2>2. \A n \in 0 .. m : g[n] = IF n = 0 THEN NoText ELSE EndLine(g[n - 1], p[n])
      BY <1>3, <1>4, <2>1
    <2> HIDE DEF m, stepAt
    <2> QED
      BY <2>2
  <1> DEFINE f == CHOOSE x : Is(x)
  <1>6. Is(f)
    <2> HIDE DEF Is
    <2> QED
      BY <1>5
  <1>7. Lines(p) = f[m]
    BY DEF Lines, NoText
  <1>8. f[0] = NoText /\ \A n \in 1 .. m : f[n] = EndLine(f[n - 1], p[n])
    <2> HIDE DEF f, m
    <2>1. \A n \in 0 .. m : f[n] = IF n = 0 THEN NoText ELSE EndLine(f[n - 1], p[n])
      BY <1>6
    <2>2. 0 \in 0 .. m /\ \A n \in 1 .. m : n \in 0 .. m /\ n # 0
      BY <1>1
    <2> QED
      BY <2>1, <2>2
  <1>9. f \in [0 .. m -> TextState]
    <2> HIDE DEF f, m
    <2> DEFINE P == {n \in Nat : n \in 0 .. m => f[n] \in TextState}
    <2>1. 0 \in P
      BY <1>0, <1>8
    <2>2. ASSUME NEW n \in Nat, n \in P PROVE n + 1 \in P
      <3> SUFFICES ASSUME n + 1 \in 0 .. m PROVE f[n + 1] \in TextState
        OBVIOUS
      <3>1. f[n] \in TextState /\ n + 1 \in 1 .. m /\ (n + 1) - 1 = n
        BY <1>1, <2>2
      <3>2. f[n + 1] = EndLine(f[n], p[n + 1])
        BY <1>8, <3>1
      <3> QED
        BY <1>1, <3>1, <3>2, EndLineType
    <2> HIDE DEF P
    <2>3. Nat \subseteq P
      BY <2>1, <2>2, SetInduction
    <2>4. \A n \in 0 .. m : f[n] \in TextState
      BY <2>3 DEF P
    <2>5. f = [n \in 0 .. m |-> f[n]]
      BY <1>6
    <2> QED
      BY <2>4, <2>5
  <1> HIDE DEF f
  <1> QED
    BY <1>7, <1>8, <1>9

\* The lines of a text that grows.
LEMMA LinesGrow ==
    ASSUME NEW s \in Seq(Byte), NEW p \in Seq(Byte)
    PROVE  \E g \in [0 .. Len(p) -> TextState] :
             /\ g[0] = Lines(s) /\ g[Len(p)] = Lines(s \o p)
             /\ \A n \in 1 .. Len(p) : g[n] = EndLine(g[n - 1], p[n])
  <1> DEFINE a == Len(s)
             b == Len(p)
             q == s \o p
  <1>1. /\ a \in Nat /\ b \in Nat /\ q \in Seq(Byte) /\ Len(q) = a + b
        /\ \A n \in 1 .. a : q[n] = s[n]
        /\ \A n \in 1 .. b : q[a + n] = p[n]
    OBVIOUS
  <1>2. PICK f \in [0 .. a -> TextState] :
          /\ f[0] = NoText /\ f[a] = Lines(s)
          /\ \A n \in 1 .. a : f[n] = EndLine(f[n - 1], s[n])
    BY LinesStepwise
  <1> HIDE DEF q
  <1>3. PICK h \in [0 .. Len(q) -> TextState] :
          /\ h[0] = NoText /\ h[Len(q)] = Lines(q)
          /\ \A n \in 1 .. Len(q) : h[n] = EndLine(h[n - 1], q[n])
    BY <1>1, LinesStepwise
  <1> HIDE DEF a, b
  <1> DEFINE P == {n \in Nat : n \in 0 .. a => h[n] = f[n]}
  <1>4. 0 \in P
    BY <1>2, <1>3
  <1>5. ASSUME NEW n \in Nat, n \in P PROVE n + 1 \in P
    <2> SUFFICES ASSUME n + 1 \in 0 .. a PROVE h[n + 1] = f[n + 1]
      OBVIOUS
    <2>1. n + 1 \in 1 .. a /\ n + 1 \in 1 .. Len(q) /\ (n + 1) - 1 = n /\ n \in 0 .. a
      BY <1>1
    <2>2. h[n] = f[n] /\ q[n + 1] = s[n + 1]
      BY <1>1, <1>5, <2>1
    <2>3. h[n + 1] = EndLine(h[n], q[n + 1])
      BY <1>3, <2>1
    <2>4. f[n + 1] = EndLine(f[n], s[n + 1])
      BY <1>2, <2>1
    <2> QED
      BY <2>2, <2>3, <2>4
  <1> HIDE DEF P
  <1>6. h[a] = f[a]
    <2>1. Nat \subseteq P
      BY <1>4, <1>5, SetInduction
    <2> QED
      BY <1>1, <2>1 DEF P
  <1> DEFINE g == [n \in 0 .. b |-> h[a + n]]
  <1>7. g \in [0 .. b -> TextState] /\ g[0] = Lines(s) /\ g[b] = Lines(q)
    <2>1. \A n \in 0 .. b : a + n \in 0 .. Len(q)
      BY <1>1
    <2>2. a + 0 = a /\ 0 \in 0 .. b /\ b \in 0 .. b
      BY <1>1
    <2> QED
      BY <1>1, <1>2, <1>3, <1>6, <2>1, <2>2
  <1>8. \A n \in 1 .. b : g[n] = EndLine(g[n - 1], p[n])
    <2> SUFFICES ASSUME NEW n \in 1 .. b PROVE g[n] = EndLine(g[n - 1], p[n])
      OBVIOUS
    <2>1. a + n \in 1 .. Len(q) /\ (a + n) - 1 = a + (n - 1) /\ n - 1 \in 0 .. b /\ n \in 0 .. b
      BY <1>1
    <2>2. h[a + n] = EndLine(h[a + (n - 1)], p[n])
      BY <1>1, <1>3, <2>1
    <2> QED
      BY <2>1, <2>2
  <1> HIDE DEF g
  <1> QED
    BY <1>7, <1>8 DEF b, q
-------------------------------------------------------------------------------
(* The end of a line, and the last of the lines.                           *)

LEMMA EndIs ==
    ASSUME NEW text \in Line, NEW line \in Line
    PROVE  IsEndOf(text, line) <=>
             /\ AtMost(Len(line), MemTailLine) <= Len(text) /\ Len(text) <= Len(line)
             /\ \A i \in 1 .. Len(text) : text[i] = line[Len(line) - Len(text) + i]
  <1> DEFINE n == Len(text)
             ending == NewestOf(line, n)
  <1>1. n \in Nat /\ Len(line) \in Nat /\ MemTailLine \in Nat
    BY BuffersConstants DEF Line
  <1>2. /\ ending \in Seq(Nat) /\ Len(ending) = AtMost(n, Len(line))
        /\ \A i \in 1 .. AtMost(n, Len(line)) :
              ending[i] = line[Len(line) - AtMost(n, Len(line)) + i]
    <2>1. line \in Seq(Nat)
      BY DEF Line
    <2> HIDE DEF n
    <2> QED
      BY <1>1, <2>1, NewestIs
  <1> HIDE DEF ending
  <1>3. ASSUME IsEndOf(text, line)
        PROVE  /\ AtMost(Len(line), MemTailLine) <= n /\ n <= Len(line)
               /\ \A i \in 1 .. n : text[i] = line[Len(line) - n + i]
    <2>1. text = ending /\ n >= AtMost(Len(line), MemTailLine)
      BY <1>3 DEF IsEndOf, ending
    <2>2. n = AtMost(n, Len(line))
      BY <1>2, <2>1
    <2>3. n <= Len(line)
      BY <1>1, <2>2 DEF AtMost
    <2>4. \A i \in 1 .. n : text[i] = line[Len(line) - n + i]
      <3> HIDE DEF n
      <3> QED
        BY <1>2, <2>1, <2>2
    <2>5. AtMost(Len(line), MemTailLine) \in Nat
      BY <1>1 DEF AtMost
    <2> QED
      BY <1>1, <2>1, <2>3, <2>4, <2>5
  <1>4. ASSUME AtMost(Len(line), MemTailLine) <= n, n <= Len(line),
               \A i \in 1 .. n : text[i] = line[Len(line) - n + i]
        PROVE  IsEndOf(text, line)
    <2>1. AtMost(n, Len(line)) = n /\ AtMost(Len(line), MemTailLine) \in Nat
      BY <1>1, <1>4 DEF AtMost
    <2>2. Len(ending) = Len(text)
      BY <1>2, <2>1
    <2>3. \A i \in 1 .. Len(text) : ending[i] = text[i]
      BY <1>2, <1>4, <2>1
    <2>4. text \in Seq(Nat)
      BY DEF Line
    <2>5. text = ending
      BY <1>2, <2>2, <2>3, <2>4, SeqEqual
    <2>6. n >= AtMost(Len(line), MemTailLine)
      BY <1>1, <1>4, <2>1
    <2> QED
      BY <2>5, <2>6 DEF IsEndOf, ending
  <1> QED
    BY <1>3, <1>4

LEMMA EndGrows ==
    ASSUME NEW text \in Line, NEW line \in Line, NEW c \in Nat, IsEndOf(text, line)
    PROVE  IsEndOf(Append(text, c), Append(line, c))
  <1> DEFINE x == Append(text, c)
             y == Append(line, c)
  <1>1. /\ Len(text) \in Nat /\ Len(line) \in Nat /\ MemTailLine \in Nat
        /\ AtMost(Len(line), MemTailLine) <= Len(text) /\ Len(text) <= Len(line)
        /\ \A i \in 1 .. Len(text) : text[i] = line[Len(line) - Len(text) + i]
    BY EndIs, BuffersConstants DEF Line
  <1>2. /\ x \in Line /\ Len(x) = Len(text) + 1 /\ x[Len(text) + 1] = c
        /\ \A i \in 1 .. Len(text) : x[i] = text[i]
    BY DEF Line
  <1>3. /\ y \in Line /\ Len(y) = Len(line) + 1 /\ y[Len(line) + 1] = c
        /\ \A i \in 1 .. Len(line) : y[i] = line[i]
    BY DEF Line
  <1> HIDE DEF x, y
  <1>4. AtMost(Len(y), MemTailLine) <= Len(x) /\ Len(x) <= Len(y)
    BY <1>1, <1>2, <1>3 DEF AtMost
  <1>5. ASSUME NEW i \in 1 .. Len(x) PROVE x[i] = y[Len(y) - Len(x) + i]
    <2>1. Len(y) - Len(x) + i = Len(line) - Len(text) + i
      BY <1>1, <1>2, <1>3
    <2>2. CASE i = Len(text) + 1
      <3>1. Len(line) - Len(text) + i = Len(line) + 1
        BY <1>1, <2>2
      <3> QED
        BY <1>2, <1>3, <2>1, <2>2, <3>1
    <2>3. CASE i # Len(text) + 1
      <3>1. i \in 1 .. Len(text) /\ Len(line) - Len(text) + i \in 1 .. Len(line)
        BY <1>1, <1>2, <2>3
      <3> QED
        BY <1>1, <1>2, <1>3, <2>1, <3>1
    <2> QED
      BY <2>2, <2>3
  <1>6. IsEndOf(x, y)
    BY <1>2, <1>3, <1>4, <1>5, EndIs
  <1> QED
    BY <1>6 DEF x, y

LEMMA EndCut ==
    ASSUME NEW text \in Line, NEW line \in Line, IsEndOf(text, line)
    PROVE  /\ NewestOf(text, MemTailLine) \in Line
           /\ IsEndOf(NewestOf(text, MemTailLine), line)
  <1> DEFINE ending == NewestOf(text, MemTailLine)
             k == AtMost(MemTailLine, Len(text))
  <1>1. /\ Len(text) \in Nat /\ Len(line) \in Nat /\ MemTailLine \in Nat
        /\ AtMost(Len(line), MemTailLine) <= Len(text) /\ Len(text) <= Len(line)
        /\ \A i \in 1 .. Len(text) : text[i] = line[Len(line) - Len(text) + i]
    BY EndIs, BuffersConstants DEF Line
  <1>2. /\ ending \in Line /\ Len(ending) = k
        /\ \A i \in 1 .. k : ending[i] = text[Len(text) - k + i]
    BY <1>1, NewestIs DEF Line
  <1> HIDE DEF ending
  <1>3. k \in Nat /\ k <= Len(text) /\ AtMost(Len(line), MemTailLine) <= k
    BY <1>1 DEF AtMost
  <1> HIDE DEF k
  <1>4. ASSUME NEW i \in 1 .. k PROVE ending[i] = line[Len(line) - k + i]
    <2>1. /\ Len(text) - k + i \in 1 .. Len(text)
          /\ Len(line) - Len(text) + (Len(text) - k + i) = Len(line) - k + i
      BY <1>1, <1>3
    <2> QED
      BY <1>1, <1>2, <2>1
  <1>5. k <= Len(line)
    BY <1>1, <1>3
  <1>6. IsEndOf(ending, line)
    BY <1>2, <1>3, <1>4, <1>5, EndIs
  <1> QED
    BY <1>2, <1>6 DEF ending

LEMMA LastGrows ==
    ASSUME NEW kept \in Seq(KeptLine), NEW ls \in Seq(Line), NEW k \in KeptLine, NEW line \in Line,
           AreLastOf(kept, ls), IsEndOf(Unmarked(k), line)
    PROVE  AreLastOf(Append(kept, k), Append(ls, line))
  <1> DEFINE x == Append(kept, k)
             y == Append(ls, line)
  <1>1. /\ Len(kept) \in Nat /\ Len(ls) \in Nat /\ Len(kept) <= Len(ls)
        /\ \A i \in 1 .. Len(kept) : IsEndOf(Unmarked(kept[i]), ls[Len(ls) - Len(kept) + i])
    BY DEF AreLastOf
  <1>2. /\ Len(x) = Len(kept) + 1 /\ x[Len(kept) + 1] = k /\ x # <<>>
        /\ \A i \in 1 .. Len(kept) : x[i] = kept[i]
    BY AppendProperties
  <1>3. /\ Len(y) = Len(ls) + 1 /\ y[Len(ls) + 1] = line
        /\ \A i \in 1 .. Len(ls) : y[i] = ls[i]
    BY AppendProperties
  <1> HIDE DEF x, y
  <1>4. ASSUME NEW i \in 1 .. Len(x)
        PROVE  IsEndOf(Unmarked(x[i]), y[Len(y) - Len(x) + i])
    <2>1. Len(y) - Len(x) + i = Len(ls) - Len(kept) + i
      BY <1>1, <1>2, <1>3
    <2>2. CASE i = Len(kept) + 1
      <3>1. Len(ls) - Len(kept) + i = Len(ls) + 1
        BY <1>1, <2>2
      <3> QED
        BY <1>2, <1>3, <2>1, <2>2, <3>1
    <2>3. CASE i # Len(kept) + 1
      <3>1. i \in 1 .. Len(kept) /\ Len(ls) - Len(kept) + i \in 1 .. Len(ls)
        BY <1>1, <1>2, <2>3
      <3>2. x[i] = kept[i] /\ y[Len(y) - Len(x) + i] = ls[Len(ls) - Len(kept) + i]
        BY <1>2, <1>3, <2>1, <3>1
      <3> QED
        BY <1>1, <3>1, <3>2
    <2> QED
      BY <2>2, <2>3
  <1>5. Len(x) <= Len(y)
    BY <1>1, <1>2, <1>3
  <1> QED
    BY <1>2, <1>4, <1>5 DEF AreLastOf, x, y

LEMMA LastDropped ==
    ASSUME NEW kept \in Seq(KeptLine), NEW ls \in Seq(Line), AreLastOf(kept, ls),
           NEW n \in 0 .. Len(kept), n < Len(kept) \/ ls = <<>>
    PROVE  AreLastOf(DropFirst(kept, n), ls)
  <1> DEFINE d == DropFirst(kept, n)
  <1>1. /\ Len(kept) \in Nat /\ Len(ls) \in Nat /\ Len(kept) <= Len(ls)
        /\ \A i \in 1 .. Len(kept) : IsEndOf(Unmarked(kept[i]), ls[Len(ls) - Len(kept) + i])
    BY DEF AreLastOf
  <1>2. /\ d \in Seq(KeptLine) /\ Len(d) = Len(kept) - n
        /\ \A i \in 1 .. Len(kept) - n : d[i] = kept[n + i]
    BY DropFirstIs
  <1> HIDE DEF d
  <1>3. ASSUME NEW i \in 1 .. Len(d)
        PROVE  IsEndOf(Unmarked(d[i]), ls[Len(ls) - Len(d) + i])
    <2>1. n + i \in 1 .. Len(kept) /\ Len(ls) - Len(kept) + (n + i) = Len(ls) - Len(d) + i
      BY <1>1, <1>2
    <2>2. d[i] = kept[n + i]
      BY <1>2
    <2>3. IsEndOf(Unmarked(kept[n + i]), ls[Len(ls) - Len(kept) + (n + i)])
      BY <1>1, <2>1
    <2> QED
      BY <2>1, <2>2, <2>3
  <1>4. Len(d) <= Len(ls)
    BY <1>1, <1>2
  <1>5. ls # <<>> => d # <<>>
    <2> SUFFICES ASSUME ls # <<>> PROVE d # <<>>
      OBVIOUS
    <2>1. Len(d) # 0
      BY <1>1, <1>2
    <2> QED
      BY <2>1
  <1> QED
    BY <1>3, <1>4, <1>5 DEF AreLastOf, d

-------------------------------------------------------------------------------
(* The tail follows the text.                                              *)

Follows(t, text) ==
    AreLastOf(t.shown, text.lines) /\ IsEndOf(t.partial, text.rest) /\ Fits(t.shown)

LEMMA NoSize == SizeOf(<<>>) = 0
  <1> DEFINE Is(h) == h = [s \in SUBSET {} |-> IF s = {} THEN 0
                           ELSE h[s \ {Max(s)}] + Len(<<>>[Max(s)])]
  <1>1. SizeOf(<<>>) = (CHOOSE h : Is(h))[{}]
    BY DEF SizeOf, FoldLeft, MapThenFoldSet
  <1>2. \E h : Is(h)
    <2> DEFINE h == [s \in SUBSET {} |-> 0]
    <2>1. Is(h)
      OBVIOUS
    <2> QED
      BY <2>1
  <1>3. Is(CHOOSE h : Is(h))
    <2> HIDE DEF Is
    <2> QED
      BY <1>2
  <1> QED
    BY <1>1, <1>3

LEMMA EmptyFits == Fits(<<>>)
  BY NoSize, BuffersConstants DEF Fits

LEMMA ByteFollowed ==
    ASSUME NEW t \in TailState, NEW text \in TextState, NEW c \in Byte, Follows(t, text)
    PROVE  Follows(AddByte(t, c), EndLine(text, c))
  <1>1. /\ t.shown \in Seq(KeptLine) /\ t.partial \in Line /\ text.lines \in Seq(Line)
        /\ text.rest \in Line
    BY DEF TailState, TextState
  <1>2. AreLastOf(t.shown, text.lines) /\ IsEndOf(t.partial, text.rest) /\ Fits(t.shown)
    BY DEF Follows
  <1>3. CASE c = NL
    <2> DEFINE k == Shorten(t.partial)
               all == Append(t.shown, k)
               ls == Append(text.lines, text.rest)
               new == PushLocked(t.shown, t.partial)
    <2>1. k \in KeptLine /\ IsEndOf(Unmarked(k), text.rest)
      BY <1>1, <1>2, Shortened, EndCut
    <2>2. AreLastOf(all, ls)
      <3> HIDE DEF k
      <3> QED
        BY <1>1, <1>2, <2>1, LastGrows
    <2>3. all \in Seq(KeptLine) /\ Len(all) = Len(t.shown) + 1 /\ ls \in Seq(Line)
          /\ Len(t.shown) \in Nat
      BY <1>1, <2>1
    <2>4. PICK n \in 0 .. Len(t.shown) : new = DropFirst(all, n) /\ Fits(new)
      BY <1>1, Pushed
    <2> HIDE DEF all, ls, new
    <2>5. n \in 0 .. Len(all) /\ n < Len(all)
      BY <2>3
    <2>6. AreLastOf(new, ls)
      BY <2>2, <2>3, <2>4, <2>5, LastDropped
    <2>7. IsEndOf(<<>>, <<>>)
      <3>1. <<>> \in Line /\ Len(<<>>) = 0
        BY DEF Line
      <3> QED
        BY <3>1, EndIs, BuffersConstants DEF AtMost
    <2>8. AddByte(t, c) = [shown |-> new, partial |-> <<>>]
      BY <1>3 DEF AddByte, new
    <2>9. EndLine(text, c) = [lines |-> ls, rest |-> <<>>]
      BY <1>3 DEF EndLine, ls
    <2> QED
      BY <2>4, <2>6, <2>7, <2>8, <2>9 DEF Follows
  <1>4. CASE c # NL
    <2>1. c \in Nat
      BY <1>4 DEF Byte
    <2>2. IsEndOf(Append(t.partial, c), Append(text.rest, c))
      BY <1>1, <1>2, <2>1, EndGrows
    <2>3. AddByte(t, c) = [t EXCEPT !.partial = Append(@, c)]
      BY <1>4 DEF AddByte
    <2>4. EndLine(text, c) = [text EXCEPT !.rest = Append(@, c)]
      BY <1>4 DEF EndLine
    <2>5. /\ AddByte(t, c).shown = t.shown /\ AddByte(t, c).partial = Append(t.partial, c)
          /\ EndLine(text, c).lines = text.lines /\ EndLine(text, c).rest = Append(text.rest, c)
      BY <2>3, <2>4 DEF TailState, TextState
    <2> QED
      BY <1>2, <2>2, <2>5 DEF Follows
  <1> QED
    BY <1>3, <1>4

LEMMA PieceFollowed ==
    ASSUME NEW t \in TailState, NEW s \in Seq(Byte), NEW p \in Seq(Byte), Follows(t, Lines(s))
    PROVE  Fed(t, p) \in TailState /\ Lines(s \o p) \in TextState /\ Follows(Fed(t, p), Lines(s \o p))
  <1> DEFINE b == Len(p)
  <1>1. b \in Nat /\ \A n \in 1 .. b : p[n] \in Byte
    OBVIOUS
  <1>2. PICK f \in [0 .. b -> TailState] :
          /\ f[0] = t /\ f[b] = Fed(t, p)
          /\ \A n \in 1 .. b : f[n] = AddByte(f[n - 1], p[n])
    BY FedStepwise
  <1>3. PICK g \in [0 .. b -> TextState] :
          /\ g[0] = Lines(s) /\ g[b] = Lines(s \o p)
          /\ \A n \in 1 .. b : g[n] = EndLine(g[n - 1], p[n])
    BY LinesGrow
  <1> HIDE DEF b
  <1> DEFINE P == {n \in Nat : n \in 0 .. b => Follows(f[n], g[n])}
  <1>4. 0 \in P
    BY <1>2, <1>3
  <1>5. ASSUME NEW n \in Nat, n \in P PROVE n + 1 \in P
    <2> SUFFICES ASSUME n + 1 \in 0 .. b PROVE Follows(f[n + 1], g[n + 1])
      OBVIOUS
    <2>1. n + 1 \in 1 .. b /\ (n + 1) - 1 = n /\ n \in 0 .. b
      BY <1>1
    <2>2. Follows(f[n], g[n]) /\ f[n] \in TailState /\ g[n] \in TextState
      BY <1>2, <1>3, <1>5, <2>1
    <2>3. f[n + 1] = AddByte(f[n], p[n + 1]) /\ g[n + 1] = EndLine(g[n], p[n + 1])
      BY <1>2, <1>3, <2>1
    <2> QED
      BY <1>1, <2>1, <2>2, <2>3, ByteFollowed
  <1> HIDE DEF P
  <1>6. b \in 0 .. b /\ b \in P
    BY <1>1, <1>4, <1>5, SetInduction
  <1>7. Follows(f[b], g[b])
    BY <1>1, <1>6 DEF P
  <1> QED
    BY <1>2, <1>3, <1>6, <1>7
-------------------------------------------------------------------------------
(* Places of the ring: i is Apart(i, j) places on from j.                  *)

Places == 0 .. RingBytes - 1
OnBy(i, n) == (i + n) % RingBytes
Back(i, d) == (i + RingBytes - d) % RingBytes
Apart(i, j) == (i + RingBytes - j) % RingBytes

LEMMA OnByIs ==
    ASSUME NEW i \in Places, NEW n \in Places
    PROVE  OnBy(i, n) = IF i + n < RingBytes THEN i + n ELSE i + n - RingBytes
  <1>1. \A N \in Nat \ {0} : \A a, b \in 0 .. N - 1 :
          (a + b) % N = IF a + b < N THEN a + b ELSE a + b - N
    OBVIOUS
  <1> QED
    BY <1>1, BuffersConstants DEF OnBy, Places

LEMMA BackIs ==
    ASSUME NEW i \in Places, NEW d \in 1 .. RingBytes
    PROVE  Back(i, d) = IF d <= i THEN i - d ELSE i + RingBytes - d
  <1>1. \A N \in Nat \ {0} : \A a \in 0 .. N - 1 : \A b \in 1 .. N :
          (a + N - b) % N = IF b <= a THEN a - b ELSE a + N - b
    OBVIOUS
  <1> QED
    BY <1>1, BuffersConstants DEF Back, Places

LEMMA ApartIs ==
    ASSUME NEW i \in Places, NEW j \in Places
    PROVE  Apart(i, j) = IF j <= i THEN i - j ELSE i + RingBytes - j
  <1>1. \A N \in Nat \ {0} : \A a, b \in 0 .. N - 1 :
          (a + N - b) % N = IF b <= a THEN a - b ELSE a + N - b
    OBVIOUS
  <1> QED
    BY <1>1, BuffersConstants DEF Apart, Places

\* What n bytes on is the d-th newest: one of the n, ...
LEMMA NewPlace ==
    ASSUME NEW i \in Places, NEW n \in Places, NEW d \in 1 .. n
    PROVE  /\ OnBy(i, n) \in Places /\ Back(OnBy(i, n), d) \in Places
           /\ Apart(Back(OnBy(i, n), d), i) = n - d
  <1>1. RingBytes \in Nat \ {0}
    BY BuffersConstants
  <1>2. OnBy(i, n) \in Places
    BY <1>1, OnByIs DEF Places
  <1>3. d \in 1 .. RingBytes
    BY <1>1 DEF Places
  <1>4. Back(OnBy(i, n), d) = IF d <= OnBy(i, n) THEN OnBy(i, n) - d ELSE OnBy(i, n) + RingBytes - d
    BY <1>2, <1>3, BackIs
  <1>5. Back(OnBy(i, n), d) \in Places
    BY <1>1, <1>2, <1>3, <1>4 DEF Places
  <1>6. Apart(Back(OnBy(i, n), d), i) =
          IF i <= Back(OnBy(i, n), d) THEN Back(OnBy(i, n), d) - i
                                      ELSE Back(OnBy(i, n), d) + RingBytes - i
    BY <1>5, ApartIs
  <1>7. OnBy(i, n) = IF i + n < RingBytes THEN i + n ELSE i + n - RingBytes
    BY OnByIs
  <1>8. Apart(Back(OnBy(i, n), d), i) = n - d
    BY <1>1, <1>3, <1>4, <1>6, <1>7 DEF Places
  <1> QED
    BY <1>2, <1>5, <1>8

\* ... or the (d - n)-th newest of before.
LEMMA OldPlace ==
    ASSUME NEW i \in Places, NEW n \in Places, NEW d \in n + 1 .. RingBytes
    PROVE  /\ Back(OnBy(i, n), d) \in Places
           /\ Back(OnBy(i, n), d) = Back(i, d - n)
           /\ Apart(Back(OnBy(i, n), d), i) = RingBytes - (d - n)
  <1>1. RingBytes \in Nat \ {0}
    BY BuffersConstants
  <1>2. OnBy(i, n) \in Places
    BY <1>1, OnByIs DEF Places
  <1>3. d \in 1 .. RingBytes /\ d - n \in 1 .. RingBytes
    BY <1>1 DEF Places
  <1>4. Back(OnBy(i, n), d) = IF d <= OnBy(i, n) THEN OnBy(i, n) - d ELSE OnBy(i, n) + RingBytes - d
    BY <1>2, <1>3, BackIs
  <1>5. Back(i, d - n) = IF d - n <= i THEN i - (d - n) ELSE i + RingBytes - (d - n)
    BY <1>3, BackIs
  <1>6. Back(OnBy(i, n), d) \in Places
    BY <1>1, <1>2, <1>3, <1>4 DEF Places
  <1>7. Apart(Back(OnBy(i, n), d), i) =
          IF i <= Back(OnBy(i, n), d) THEN Back(OnBy(i, n), d) - i
                                      ELSE Back(OnBy(i, n), d) + RingBytes - i
    BY <1>6, ApartIs
  <1>8. OnBy(i, n) = IF i + n < RingBytes THEN i + n ELSE i + n - RingBytes
    BY OnByIs
  <1>9. Back(OnBy(i, n), d) = Back(i, d - n)
    BY <1>1, <1>3, <1>4, <1>5, <1>8 DEF Places
  <1>10. Apart(Back(OnBy(i, n), d), i) = RingBytes - (d - n)
    BY <1>1, <1>3, <1>4, <1>7, <1>8 DEF Places
  <1> QED
    BY <1>6, <1>9, <1>10

\* The i-th of those from the place i, which is the oldest.
LEMMA FromOldest ==
    ASSUME NEW i \in Places, NEW n \in 1 .. RingBytes
    PROVE  /\ (i + n - 1) % RingBytes = Back(i, RingBytes - n + 1)
           /\ (i + n - 1) % RingBytes \in Places
  <1>1. \A N \in Nat \ {0} : \A a \in 0 .. N - 1 : \A b \in 1 .. N :
          (a + b - 1) % N = IF a + b - 1 < N THEN a + b - 1 ELSE a + b - 1 - N
    OBVIOUS
  <1>2. (i + n - 1) % RingBytes = IF i + n - 1 < RingBytes THEN i + n - 1 ELSE i + n - 1 - RingBytes
    BY <1>1, BuffersConstants DEF Places
  <1>3. RingBytes - n + 1 \in 1 .. RingBytes /\ RingBytes \in Nat
    BY BuffersConstants
  <1>4. Back(i, RingBytes - n + 1) =
          IF RingBytes - n + 1 <= i THEN i - (RingBytes - n + 1)
                                    ELSE i + RingBytes - (RingBytes - n + 1)
    BY <1>3, BackIs
  <1> QED
    BY <1>2, <1>3, <1>4 DEF Places

-------------------------------------------------------------------------------
(* The ring.                                                               *)

Rings == [buf : [Places -> Byte], pos : Places, total : Nat]

\* r holds the newest of what out has after the first from.
RingHas(r, out, from) ==
    LET k == Len(out) - from
    IN  /\ r \in Rings
        /\ r.total < RingBytes => r.pos = r.total /\ r.total = k
        /\ r.total >= RingBytes => k >= RingBytes
        /\ \A d \in 1 .. AtMost(RingBytes, k) : r.buf[Back(r.pos, d)] = out[Len(out) - d + 1]

LEMMA EmptyRingHas ==
    ASSUME NEW out \in Seq(Byte)
    PROVE  RingHas(EmptyRing, out, Len(out))
  <1>1. Len(out) \in Nat /\ Len(out) - Len(out) = 0
    OBVIOUS
  <1>2. RingBytes \in Nat \ {0} /\ AtMost(RingBytes, 0) = 0
    BY BuffersConstants DEF AtMost
  <1>3. EmptyRing \in Rings
    <2>1. [i \in 0 .. RingBytes - 1 |-> NL] \in [0 .. RingBytes - 1 -> Byte]
      BY DEF Byte
    <2>2. 0 \in 0 .. RingBytes - 1
      BY <1>2
    <2> QED
      BY <2>1, <2>2 DEF EmptyRing, Rings, Places
  <1>4. EmptyRing.total = 0 /\ EmptyRing.pos = 0
    BY DEF EmptyRing
  <1> QED
    BY <1>1, <1>2, <1>3, <1>4 DEF RingHas

LEMMA RingWritten ==
    ASSUME NEW r, NEW out \in Seq(Byte), NEW from \in 0 .. Len(out), NEW p \in Seq(Byte),
           RingHas(r, out, from)
    PROVE  RingHas(RingWrite(r, p), out \o p, from)
  <1> DEFINE n == Len(p)
             k == Len(out) - from
             w == RingWrite(r, p)
             all == out \o p
  <1>1. /\ RingBytes \in Nat \ {0} /\ n \in Nat /\ k \in Nat /\ from \in Nat
        /\ Len(out) \in Nat /\ k <= Len(out)
    BY BuffersConstants
  <1>2. /\ r \in Rings
        /\ r.total < RingBytes => r.pos = r.total /\ r.total = k
        /\ r.total >= RingBytes => k >= RingBytes
        /\ \A d \in 1 .. AtMost(RingBytes, k) : r.buf[Back(r.pos, d)] = out[Len(out) - d + 1]
    BY DEF RingHas
  <1>3. /\ Len(all) = Len(out) + n /\ Len(all) - from = k + n
        /\ \A i \in 1 .. n : all[Len(out) + i] = p[i] /\ p[i] \in Byte
        /\ \A i \in 1 .. Len(out) : all[i] = out[i]
    OBVIOUS
  <1>4. r.buf \in [Places -> Byte] /\ r.pos \in Places /\ r.total \in Nat
    BY <1>2 DEF Rings
  <1> HIDE DEF all
  <1>5. CASE n >= RingBytes
    <2> DEFINE ending == NewestOf(p, RingBytes)
    <2>1. AtMost(RingBytes, n) = RingBytes
      BY <1>1, <1>5 DEF AtMost
    <2>2. /\ ending \in Seq(Byte) /\ Len(ending) = RingBytes
          /\ \A i \in 1 .. RingBytes : ending[i] = p[n - RingBytes + i]
      BY <1>1, <2>1, NewestIs
    <2>3. w = [buf |-> [i \in Places |-> ending[i + 1]], pos |-> 0, total |-> RingBytes]
      BY <1>5 DEF RingWrite, Places
    <2> HIDE DEF w, ending, n, k
    <2>4. \A i \in Places : i + 1 \in 1 .. RingBytes /\ n - RingBytes + (i + 1) \in 1 .. n
      BY <1>1, <1>5 DEF Places
    <2>5. \A i \in Places : ending[i + 1] = p[n - RingBytes + (i + 1)] /\ ending[i + 1] \in Byte
      BY <1>3, <2>2, <2>4
    <2>6. w \in Rings
      <3>1. [i \in Places |-> ending[i + 1]] \in [Places -> Byte]
        BY <2>5
      <3>2. 0 \in Places /\ RingBytes \in Nat
        BY <1>1 DEF Places
      <3> QED
        BY <2>3, <3>1, <3>2 DEF Rings
    <2>7. /\ w.pos = 0 /\ w.total = RingBytes /\ k + n >= RingBytes
          /\ AtMost(RingBytes, k + n) = RingBytes
      BY <1>1, <1>5, <2>3 DEF AtMost
    <2>8. ASSUME NEW d \in 1 .. RingBytes
          PROVE  w.buf[Back(w.pos, d)] = all[Len(all) - d + 1]
      <3>1. 0 \in Places /\ d \in Nat /\ ~(d <= 0)
        BY <1>1 DEF Places
      <3>2. Back(0, d) = 0 + RingBytes - d
        BY <3>1, BackIs
      <3>3. RingBytes - d \in Places /\ 0 + RingBytes - d = RingBytes - d
        BY <1>1 DEF Places
      <3>4. w.buf[RingBytes - d] = p[n - RingBytes + ((RingBytes - d) + 1)]
        <4>1. w.buf = [i \in Places |-> ending[i + 1]]
          BY <2>3
        <4> QED
          BY <2>5, <3>3, <4>1
      <3>5. n - RingBytes + ((RingBytes - d) + 1) = n - d + 1 /\ n - d + 1 \in 1 .. n
        BY <1>1, <1>5
      <3>6. Len(all) - d + 1 = Len(out) + (n - d + 1)
        BY <1>1, <1>3
      <3> QED
        BY <1>3, <2>7, <3>2, <3>3, <3>4, <3>5, <3>6
    <2>9. /\ w.total < RingBytes => w.pos = w.total /\ w.total = k + n
          /\ w.total >= RingBytes => k + n >= RingBytes
      BY <1>1, <2>7
    <2>10. \A d \in 1 .. AtMost(RingBytes, k + n) : w.buf[Back(w.pos, d)] = all[Len(all) - d + 1]
      BY <2>7, <2>8
    <2>11. RingHas(w, all, from)
      BY <1>3, <2>6, <2>9, <2>10 DEF RingHas
    <2> QED
      BY <2>11 DEF w, all
  <1>6. CASE ~(n >= RingBytes)
    <2> DEFINE new == [i \in Places |->
                         IF Apart(i, r.pos) < n THEN p[Apart(i, r.pos) + 1] ELSE r.buf[i]]
    <2>1. w = [buf |-> new, pos |-> OnBy(r.pos, n), total |-> r.total + n]
      BY <1>6 DEF RingWrite, Places, OnBy, Apart
    <2>2. n \in Places /\ n < RingBytes
      BY <1>1, <1>6 DEF Places
    <2> HIDE DEF w, n, k
    <2>3. OnBy(r.pos, n) = IF r.pos + n < RingBytes THEN r.pos + n ELSE r.pos + n - RingBytes
      BY <1>4, <2>2, OnByIs
    <2>4. OnBy(r.pos, n) \in Places
      BY <1>1, <1>4, <2>2, <2>3 DEF Places
    <2>5. new \in [Places -> Byte]
      <3> SUFFICES ASSUME NEW i \in Places
                   PROVE  (IF Apart(i, r.pos) < n THEN p[Apart(i, r.pos) + 1] ELSE r.buf[i]) \in Byte
        OBVIOUS
      <3> DEFINE a == Apart(i, r.pos)
      <3>1. a = IF r.pos <= i THEN i - r.pos ELSE i + RingBytes - r.pos
        BY <1>4, ApartIs
      <3>2. a \in Nat
        BY <1>1, <1>4, <3>1 DEF Places
      <3> HIDE DEF a
      <3>3. a < n => a + 1 \in 1 .. n
        BY <1>1, <3>2
      <3>4. (IF a < n THEN p[a + 1] ELSE r.buf[i]) \in Byte
        BY <1>3, <1>4, <3>3
      <3> QED
        BY <3>4 DEF a
    <2>6. w \in Rings
      BY <1>1, <1>4, <2>1, <2>4, <2>5 DEF Rings
    <2>7. w.pos = OnBy(r.pos, n) /\ w.total = r.total + n /\ w.buf = new
      BY <2>1
    <2>8. w.total < RingBytes => w.pos = w.total /\ w.total = k + n
      BY <1>1, <1>2, <1>4, <2>2, <2>3, <2>7
    <2>9. w.total >= RingBytes => k + n >= RingBytes
      BY <1>1, <1>2, <1>4, <2>2, <2>7
    <2>10. ASSUME NEW d \in 1 .. AtMost(RingBytes, k + n)
           PROVE  w.buf[Back(w.pos, d)] = all[Len(all) - d + 1]
      <3>1. d \in Nat /\ 1 <= d /\ d <= RingBytes /\ d <= k + n
        BY <1>1 DEF AtMost
      <3> DEFINE j == Back(OnBy(r.pos, n), d)
      <3>2. CASE d <= n
        <4>1. d \in 1 .. n
          BY <1>1, <3>1, <3>2
        <4>2. j \in Places /\ Apart(j, r.pos) = n - d
          BY <1>4, <2>2, <4>1, NewPlace
        <4>3. n - d < n /\ (n - d) + 1 = n - d + 1 /\ n - d + 1 \in 1 .. n
          BY <1>1, <4>1
        <4> HIDE DEF j
        <4>4. new[j] = p[n - d + 1]
          BY <4>2, <4>3
        <4>5. Len(all) - d + 1 = Len(out) + (n - d + 1)
          BY <1>1, <1>3, <3>1
        <4>6. w.buf[j] = all[Len(all) - d + 1]
          BY <1>3, <2>7, <4>3, <4>4, <4>5
        <4> QED
          BY <2>7, <4>6 DEF j
      <3>3. CASE ~(d <= n)
        <4> DEFINE e == d - n
        <4>1. d \in n + 1 .. RingBytes
          BY <1>1, <3>1, <3>3
        <4>2. j \in Places /\ j = Back(r.pos, e) /\ Apart(j, r.pos) = RingBytes - e
          BY <1>4, <2>2, <4>1, OldPlace
        <4>3. e \in 1 .. AtMost(RingBytes, k) /\ e \in 1 .. Len(out) /\ ~(RingBytes - e < n)
          BY <1>1, <2>2, <3>1, <3>3 DEF AtMost
        <4>4. Len(all) - d + 1 = Len(out) - e + 1 /\ Len(out) - e + 1 \in 1 .. Len(out)
          BY <1>1, <1>3, <3>1, <4>3
        <4> HIDE DEF j, e
        <4>5. new[j] = r.buf[j]
          BY <4>2, <4>3
        <4>6. r.buf[j] = out[Len(out) - e + 1]
          BY <1>2, <4>2, <4>3
        <4>7. w.buf[j] = all[Len(all) - d + 1]
          BY <1>3, <2>7, <4>4, <4>5, <4>6
        <4> QED
          BY <2>7, <4>7 DEF j
      <3> QED
        BY <3>2, <3>3
    <2>11. RingHas(w, all, from)
      BY <1>3, <2>6, <2>8, <2>9, <2>10 DEF RingHas
    <2> QED
      BY <2>11 DEF w, all
  <1> QED
    BY <1>5, <1>6

LEMMA RingRead ==
    ASSUME NEW r, NEW out \in Seq(Byte), NEW from \in 0 .. Len(out), RingHas(r, out, from)
    PROVE  RingString(r) = NewestOf(SubSeq(out, from + 1, Len(out)), RingBytes)
  <1> DEFINE k == Len(out) - from
             a == AtMost(RingBytes, k)
             cur == SubSeq(out, from + 1, Len(out))
             new == NewestOf(cur, RingBytes)
  <1>1. /\ RingBytes \in Nat \ {0} /\ k \in Nat /\ from \in Nat
        /\ Len(out) \in Nat /\ from <= Len(out)
    BY BuffersConstants
  <1>2. /\ r \in Rings
        /\ r.total < RingBytes => r.pos = r.total /\ r.total = k
        /\ r.total >= RingBytes => k >= RingBytes
        /\ \A d \in 1 .. a : r.buf[Back(r.pos, d)] = out[Len(out) - d + 1]
    BY DEF RingHas
  <1>3. /\ cur \in Seq(Byte) /\ Len(cur) = k
        /\ \A i \in 1 .. k : cur[i] = out[from + i]
    <2>1. cur = DropFirst(out, from)
      BY DEF DropFirst
    <2> QED
      BY <2>1, DropFirstIs
  <1> HIDE DEF cur
  <1>4. /\ new \in Seq(Byte) /\ Len(new) = a
        /\ \A i \in 1 .. a : new[i] = cur[k - a + i]
    <2>1. RingBytes \in Nat
      BY <1>1
    <2>2. /\ new \in Seq(Byte) /\ Len(new) = AtMost(RingBytes, Len(cur))
          /\ \A i \in 1 .. AtMost(RingBytes, Len(cur)) :
                new[i] = cur[Len(cur) - AtMost(RingBytes, Len(cur)) + i]
      BY <1>3, <2>1, NewestIs
    <2> HIDE DEF new, k
    <2> QED
      BY <1>3, <2>2
  <1> HIDE DEF new
  <1>5. a \in Nat /\ a <= k /\ a <= RingBytes
    BY <1>1 DEF AtMost
  <1>6. \A i \in 1 .. a : new[i] = out[Len(out) - a + i]
    <2> SUFFICES ASSUME NEW i \in 1 .. a PROVE new[i] = out[Len(out) - a + i]
      OBVIOUS
    <2> HIDE DEF k, a
    <2>1. k - a + i \in 1 .. k
      BY <1>1, <1>5
    <2>2. from + (k - a + i) = Len(out) - a + i
      BY <1>1, <1>5 DEF k
    <2> QED
      BY <1>3, <1>4, <2>1, <2>2
  <1>7. r.buf \in [Places -> Byte] /\ r.pos \in Places /\ r.total \in Nat
    BY <1>2 DEF Rings
  <1> HIDE DEF k, a
  <1>8. CASE r.total < RingBytes
    <2>1. r.pos = k /\ a = k
      BY <1>1, <1>2, <1>8 DEF a, AtMost
    <2> DEFINE str == [i \in 1 .. k |-> r.buf[i - 1]]
    <2>2. RingString(r) = str
      BY <1>8, <2>1 DEF RingString
    <2>3. ASSUME NEW i \in 1 .. k PROVE r.buf[i - 1] = new[i] /\ r.buf[i - 1] \in Byte
      <3> DEFINE d == k - i + 1
      <3>1. d \in 1 .. a /\ d \in 1 .. RingBytes /\ d <= k /\ k - d = i - 1 /\ i - 1 \in Places
        BY <1>1, <1>5, <1>7, <2>1 DEF Places
      <3>2. Len(out) - d + 1 = Len(out) - a + i
        BY <1>1, <2>1
      <3> HIDE DEF d
      <3>3. Back(r.pos, d) = i - 1
        BY <1>7, <2>1, <3>1, BackIs
      <3>4. r.buf[i - 1] = out[Len(out) - a + i]
        BY <1>2, <3>1, <3>2, <3>3
      <3> QED
        BY <1>6, <1>7, <2>1, <3>1, <3>4
    <2>4. str \in [1 .. k -> Byte] /\ \A i \in 1 .. k : str[i] = new[i]
      BY <2>3
    <2> HIDE DEF str
    <2>5. str \in Seq(Byte) /\ Len(str) = k
      BY <1>1, <2>4, SequenceOf
    <2>6. str = new
      BY <1>4, <2>1, <2>4, <2>5, SeqEqual
    <2> QED
      BY <2>2, <2>6 DEF new, cur
  <1>9. CASE ~(r.total < RingBytes)
    <2>1. a = RingBytes
      BY <1>1, <1>2, <1>7, <1>9 DEF a, AtMost
    <2> DEFINE str == [i \in 1 .. RingBytes |-> r.buf[(r.pos + i - 1) % RingBytes]]
    <2>2. RingString(r) = str
      BY <1>9 DEF RingString
    <2>3. ASSUME NEW i \in 1 .. RingBytes PROVE str[i] = new[i] /\ str[i] \in Byte
      <3> DEFINE d == RingBytes - i + 1
      <3>1. d \in 1 .. a
        BY <1>1, <2>1
      <3>2. Len(out) - d + 1 = Len(out) - a + i
        BY <1>1, <2>1
      <3>3. str[i] = r.buf[Back(r.pos, d)] /\ Back(r.pos, d) \in Places
        BY <1>7, FromOldest
      <3> HIDE DEF d, str
      <3>4. str[i] = out[Len(out) - a + i]
        BY <1>2, <3>1, <3>2, <3>3
      <3> QED
        BY <1>6, <1>7, <2>1, <3>3, <3>4
    <2>4. str \in [1 .. RingBytes -> Byte] /\ \A i \in 1 .. RingBytes : str[i] = new[i]
      BY <2>3
    <2> HIDE DEF str
    <2>5. str \in Seq(Byte) /\ Len(str) = RingBytes
      BY <1>1, <2>4, SequenceOf
    <2>6. str = new
      BY <1>4, <2>1, <2>4, <2>5, SeqEqual
    <2> QED
      BY <2>2, <2>6 DEF new, cur
  <1> QED
    BY <1>8, <1>9
-------------------------------------------------------------------------------
(* What the master is sent.                                                *)

LEMMA TailRead ==
    ASSUME NEW kept \in Seq(KeptLine), NEW ls \in Seq(Line), AreLastOf(kept, ls)
    PROVE  AreLastOf(NewestOf(kept, MemTailLines), ls)
  <1> DEFINE a == AtMost(MemTailLines, Len(kept))
             n == Len(kept) - a
  <1>1. Len(kept) \in Nat /\ MemTailLines \in Nat \ {0} /\ Len(ls) \in Nat
    BY BuffersConstants
  <1>2. n \in 0 .. Len(kept) /\ (Len(kept) # 0 => n < Len(kept))
    BY <1>1 DEF AtMost
  <1>3. NewestOf(kept, MemTailLines) = DropFirst(kept, n)
    BY DEF NewestOf, DropFirst
  <1>4. Len(kept) = 0 => ls = <<>>
    BY DEF AreLastOf
  <1> HIDE DEF n
  <1> QED
    BY <1>2, <1>3, <1>4, LastDropped

\* The state of the buffers, between two steps.
BuffersInv ==
    /\ output \in Seq(Byte) /\ Len(output) <= MaxOutput
    /\ runAt \in 0 .. Len(output)
    /\ RingHas(ring, output, runAt)
    /\ Carried \in TailState /\ shownBytes = SizeOf(shown)
    /\ Follows(Carried, Lines(output))

LEMMA CarriedIs ==
    ASSUME Carried \in TailState
    PROVE  /\ shown \in Seq(KeptLine) /\ partial \in Line
           /\ Carried.shown = shown /\ Carried.partial = partial
  <1>1. Carried.shown = shown /\ Carried.partial = partial
    BY DEF Carried
  <1>2. Carried.shown \in Seq(KeptLine) /\ Carried.partial \in Line
    BY DEF TailState
  <1> QED
    BY <1>1, <1>2

LEMMA LinesType ==
    ASSUME NEW s \in Seq(Byte)
    PROVE  Lines(s) \in TextState
  <1>1. PICK f \in [0 .. Len(s) -> TextState] : f[Len(s)] = Lines(s)
    BY LinesStepwise
  <1>2. Len(s) \in 0 .. Len(s)
    OBVIOUS
  <1> QED
    BY <1>1, <1>2

LEMMA BuffersInitInv ==
    ASSUME BuffersInit
    PROVE  BuffersInv
  <1>1. output = <<>> /\ runAt = 0 /\ ring = EmptyRing /\ shown = <<>> /\ partial = <<>>
        /\ shownBytes = 0
    BY DEF BuffersInit
  <1>2. <<>> \in Seq(Byte) /\ Len(<<>>) = 0 /\ 0 <= MaxOutput /\ 0 \in 0 .. 0
    BY BuffersAssumption
  <1>3. RingHas(ring, output, runAt)
    BY <1>1, <1>2, EmptyRingHas
  <1>4. Carried = [shown |-> <<>>, partial |-> <<>>] /\ Carried \in TailState
    BY <1>1 DEF Carried, TailState, Line
  <1>5. Lines(<<>>) = NoText
    <2>1. PICK f \in [0 .. Len(<<>>) -> TextState] :
            f[0] = NoText /\ f[Len(<<>>)] = Lines(<<>>)
      BY <1>2, LinesStepwise
    <2> QED
      BY <1>2, <2>1
  <1>6. AreLastOf(<<>>, <<>>)
    BY <1>2 DEF AreLastOf
  <1>7. IsEndOf(<<>>, <<>>)
    <2>1. <<>> \in Line
      BY DEF Line
    <2> QED
      BY <1>2, <2>1, EndIs, BuffersConstants DEF AtMost
  <1>8. Follows(Carried, Lines(output))
    BY <1>1, <1>4, <1>5, <1>6, <1>7, EmptyFits DEF Follows, NoText
  <1> QED
    BY <1>1, <1>2, <1>3, <1>4, <1>8, NoSize DEF BuffersInv

LEMMA PieceIs ==
    ASSUME output \in Seq(Byte), NEW n \in Nat, NEW nls \in [1 .. n -> BOOLEAN]
    PROVE  Piece(nls) \in Seq(Byte) /\ Len(Piece(nls)) = n
  <1>1. nls \in Seq(BOOLEAN) /\ Len(nls) = n
    BY SequenceOf
  <1>2. Piece(nls) = [i \in 1 .. n |-> IF nls[i] THEN NL ELSE Len(output) + i]
    BY <1>1 DEF Piece
  <1>3. \A i \in 1 .. n : (IF nls[i] THEN NL ELSE Len(output) + i) \in Byte
    <2>1. Len(output) \in Nat
      OBVIOUS
    <2>2. \A i \in 1 .. n : Len(output) + i \in Nat
      BY <2>1
    <2> QED
      BY <2>2 DEF Byte
  <1>4. Piece(nls) \in [1 .. n -> Byte]
    BY <1>2, <1>3
  <1> QED
    BY <1>4, SequenceOf

\* Cutting an unfinished line to its newest bytes leaves the end of it.
LEMMA TailWritten ==
    ASSUME Carried \in TailState, output \in Seq(Byte), Follows(Carried, Lines(output)),
           NEW p \in Seq(Byte), TailWrite(p)
    PROVE  /\ (Carried \in TailState)' /\ shownBytes' = SizeOf(shown')
           /\ Follows(Carried', Lines(output \o p))
  <1> DEFINE t == Fed(Carried, p)
             text == Lines(output \o p)
             ending == IF \E i \in 1 .. Len(p) : p[i] = NL THEN t.partial
                    ELSE NewestOf(t.partial, MemTailLine)
  <1>1. t \in TailState /\ text \in TextState /\ Follows(t, text)
    BY PieceFollowed
  <1>2. partial' = ending /\ shown' = t.shown /\ shownBytes' = SizeOf(shown')
    BY DEF TailWrite
  <1> HIDE DEF t, text
  <1>3. t.shown \in Seq(KeptLine) /\ t.partial \in Line /\ text.rest \in Line
    BY <1>1 DEF TailState, TextState
  <1>4. IsEndOf(t.partial, text.rest)
    BY <1>1 DEF Follows
  <1>5. ending \in Line /\ IsEndOf(ending, text.rest)
    BY <1>3, <1>4, EndCut
  <1> HIDE DEF ending
  <1>6. Carried' = [shown |-> t.shown, partial |-> ending]
    BY <1>2 DEF Carried
  <1>7. Carried' \in TailState
    BY <1>3, <1>5, <1>6 DEF TailState
  <1>8. Follows(Carried', text)
    BY <1>1, <1>5, <1>6 DEF Follows
  <1> QED
    BY <1>2, <1>7, <1>8 DEF text

LEMMA BuffersInvStep ==
    ASSUME BuffersInv, [BuffersNext]_bufferVars
    PROVE  BuffersInv'
  <1>1. /\ output \in Seq(Byte) /\ Len(output) <= MaxOutput /\ runAt \in 0 .. Len(output)
        /\ RingHas(ring, output, runAt) /\ Carried \in TailState /\ shownBytes = SizeOf(shown)
        /\ Follows(Carried, Lines(output))
    BY DEF BuffersInv
  <1>2. CASE PieceArrives
    <2>0. PICK n \in 1 .. MaxPiece :
            /\ Len(output) + n <= MaxOutput
            /\ \E nls \in [1 .. n -> BOOLEAN] :
                  /\ output' = output \o Piece(nls)
                  /\ ring' = RingWrite(ring, Piece(nls)) /\ TailWrite(Piece(nls)) /\ runAt' = runAt
      BY <1>2 DEF PieceArrives
    <2>1. PICK nls \in [1 .. n -> BOOLEAN] :
            /\ Len(output) + n <= MaxOutput /\ output' = output \o Piece(nls)
            /\ ring' = RingWrite(ring, Piece(nls)) /\ TailWrite(Piece(nls)) /\ runAt' = runAt
      BY <2>0
    <2> DEFINE p == Piece(nls)
    <2>2. n \in Nat
      BY BuffersAssumption
    <2>3. p \in Seq(Byte) /\ Len(p) = n
      BY <1>1, <2>2, PieceIs
    <2>4. output' = output \o p
      BY <2>1
    <2> HIDE DEF p
    <2>5. output' \in Seq(Byte) /\ Len(output') = Len(output) + n
      <3>1. output \in Seq(Byte)
        BY <1>1
      <3>2. output \o p \in Seq(Byte) /\ Len(output \o p) = Len(output) + Len(p)
        BY <2>3, <3>1, ConcatProperties
      <3> QED
        BY <2>3, <2>4, <3>2
    <2>6. Len(output') <= MaxOutput /\ runAt' \in 0 .. Len(output')
      BY <1>1, <2>1, <2>2, <2>5
    <2>7. RingHas(ring', output', runAt')
      BY <1>1, <2>1, <2>3, RingWritten DEF p
    <2>8. /\ Carried' \in TailState /\ shownBytes' = SizeOf(shown')
          /\ Follows(Carried', Lines(output \o p))
      BY <1>1, <2>1, <2>3, TailWritten DEF p
    <2>9. Follows(Carried', Lines(output'))
      BY <2>8, <2>4
    <2> QED
      BY <2>5, <2>6, <2>7, <2>8, <2>9 DEF BuffersInv
  <1>3. CASE NextRun
    <2>1. /\ runAt' = Len(output) /\ ring' = EmptyRing /\ output' = output /\ shown' = shown
          /\ shownBytes' = shownBytes /\ partial' = partial
      BY <1>3 DEF NextRun
    <2>2. Carried' = Carried
      BY <2>1 DEF Carried
    <2>3. RingHas(EmptyRing, output, Len(output)) /\ Len(output) \in 0 .. Len(output)
      BY <1>1, EmptyRingHas
    <2> QED
      BY <1>1, <2>1, <2>2, <2>3 DEF BuffersInv
  <1>4. CASE UNCHANGED bufferVars
    <2>1. /\ runAt' = runAt /\ ring' = ring /\ output' = output /\ shown' = shown
          /\ shownBytes' = shownBytes /\ partial' = partial
      BY <1>4 DEF bufferVars
    <2>2. Carried' = Carried
      BY <2>1 DEF Carried
    <2> QED
      BY <1>1, <2>1, <2>2 DEF BuffersInv
  <1> QED
    BY <1>2, <1>3, <1>4 DEF BuffersNext

LEMMA BuffersInvType ==
    ASSUME BuffersInv
    PROVE  BuffersTypeOK
  <1>1. /\ output \in Seq(Byte) /\ Len(output) <= MaxOutput /\ runAt \in 0 .. Len(output)
        /\ ring \in Rings /\ Carried \in TailState /\ shownBytes = SizeOf(shown)
        /\ Fits(Carried.shown)
    BY DEF BuffersInv, RingHas, Follows
  <1>2. shown \in Seq(KeptLine) /\ partial \in Line /\ Carried.shown = shown
    BY <1>1, CarriedIs
  <1>3. runAt <= Len(output) /\ ring.pos \in 0 .. RingBytes - 1 /\ ring.total \in Nat
    BY <1>1 DEF Rings, Places
  <1>4. Len(shown) <= MemTailLines /\ (shownBytes <= MemTailBytes \/ Len(shown) = 1)
    BY <1>1, <1>2 DEF Fits
  <1>5. \A i \in 1 .. Len(partial) : partial[i] # NL
    BY <1>2, BuffersConstants DEF Line
  <1> QED
    BY <1>1, <1>3, <1>4, <1>5 DEF BuffersTypeOK

LEMMA BuffersInvNewest ==
    ASSUME BuffersInv
    PROVE  NewestOutput
  <1>1. RingIsNewest
    BY RingRead DEF BuffersInv, RingIsNewest
  <1>2. TailIsNewest
    <2> DEFINE text == Lines(output)
               ls == IF text.rest = <<>> THEN text.lines ELSE Append(text.lines, text.rest)
               kept == IF partial = <<>> THEN shown ELSE Append(shown, partial)
    <2>1. text \in TextState
      BY LinesType DEF BuffersInv
    <2>2. Carried \in TailState /\ Follows(Carried, text)
      BY DEF BuffersInv
    <2> HIDE DEF text
    <2>3. /\ shown \in Seq(KeptLine) /\ partial \in Line
          /\ text.lines \in Seq(Line) /\ text.rest \in Line
      BY <2>1, <2>2, CarriedIs DEF TextState
    <2>4. AreLastOf(shown, text.lines) /\ IsEndOf(partial, text.rest)
      BY <2>2, CarriedIs DEF Follows
    <2>5. partial = <<>> <=> text.rest = <<>>
      <3>1. Len(partial) \in Nat /\ Len(text.rest) \in Nat
            /\ (partial = <<>> <=> Len(partial) = 0) /\ (text.rest = <<>> <=> Len(text.rest) = 0)
        BY <2>3 DEF Line
      <3>2. AtMost(Len(text.rest), MemTailLine) <= Len(partial) /\ Len(partial) <= Len(text.rest)
        BY <2>3, <2>4, EndIs
      <3> QED
        BY <3>1, <3>2, BuffersConstants DEF AtMost
    <2>6. kept \in Seq(KeptLine) /\ ls \in Seq(Line) /\ AreLastOf(kept, ls)
      <3>1. CASE partial = <<>>
        BY <2>3, <2>4, <2>5, <3>1
      <3>2. CASE partial # <<>>
        <4>1. partial \in KeptLine
          BY <2>3 DEF Line, KeptLine
        <4>2. Unmarked(partial) = partial
          <5>1. Len(partial) \in Nat /\ Len(partial) # 0
            BY <2>3, <3>2 DEF Line
          <5>2. partial[1] \in Nat
            BY <2>3, <5>1 DEF Line
          <5> QED
            BY <5>2, BuffersConstants DEF Unmarked
        <4>3. AreLastOf(Append(shown, partial), Append(text.lines, text.rest))
          BY <2>3, <2>4, <4>1, <4>2, LastGrows
        <4> QED
          BY <2>3, <2>5, <3>2, <4>1, <4>3
      <3> QED
        BY <3>1, <3>2
    <2>7. Tail500 = NewestOf(kept, MemTailLines)
      BY DEF Tail500
    <2> HIDE DEF kept, ls
    <2>8. AreLastOf(Tail500, ls)
      BY <2>6, <2>7, TailRead
    <2> QED
      BY <2>8 DEF TailIsNewest, text, ls
  <1> QED
    BY <1>1, <1>2 DEF NewestOutput

LEMMA BuffersInvariant == BuffersSpec => []BuffersInv
  BY BuffersInitInv, BuffersInvStep, PTL DEF BuffersSpec

(* What is kept of xray's output stays within its limits: at most so many  *)
(* lines, and so many bytes unless a single line has more (logtail.go).    *)
THEOREM BuffersTyping == BuffersSpec => []BuffersTypeOK
  BY BuffersInvariant, BuffersInvType, PTL

(* However the pipe cuts the output into pieces, the ring has the newest   *)
(* bytes of this run in order, and the master is sent the last lines of    *)
(* the output, with none left out and of a long one its end (errors.go,    *)
(* logtail.go).                                                            *)
THEOREM BuffersKeepNewest == BuffersSpec => []NewestOutput
  BY BuffersInvariant, BuffersInvNewest, PTL

-----------------------------------------------------------------------------
(* The stores together (MCStores) *)

LEMMA StoresParts ==
    ASSUME StoresInit
    PROVE  /\ part \in {"outbox", "files", "log", "buffers", "self", "geo"}
           /\ TypeOK /\ FilesTypeOK /\ LogInv /\ BuffersInv /\ SelfInv /\ GeoInv
  BY TypeInit, FilesTypeInit, LogInitInv, BuffersInitInv, SelfInvInit, GeoInitInv DEF StoresInit

\* The part that moves keeps its invariant, and the others stand still.
StoresInv ==
    /\ TypeOK /\ FilesTypeOK /\ LogInv /\ BuffersInv /\ SelfInv /\ GeoInv

LEMMA StoresInvStep == StoresInv /\ [StoresNext]_storeVars => StoresInv'
  <1> SUFFICES ASSUME StoresInv, [StoresNext]_storeVars PROVE StoresInv'
    OBVIOUS
  <1>0. TypeOK /\ FilesTypeOK /\ LogInv /\ BuffersInv /\ SelfInv /\ GeoInv
    BY DEF StoresInv
  <1>1. /\ [Next]_outboxVars /\ [FilesNext]_nodeVars /\ [LogNext]_logVars
        /\ [BuffersNext]_bufferVars /\ [SelfNext]_selfVars /\ [GeoNext]_geoVars
    BY Zenon DEF StoresNext, storeVars
  <1>2. TypeOK' /\ FilesTypeOK'
    BY <1>0, <1>1, TypeStep, FilesTypeStep
  <1>3. LogInv' /\ BuffersInv'
    BY <1>0, <1>1, LogInvStep, BuffersInvStep
  <1>4. SelfInv' /\ GeoInv'
    BY <1>0, <1>1, SelfInvStep, GeoInvStep
  <1> QED
    BY <1>2, <1>3, <1>4 DEF StoresInv

\* Whichever part moves, all six keep their types, and with them their limits: the batches of
\* the outbox, the windows of the log and of the output, the whole program of the agent.
THEOREM StoresTyping == StoresSpec => []StoresTypeOK
  <1>1. StoresInit => StoresInv
    BY StoresParts DEF StoresInv
  <1>2. StoresInv => StoresTypeOK
    BY LogTyped, BuffersInvType, SelfTyped, GeoTyped DEF StoresInv, StoresTypeOK
  <1> QED
    BY <1>1, <1>2, StoresInvStep, PTL DEF StoresSpec

=============================================================================
