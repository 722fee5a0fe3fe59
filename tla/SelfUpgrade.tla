----------------------------- MODULE SelfUpgrade -----------------------------
(***************************************************************************)
(* The agent replaces its own program (upgrade.go; runUpgrade in           *)
(* client.go; runUpgrade and runRollback in cli.go).  Two may do so: the   *)
(* agent, for the panel, and a command of an operator; each finds out the  *)
(* version, takes the program and its digest from the first mirror that    *)
(* answers, and replaces the file through the same <exe>.tmp.  `upgrading` *)
(* keeps two requests of the panel apart; nothing keeps the two processes  *)
(* apart.  A process may end at any step.                                  *)
(*                                                                         *)
(* Abstracted: versions are numbers, and stand for the program that the    *)
(* release of this version consists of; requests to a mirror are answered  *)
(* in every way a server can answer; progress messages are left out.       *)
(***************************************************************************)
EXTENDS Naturals

CONSTANTS
    Releases,       \* the releases are 1 .. Releases
    Mirrors,      \* the length of the chain of candidates
    Systemd,      \* BOOLEAN: is there a service manager
    MaxInstalls, MaxEnds,     \* bounds: requests, processes that end by themselves
    Nothing, Broken

Release == 1 .. Releases
NewestTag == 0     \* a request that names no version
Program == Release \cup {Broken}
Installer == {"panel", "cli"}

ASSUME SelfAssumption ==
    /\ Releases \in Nat \ {0} /\ Mirrors \in Nat \ {0} /\ Systemd \in BOOLEAN
    /\ MaxInstalls \in Nat /\ MaxEnds \in Nat
    /\ {Nothing, Broken} \cap Nat = {} /\ Nothing # Broken

VARIABLES
    exe, exeTmp,    \* the program file, and <exe>.tmp
    runs,           \* the version the agent runs, Nothing when it cannot start
    inst,           \* what each installer does
    promised,       \* the version the panel was told the agent restarts with (history)
    crossed,        \* both replaced the file at once (history)
    installs, selfEnds

selfVars == <<exe, exeTmp, runs, inst, promised, crossed, installs, selfEnds>>

NoInstall == [at |-> "idle", tag |-> 0, force |-> FALSE, from |-> 0,
              data |-> Nothing, mirror |-> 1]

SelfInit ==
    /\ exe \in Release /\ runs = exe /\ exeTmp = Nothing
    /\ inst = [i \in Installer |-> NoInstall]
    /\ promised = Nothing /\ crossed = FALSE
    /\ installs = 0 /\ selfEnds = 0

Does(i, place)   == inst[i].at = place
GoesOn(i, place) == inst' = [inst EXCEPT ![i].at = place]
GivesUp(i)       == inst' = [inst EXCEPT ![i] = NoInstall]
Partner(i)       == IF i = "panel" THEN "cli" ELSE "panel"

Installing(i) == inst[i].at \in {"write", "rename", "reply", "restart"}
Crosses(i) == crossed' = (crossed \/ Installing(Partner(i)))

unmoved == <<exe, exeTmp, runs, promised, crossed, installs, selfEnds>>

(***************************************************************************)
(* A request: of the panel, unless one is going on, with the version that  *)
(* runs to compare with; or a command, which is the program file itself.   *)
(***************************************************************************)
Requests(i, from, tag, force) ==
    /\ installs < MaxInstalls /\ installs' = installs + 1
    /\ Does(i, "idle") /\ from \in Release
    /\ inst' = [inst EXCEPT ![i] = [at |-> IF tag = NewestTag THEN "latest" ELSE "compare",
                                    tag |-> tag, force |-> force, from |-> from,
                                    data |-> Nothing, mirror |-> 1]]
    /\ UNCHANGED <<exe, exeTmp, runs, promised, crossed, selfEnds>>

PanelRequest ==
    \E tag \in Release \cup {NewestTag}, force \in BOOLEAN : Requests("panel", runs, tag, force)

(* upgrade, which names no version, and rollback, which does               *)
CommandRequest ==
    \/ Requests("cli", exe, NewestTag, FALSE)
    \/ \E tag \in Release : Requests("cli", exe, tag, TRUE)

(* The first mirror that answers decides, and it may be behind.            *)
Latest(i) ==
    /\ Does(i, "latest")
    /\ \/ \E tag \in Release :
             inst' = [inst EXCEPT ![i] = [@ EXCEPT !.at = "compare", !.tag = tag]]
       \/ GivesUp(i)
    /\ UNCHANGED unmoved

(* The panel may install the same version again; the command may not.      *)
UpToDateAlready(i) ==
    \/ ~inst[i].force /\ inst[i].from >= inst[i].tag
    \/ i = "cli" /\ inst[i].from = inst[i].tag

CompareWith(i) ==
    /\ Does(i, "compare")
    /\ IF UpToDateAlready(i) THEN GivesUp(i) ELSE GoesOn(i, "download")
    /\ UNCHANGED unmoved

(* A mirror gives a file and the digest of the release; or it does not, and*)
(* the next is asked; or its list of digests has no such file, and none is.*)
Download(i) ==
    /\ Does(i, "download")
    /\ \/ \E file \in Program :
             inst' = [inst EXCEPT ![i] = [@ EXCEPT !.at = "verify", !.data = file]]
       \/ inst[i].mirror < Mirrors /\ inst' = [inst EXCEPT ![i].mirror = @ + 1]
       \/ GivesUp(i)
    /\ UNCHANGED unmoved

(* mutant: the digest is not compared                                      *)
VerifyNothing(i) ==
    /\ Does(i, "verify")
    /\ GoesOn(i, "open")
    /\ UNCHANGED unmoved

VerifyDigest(i) ==
    /\ Does(i, "verify")
    /\ IF inst[i].data = inst[i].tag THEN GoesOn(i, "open") ELSE GivesUp(i)
    /\ UNCHANGED unmoved

(***************************************************************************)
(* ReplaceBinary.  Who opens <exe>.tmp while the other has it open shares  *)
(* it; once the other has renamed or removed it, what is written goes to   *)
(* the program, or nowhere.                                                *)
(***************************************************************************)
(* mutant: the program is written in place                                 *)
OpenInPlaceOf(i) ==
    /\ Does(i, "open")
    /\ exe' = Broken /\ exeTmp' = Broken
    /\ Crosses(i)
    /\ GoesOn(i, "write")
    /\ UNCHANGED <<runs, promised, installs, selfEnds>>

OpenExeTmp(i) ==
    /\ Does(i, "open")
    /\ exeTmp' = Broken
    /\ Crosses(i)
    /\ GoesOn(i, "write")
    /\ UNCHANGED <<exe, runs, promised, installs, selfEnds>>

WriteExeTmp(i) ==
    /\ Does(i, "write")
    /\ Crosses(i)
    /\ \E file \in IF Installing(Partner(i)) THEN {inst[i].data, Broken} ELSE {inst[i].data} :
          \/ exeTmp # Nothing /\ exeTmp' = file /\ UNCHANGED exe
          \/ exeTmp = Nothing /\ exe' \in {exe, file} /\ UNCHANGED exeTmp
    /\ GoesOn(i, "rename")
    /\ UNCHANGED <<runs, promised, installs, selfEnds>>

RenameExeTmp(i) ==
    /\ Does(i, "rename") /\ exeTmp # Nothing
    /\ exe' = exeTmp /\ exeTmp' = Nothing
    /\ Crosses(i)
    /\ GoesOn(i, "reply")
    /\ UNCHANGED <<runs, promised, installs, selfEnds>>

MayFail(i) == inst[i].at \in {"open", "write", "rename"}

InstallFails(i) ==
    /\ MayFail(i)
    /\ exeTmp' = Nothing /\ Crosses(i)
    /\ GivesUp(i)
    /\ UNCHANGED <<exe, runs, promised, installs, selfEnds>>

(***************************************************************************)
(* The reply, and a second later the restart, which ends the agent with    *)
(* whatever it does; without a service manager the operator restarts it.   *)
(***************************************************************************)
Reply(i) ==
    /\ Does(i, "reply")
    /\ IF Systemd THEN GoesOn(i, "restart") ELSE GivesUp(i)
    /\ promised' = IF i = "panel" /\ Systemd THEN inst[i].tag ELSE promised
    /\ UNCHANGED <<exe, exeTmp, runs, crossed, installs, selfEnds>>

Runnable == IF exe \in Release THEN exe ELSE Nothing

RestartAgent(i) ==
    /\ Does(i, "restart")
    /\ runs' = Runnable
    /\ inst' = [inst EXCEPT ![i] = NoInstall, !["panel"] = NoInstall]
    /\ UNCHANGED <<exe, exeTmp, promised, crossed, installs, selfEnds>>

AgentEnds ==
    /\ selfEnds < MaxEnds /\ selfEnds' = selfEnds + 1
    /\ runs' = Runnable
    /\ GivesUp("panel")
    /\ UNCHANGED <<exe, exeTmp, promised, crossed, installs>>

CommandKilled ==
    /\ ~Does("cli", "idle")
    /\ selfEnds < MaxEnds /\ selfEnds' = selfEnds + 1
    /\ GivesUp("cli")
    /\ UNCHANGED <<exe, exeTmp, runs, promised, crossed, installs>>

SelfNext ==
    \/ PanelRequest \/ CommandRequest
    \/ \E i \in Installer :
          \/ Latest(i) \/ CompareWith(i) \/ Download(i) \/ VerifyDigest(i)
          \/ OpenExeTmp(i) \/ WriteExeTmp(i) \/ RenameExeTmp(i) \/ InstallFails(i)
          \/ Reply(i) \/ RestartAgent(i)
    \/ AgentEnds \/ CommandKilled

SelfSpec == SelfInit /\ [][SelfNext]_selfVars

(***************************************************************************)
(* Properties                                                              *)
(***************************************************************************)
(* Whenever a process ends or the disk is full, the program is that of a   *)
(* release, and can be started (upgrade.go:355, "atomically"), unless both *)
(* installers were replacing it at once.                                   *)
SelfTypeOK ==
    /\ exe \in Program /\ exeTmp \in Program \cup {Nothing}
    /\ runs \in Release \cup {Nothing} /\ promised \in Release \cup {Nothing}
    /\ \A i \in Installer :
          /\ inst[i].tag \in Release \cup {NewestTag} /\ inst[i].from \in Release \cup {NewestTag}
          /\ inst[i].mirror \in 1 .. Mirrors
          /\ inst[i].data \in Program \cup {Nothing}
    /\ crossed \/ exe \in Release

(* The program becomes only what was asked for, with the digest of its     *)
(* release (upgrade.go:385), and without force only a version newer than   *)
(* the one that asked.                                                     *)
OnlyAsked ==
    [][exe' # exe /\ ~crossed'
         => \E i \in Installer :
               /\ Does(i, "rename") /\ exe' = inst[i].tag
               /\ inst[i].force \/ exe' > inst[i].from]_selfVars

(* Between the reply that names the version and the restart, the program   *)
(* is of this version (client.go:1208-1213), unless a command replaced it. *)
PromiseKept ==
    Does("panel", "restart") /\ ~crossed => exe = promised

(* The program is what was asked for and verified, and what the panel was  *)
(* told, while requests, commands and ends of processes interleave.        *)
ProgramKept == OnlyAsked /\ []PromiseKept

=============================================================================
