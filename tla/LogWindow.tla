------------------------------ MODULE LogWindow ------------------------------
(***************************************************************************)
(* The log file of xray (logfile.go): a file that is appended to, and when *)
(* it would pass its limit is replaced by its own newest half.  The writer *)
(* is the goroutine that copies xray's output (its lock is held for a      *)
(* whole Write); beside it an operator may trim the file with              *)
(* `xray-agent logs --vacuum`, which is the same SlideNow in another       *)
(* process without a lock, truncate it, or remove it.  The writer looks at *)
(* the name of the file once a second, and until then writes to what it    *)
(* has open, which may have no name any more.                              *)
(*                                                                         *)
(* Abstracted: lines are numbered in the order they are written and all    *)
(* have LineBytes bytes; a Write is one line; a file is its lines.         *)
(***************************************************************************)
EXTENDS Naturals, Sequences

CONSTANTS
    LimitBytes, LineBytes,
    OldLines,    \* lines of a file that an earlier version has left
    MaxLines, MaxMeddling, MaxLogFaults,    \* bounds
    NoInode

Keep  == LimitBytes \div 2
(* The newest Keep bytes without the line they cut, or the first whole one *)
KeptLines  == (Keep - 1) \div LineBytes
Inode == 1 .. 4

ASSUME LogAssumption ==
    /\ LimitBytes \in Nat /\ LineBytes \in Nat \ {0}
    /\ Keep > LineBytes
    /\ OldLines \in Nat /\ MaxLines \in Nat /\ OldLines <= MaxLines /\ MaxMeddling \in Nat
    /\ MaxLogFaults \in Nat
    /\ NoInode \notin Inode

VARIABLES
    lines,      \* what each file contains
    path,       \* the file that has the name
    tmp,        \* the lines in <path>.tmp, or NoInode
    fd, stat,   \* Sliding: the open file, and the one that was opened last
    size,       \* Sliding.size
    lookDue,        \* a second has passed since the last look at the name
    doing,        \* what the writer does: Open or Write
    step, buf,    \* its step, and what its SlideNow has read
    vacuum, vbuf,    \* the same of the command
    written,    \* lines that have been written
    window,     \* somebody changed the file and the writer has not looked (history)
    exposed,    \* the lines written meanwhile (history)
    cut,        \* the lines before the file was truncated or removed (history)
    unslid,     \* the file was not brought under its limit (history)
    meddling, logFaults

logFile  == <<lines, path, tmp>>
sliding  == <<fd, stat, size, lookDue>>
logGhost == <<written, window, exposed, cut, unslid>>
logCount == <<meddling, logFaults>>
logVars  == <<logFile, sliding, doing, step, buf, vacuum, vbuf, logGhost, logCount>>

LogInit ==
    /\ \/ path = NoInode /\ lines = [i \in Inode |-> <<>>] /\ written = 0
       \/ /\ path = 1 /\ written = OldLines
          /\ lines = [i \in Inode |-> IF i = 1 THEN [k \in 1 .. OldLines |-> k] ELSE <<>>]
    /\ tmp = NoInode
    /\ fd = NoInode /\ stat = NoInode /\ size = 0 /\ lookDue = TRUE
    /\ doing = "none" /\ step = "closed" /\ buf = <<>>
    /\ vacuum = "idle" /\ vbuf = <<>>
    /\ window = FALSE /\ exposed = {} /\ cut = 0 /\ unslid = TRUE
    /\ meddling = 0 /\ logFaults = 0

(* What there is under the name.                                           *)
Visible == IF path = NoInode THEN <<>> ELSE lines[path]
BytesOf(c) == Len(c) * LineBytes
Newest(c) == SubSeq(c, Len(c) - KeptLines + 1, Len(c))
Unused == CHOOSE i \in Inode : i \notin {path, fd, stat}

FaultHappens == logFaults < MaxLogFaults /\ logFaults' = logFaults + 1

(* reopenLocked: open the name, which creates the file if there is none.   *)
Reopen(p, content) ==
    /\ path' = p /\ fd' = p /\ stat' = p
    /\ lines' = [lines EXCEPT ![p] = content]
    /\ size' = BytesOf(content)

ReopenNow == Reopen(IF path = NoInode THEN Unused ELSE path, Visible)

(***************************************************************************)
(* Open and Close, with xray; and Write.                                   *)
(***************************************************************************)
Open ==
    /\ step = "closed"
    /\ \/ /\ BytesOf(Visible) > LimitBytes
          /\ step' = "slide" /\ doing' = "open"
          /\ UNCHANGED <<lines, path, fd, stat, size, unslid>>
       \/ /\ BytesOf(Visible) <= LimitBytes
          /\ ReopenNow
          /\ step' = "idle" /\ unslid' = FALSE /\ UNCHANGED doing
    /\ lookDue' = TRUE
    /\ UNCHANGED <<tmp, buf, vacuum, vbuf, written, window, exposed, cut, logCount>>

Close ==
    /\ step = "idle"
    /\ fd' = NoInode /\ stat' = NoInode /\ step' = "closed"
    /\ UNCHANGED <<logFile, size, lookDue, doing, buf, vacuum, vbuf, logGhost, logCount>>

SecondPasses ==
    /\ step = "idle" /\ ~lookDue
    /\ lookDue' = TRUE
    /\ UNCHANGED <<logFile, fd, stat, size, doing, step, buf, vacuum, vbuf, logGhost, logCount>>

(* mutant: a file of the same name is taken for the same file              *)
NameGone == path = NoInode

FileGone == path = NoInode \/ path # stat     \* os.SameFile

(* checkExternalLocked, and the reopen when it has closed the file.        *)
CheckExternal ==
    /\ step = "idle" /\ written < MaxLines
    /\ IF lookDue /\ FileGone
       THEN ReopenNow
       ELSE /\ size' = IF lookDue THEN BytesOf(Visible) ELSE size
            /\ UNCHANGED <<lines, path, fd, stat>>
    /\ lookDue' = FALSE
    /\ window' = (window /\ ~lookDue)
    /\ doing' = "write" /\ step' = "checked"
    /\ UNCHANGED <<tmp, buf, vacuum, vbuf, written, exposed, cut, unslid, logCount>>

NeedsSlide == size > 0 /\ size + LineBytes > LimitBytes

Slides ==
    /\ step = "checked" /\ NeedsSlide
    /\ fd' = NoInode /\ step' = "slide"
    /\ UNCHANGED <<logFile, stat, size, lookDue, doing, buf, vacuum, vbuf, logGhost, logCount>>

(* SlideNow: read the newest half, write it beside, rename.                *)
SlideReads ==
    /\ step = "slide" /\ BytesOf(Visible) > Keep
    /\ buf' = Newest(Visible)
    /\ step' = "tmp"
    /\ UNCHANGED <<logFile, sliding, doing, vacuum, vbuf, logGhost, logCount>>

SlideWrites ==
    /\ step = "tmp"
    /\ tmp' = buf /\ buf' = <<>>
    /\ step' = "rename"
    /\ UNCHANGED <<lines, path, sliding, doing, vacuum, vbuf, logGhost, logCount>>

AfterSlide == IF doing = "open" THEN "idle" ELSE "append"

SlideRenames ==
    /\ step = "rename" /\ tmp # NoInode
    /\ Reopen(Unused, tmp)
    /\ tmp' = NoInode /\ unslid' = FALSE
    /\ step' = AfterSlide
    /\ UNCHANGED <<lookDue, doing, buf, vacuum, vbuf, written, window, exposed, cut, logCount>>

(* There was nothing to slide, or it failed.                               *)
SlideDoesNothing ==
    /\ \/ /\ step = "slide" /\ BytesOf(Visible) <= Keep
          /\ UNCHANGED <<unslid, logFaults>>
       \/ step = "rename" /\ tmp = NoInode /\ unslid' = TRUE /\ UNCHANGED logFaults
       \/ step \in {"slide", "tmp", "rename"} /\ FaultHappens /\ unslid' = TRUE

SlideReopens ==
    /\ SlideDoesNothing
    /\ ReopenNow
    /\ buf' = <<>> /\ step' = AfterSlide
    /\ UNCHANGED <<tmp, lookDue, doing, vacuum, vbuf, written, window, exposed, cut, meddling>>

WritesLine ==
    /\ written' = written + 1
    /\ lines' = [lines EXCEPT ![fd] = Append(@, written + 1)]
    /\ size' = size + LineBytes

Appends ==
    /\ step = "append" \/ (step = "checked" /\ ~NeedsSlide)
    /\ \/ /\ WritesLine
          /\ exposed' = IF window \/ vacuum # "idle"
                        THEN exposed \cup {written + 1} ELSE exposed
          /\ UNCHANGED logFaults
       \/ /\ FaultHappens      \* no line, and none counted
          /\ UNCHANGED <<written, lines, size, exposed>>
    /\ step' = "idle"
    /\ UNCHANGED <<path, tmp, fd, stat, lookDue, doing, buf, vacuum, vbuf, window, cut,
                   unslid, meddling>>

(***************************************************************************)
(* The operator.                                                           *)
(***************************************************************************)
Meddles == meddling < MaxMeddling /\ meddling' = meddling + 1

VacuumReads ==
    /\ vacuum = "idle" /\ BytesOf(Visible) > Keep
    /\ Meddles
    /\ vbuf' = Newest(Visible) /\ vacuum' = "tmp"
    /\ UNCHANGED <<logFile, sliding, doing, step, buf, logGhost, logFaults>>

VacuumWrites ==
    /\ vacuum = "tmp"
    /\ tmp' = vbuf /\ vbuf' = <<>> /\ vacuum' = "rename"
    /\ UNCHANGED <<lines, path, sliding, doing, step, buf, logGhost, logCount>>

VacuumRenames ==
    /\ vacuum = "rename" /\ vacuum' = "idle"
    /\ \/ /\ tmp # NoInode
          /\ path' = Unused /\ lines' = [lines EXCEPT ![Unused] = tmp]
          /\ tmp' = NoInode /\ window' = TRUE
       \/ tmp = NoInode /\ UNCHANGED <<logFile, window>>
    /\ UNCHANGED <<sliding, doing, step, buf, vbuf, written, exposed, cut, unslid, logCount>>

Truncate ==
    /\ path # NoInode
    /\ Meddles
    /\ lines' = [lines EXCEPT ![path] = <<>>]
    /\ cut' = written /\ window' = TRUE
    /\ UNCHANGED <<path, tmp, sliding, doing, step, buf, vacuum, vbuf, written, exposed,
                   unslid, logFaults>>

RemoveFile ==
    /\ path # NoInode
    /\ Meddles
    /\ path' = NoInode
    /\ cut' = written /\ window' = TRUE
    /\ UNCHANGED <<lines, tmp, sliding, doing, step, buf, vacuum, vbuf, written, exposed,
                   unslid, logFaults>>

LogNext ==
    \/ Open \/ Close \/ SecondPasses \/ CheckExternal \/ Slides \/ SlideReads
    \/ SlideWrites \/ SlideRenames \/ SlideReopens \/ Appends
    \/ VacuumReads \/ VacuumWrites \/ VacuumRenames \/ Truncate \/ RemoveFile

LogSpec == LogInit /\ [][LogNext]_logVars

(***************************************************************************)
(* Properties                                                              *)
(***************************************************************************)
(* A Write that goes on has a file open, and the one it opened last.       *)
LogTypeOK ==
    /\ lines \in [Inode -> Seq(1 .. MaxLines)]
    /\ path \in Inode \cup {NoInode}
    /\ step \in {"idle", "checked", "append"} => fd \in Inode /\ stat = fd
    /\ step \in {"closed", "slide", "tmp", "rename"} => fd = NoInode
    /\ vacuum \in {"idle", "tmp", "rename"}
    /\ size \in Nat /\ written \in Nat /\ exposed \subseteq 1 .. written

(* At any moment the file under the name is a window of the log in order,  *)
(* up to its last line (logfile.go:224, "whoever reads it at any moment    *)
(* sees a whole file").  A line is missing from it only if it was written  *)
(* while a vacuum ran, or after somebody changed the file and before the   *)
(* writer's next look at the name, a second at most (line 19).             *)
NoSilentGap ==
    /\ \A i \in 1 .. Len(Visible) - 1 : Visible[i] < Visible[i + 1]
    /\ \A k \in 1 .. written :
          k > (IF Visible = <<>> THEN cut ELSE Visible[1])
              => k \in exposed \/ \E i \in 1 .. Len(Visible) : Visible[i] = k

(* The file does not pass its limit, whatever an operator does to it       *)
(* beside, unless the last slide failed ("rather over the limit than a     *)
(* line lost", line 61).                                                   *)
LogBounded == unslid \/ BytesOf(Visible) <= LimitBytes

(* The log file is a window of the newest lines: without holes and bounded. *)
LogIsWindow == NoSilentGap /\ LogBounded

=============================================================================
