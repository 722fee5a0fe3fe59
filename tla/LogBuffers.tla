------------------------------ MODULE LogBuffers ------------------------------
(***************************************************************************)
(* What the agent remembers of xray's output: the newest bytes of the run  *)
(* (ringBuffer, errors.go), of which it makes the reason of a failure, and *)
(* the newest lines of all runs (logTail, logtail.go), which it sends the  *)
(* master.  Both are fed with whatever pieces the pipe delivers, whose     *)
(* ends have nothing to do with the ends of lines.                         *)
(*                                                                         *)
(* Abstracted: a byte of text is its place in the output, so that no two   *)
(* are alike, and a newline is NL; a carriage return before it is text.    *)
(* The seed from the file at the start of a process is left out.           *)
(***************************************************************************)
EXTENDS Naturals, Sequences, SequencesExt

CONSTANTS
    RingBytes,                                 \* stderrTailBytes
    MemTailLines, MemTailBytes, MemTailLine,   \* memTailLines, memTailMaxBytes, ...
    MaxOutput, MaxPiece,                       \* bounds
    NL, Mark                                   \* a newline; the ellipsis of a cut line

ASSUME BuffersAssumption ==
    /\ {RingBytes, MemTailLines, MemTailBytes, MemTailLine} \subseteq Nat \ {0}
    /\ MaxOutput \in Nat /\ MaxPiece \in Nat
    /\ {NL, Mark} \cap Nat = {}

VARIABLES
    output,         \* all that xray has written
    runAt,          \* how much of it earlier runs have (history)
    ring,           \* buf, pos, total
    shown,          \* logTail.lines
    shownBytes,     \* logTail.bytes
    partial         \* logTail.partial

bufferVars == <<output, runAt, ring, shown, shownBytes, partial>>

EmptyRing == [buf |-> [i \in 0 .. RingBytes - 1 |-> NL], pos |-> 0, total |-> 0]

BuffersInit ==
    /\ output = <<>> /\ runAt = 0
    /\ ring = EmptyRing
    /\ shown = <<>> /\ shownBytes = 0 /\ partial = <<>>

AtMost(a, b) == IF a < b THEN a ELSE b
NewestOf(s, n) == SubSeq(s, Len(s) - AtMost(n, Len(s)) + 1, Len(s))

(***************************************************************************)
(* ringBuffer.Write and String                                             *)
(***************************************************************************)
RingWrite(r, p) ==
    IF Len(p) >= RingBytes
    THEN [buf   |-> [i \in 0 .. RingBytes - 1 |-> NewestOf(p, RingBytes)[i + 1]],
          pos   |-> 0,
          total |-> RingBytes]
    ELSE [buf   |-> [i \in 0 .. RingBytes - 1 |->
                       LET d == (i + RingBytes - r.pos) % RingBytes
                       IN  IF d < Len(p) THEN p[d + 1] ELSE r.buf[i]],
          pos   |-> (r.pos + Len(p)) % RingBytes,
          total |-> r.total + Len(p)]

RingString(r) ==
    IF r.total < RingBytes
    THEN [i \in 1 .. r.pos |-> r.buf[i - 1]]
    ELSE [i \in 1 .. RingBytes |-> r.buf[(r.pos + i - 1) % RingBytes]]

(***************************************************************************)
(* logTail.Write                                                           *)
(***************************************************************************)
Shorten(line) ==
    IF Len(line) > MemTailLine THEN <<Mark>> \o NewestOf(line, MemTailLine) ELSE line

SizeOf(ls) == FoldLeft(LAMBDA n, line : n + Len(line), 0, ls)

(* pushLocked: the oldest lines go until both limits hold.                 *)
DropFirst(all, n) == SubSeq(all, n + 1, Len(all))
Fits(ls) == Len(ls) <= MemTailLines /\ (SizeOf(ls) <= MemTailBytes \/ Len(ls) = 1)

PushLocked(ls, line) ==
    LET all == Append(ls, Shorten(line))
        drop == CHOOSE n \in 0 .. Len(all) - 1 :
                    Fits(DropFirst(all, n)) /\ \A m \in 0 .. n - 1 : ~Fits(DropFirst(all, m))
    IN  DropFirst(all, drop)

(* A newline ends the line that has come together so far.                  *)
AddByte(t, c) ==
    IF c = NL THEN [shown |-> PushLocked(t.shown, t.partial), partial |-> <<>>]
              ELSE [t EXCEPT !.partial = Append(@, c)]

Fed(t, p) ==
    LET after[n \in 0 .. Len(p)] == IF n = 0 THEN t ELSE AddByte(after[n - 1], p[n])
    IN  after[Len(p)]

(* mutant: the rest of the last piece is forgotten                         *)
CarriedLines == [shown |-> shown, partial |-> <<>>]

Carried == [shown |-> shown, partial |-> partial]

(* A piece that ends no line leaves no more than the limit of a line.      *)
TailWrite(p) ==
    LET t == Fed(Carried, p)
        ends == \E i \in 1 .. Len(p) : p[i] = NL
    IN  /\ partial' = IF ends THEN t.partial ELSE NewestOf(t.partial, MemTailLine)
        /\ shown' = t.shown
        /\ shownBytes' = SizeOf(shown')

(* Tail(memTailLines): the unfinished line counts as the last one.         *)
Tail500 ==
    NewestOf(IF partial = <<>> THEN shown ELSE Append(shown, partial), MemTailLines)

(***************************************************************************)
(* A piece of output arrives; xray is started again.                       *)
(***************************************************************************)
Piece(nls) ==     \* a piece whose newlines are at the given places
    [i \in 1 .. Len(nls) |-> IF nls[i] THEN NL ELSE Len(output) + i]

PieceArrives ==
    \E n \in 1 .. MaxPiece :
        /\ Len(output) + n <= MaxOutput
        /\ \E nls \in [1 .. n -> BOOLEAN] :
              LET p == Piece(nls)
              IN  /\ output' = output \o p
                  /\ ring' = RingWrite(ring, p)
                  /\ TailWrite(p)
        /\ UNCHANGED runAt

NextRun ==
    /\ Len(output) > runAt
    /\ runAt' = Len(output)
    /\ ring' = EmptyRing
    /\ UNCHANGED <<output, shown, shownBytes, partial>>

BuffersNext == PieceArrives \/ NextRun

BuffersSpec == BuffersInit /\ [][BuffersNext]_bufferVars

(***************************************************************************)
(* Properties                                                              *)
(***************************************************************************)
(* logTail stays within its limits (logtail.go:12-14), except for one line *)
(* alone, and no line in it is unfinished.                                 *)
BuffersTypeOK ==
    /\ Len(output) <= MaxOutput /\ runAt <= Len(output)
    /\ ring.pos \in 0 .. RingBytes - 1 /\ ring.total \in Nat
    /\ Len(shown) <= MemTailLines
    /\ shownBytes = SizeOf(shown) /\ (shownBytes <= MemTailBytes \/ Len(shown) = 1)
    /\ \A i \in 1 .. Len(partial) : partial[i] # NL

(* However the output was cut into pieces, the ring has the newest bytes   *)
(* of this run, in order and as many as there are room and output for      *)
(* (errors.go:44-46: the reason of a failure is read from it).             *)
RingIsNewest ==
    RingString(ring) = NewestOf(SubSeq(output, runAt + 1, Len(output)), RingBytes)

(* The lines of a text, as a reader counts them, and what follows them.    *)
EndLine(t, c) ==
    IF c = NL THEN [lines |-> Append(t.lines, t.rest), rest |-> <<>>]
              ELSE [t EXCEPT !.rest = Append(@, c)]

Lines(s) ==
    LET upTo[n \in 0 .. Len(s)] ==
            IF n = 0 THEN [lines |-> <<>>, rest |-> <<>>] ELSE EndLine(upTo[n - 1], s[n])
    IN  upTo[Len(s)]

(* What is kept of a line: its end, no less than the limit of a line.      *)
Unmarked(kept) == IF kept # <<>> /\ kept[1] = Mark THEN Tail(kept) ELSE kept
IsEndOf(text, line) ==
    /\ text = NewestOf(line, Len(text))
    /\ Len(text) >= AtMost(Len(line), MemTailLine)

(* The last of ls, in order and none left out between them.                *)
AreLastOf(kept, ls) ==
    /\ Len(kept) <= Len(ls)
    /\ ls # <<>> => kept # <<>>
    /\ \A i \in 1 .. Len(kept) : IsEndOf(Unmarked(kept[i]), ls[Len(ls) - Len(kept) + i])

(* However the output was cut into pieces, what the master is sent are the *)
(* last lines of it, in order and none left out between them, the last one *)
(* even if it has not ended; of a line longer than the limit, its end.     *)
TailIsNewest ==
    LET text == Lines(output)
    IN  AreLastOf(Tail500, IF text.rest = <<>> THEN text.lines
                           ELSE Append(text.lines, text.rest))

(* Both buffers hold the newest of the output, however it was cut (the     *)
(* reason of a failure and the log the master is sent are read from them). *)
NewestOutput == RingIsNewest /\ TailIsNewest

=============================================================================
