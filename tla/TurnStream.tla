----------------------------- MODULE TurnStream -----------------------------
(***************************************************************************)
(* What the daemon keeps of a child's output: the line splitter of         *)
(* internal/engine/stream.go (turnStats.Write, on stdout) and the bounded  *)
(* buffer of engine.go (on stderr).  The two share nothing, so one input,  *)
(* cut into chunks anywhere, drives both.                                  *)
(*                                                                         *)
(* A byte is a newline or not; a line of at most LineCap bytes is parsed   *)
(* (consumeLine), a longer one is dropped.  A step is one turn of Write's  *)
(* loop, and no other Write begins before p is used up (s.mu).             *)
(***************************************************************************)
EXTENDS Naturals, Sequences, FiniteSets, SequencesExt

CONSTANTS
    LineCap,     \* bytes of a buffered line
    StderrCap,   \* bytes of stderr kept
    MaxChunk,    \* bound: bytes of one Write
    MaxInput     \* bound: bytes written in all

ASSUME StreamAssumption == {LineCap, StderrCap, MaxChunk, MaxInput} \subseteq Nat

NL == "nl"
Byte == {"x", "y", NL}

VARIABLES
    p,                        \* what is left of the chunk being written
    buf, discarding, lines,   \* turnStats: partial line, resync flag; lines parsed
    kept, truncated,          \* boundedBuffer
    input                     \* history: every byte written

streamVars == <<p, buf, discarding, lines, kept, truncated, input>>

\* A child cannot grow the daemon's memory with its output.
StreamTypeOK ==
    /\ p \in Seq(Byte)
    /\ buf \in Seq(Byte) /\ Len(buf) <= LineCap /\ discarding \in BOOLEAN
    /\ lines \in Seq(Seq(Byte))
    /\ kept \in Seq(Byte) /\ Len(kept) <= StderrCap /\ truncated \in BOOLEAN
    /\ input \in Seq(Byte)

StreamInit ==
    /\ p = <<>>
    /\ buf = <<>> /\ discarding = FALSE /\ lines = <<>>
    /\ kept = <<>> /\ truncated = FALSE
    /\ input = <<>>

\* Seeded fault: a write that finds the buffer exactly full is not counted
\* as a truncation.
BoundedWrite_Fault(chunk) ==
    LET room == StderrCap - Len(kept)
        fits == IF Len(chunk) <= room THEN Len(chunk) ELSE room IN
    /\ kept' = kept \o SubSeq(chunk, 1, fits)
    /\ truncated' = (truncated \/ (room > 0 /\ Len(chunk) > room))

\* boundedBuffer.Write: keep what fits, remember whether anything did not.
BoundedWrite(chunk) ==
    LET room == StderrCap - Len(kept)
        fits == IF Len(chunk) <= room THEN Len(chunk) ELSE room IN
    /\ kept' = kept \o SubSeq(chunk, 1, fits)
    /\ truncated' = (truncated \/ Len(chunk) > room)

Write(chunk) ==
    /\ p = <<>>
    /\ Len(input) + Len(chunk) <= MaxInput
    /\ p' = chunk
    /\ BoundedWrite(chunk)
    /\ input' = input \o chunk
    /\ UNCHANGED <<buf, discarding, lines>>

\* nl is bytes.IndexByte(p, '\n'), counted from 1.
FirstNewline(nl) ==
    /\ nl \in 1..Len(p) /\ p[nl] = NL
    /\ \A i \in 1..nl - 1 : p[i] # NL

\* Seeded fault: the cap is tested against the chunk, not the partial line.
KeepPartial_Fault ==
    /\ p # <<>> /\ \A i \in 1..Len(p) : p[i] # NL
    /\ p' = <<>>
    /\ \/ discarding /\ UNCHANGED <<buf, discarding>>
       \/ ~discarding /\ Len(p) > LineCap /\ discarding' = TRUE /\ buf' = <<>>
       \/ ~discarding /\ Len(p) <= LineCap /\ buf' = buf \o p /\ UNCHANGED discarding
    /\ UNCHANGED <<lines, kept, truncated, input>>

\* No newline is left: the rest is a partial line, or more of an overlong one.
KeepPartial ==
    /\ p # <<>> /\ \A i \in 1..Len(p) : p[i] # NL
    /\ p' = <<>>
    /\ \/ discarding /\ UNCHANGED <<buf, discarding>>
       \/ ~discarding /\ Len(buf) + Len(p) > LineCap /\ discarding' = TRUE /\ buf' = <<>>
       \/ ~discarding /\ Len(buf) + Len(p) <= LineCap /\ buf' = buf \o p /\ UNCHANGED discarding
    /\ UNCHANGED <<lines, kept, truncated, input>>

\* Seeded fault: the newline that ends an overlong line is not noticed when
\* the line's head was already dropped with an earlier chunk.
EndLine_Fault(nl) ==
    /\ FirstNewline(nl)
    /\ p' = SubSeq(p, nl + 1, Len(p))
    /\ buf' = <<>>
    /\ \/ Len(buf) + nl - 1 > LineCap /\ UNCHANGED lines
       \/ /\ Len(buf) + nl - 1 <= LineCap
          /\ lines' = Append(lines, buf \o SubSeq(p, 1, nl - 1))
    /\ discarding' = FALSE
    /\ UNCHANGED <<kept, truncated, input>>

\* A newline ends a line: an overlong one whose head is already gone, an
\* overlong one, or one that is parsed.
EndLine(nl) ==
    /\ FirstNewline(nl)
    /\ p' = SubSeq(p, nl + 1, Len(p))
    /\ \/ discarding /\ discarding' = FALSE /\ UNCHANGED <<buf, lines>>
       \/ /\ ~discarding /\ Len(buf) + nl - 1 > LineCap
          /\ buf' = <<>> /\ UNCHANGED <<discarding, lines>>
       \/ /\ ~discarding /\ Len(buf) + nl - 1 <= LineCap
          /\ lines' = Append(lines, buf \o SubSeq(p, 1, nl - 1))
          /\ buf' = <<>> /\ UNCHANGED discarding
    /\ UNCHANGED <<kept, truncated, input>>

StreamNext ==
    \/ \E n \in 1..MaxChunk : \E chunk \in [1..n -> Byte] : Write(chunk)
    \/ KeepPartial
    \/ \E nl \in 1..Len(p) : EndLine(nl)

StreamSpec == StreamInit /\ [][StreamNext]_streamVars

-----------------------------------------------------------------------------
(* Properties *)

\* The reference sees the input whole: what the splitter has read of it, and
\* the lines in that, from after byte a up to a newline at b.
Consumed == Len(input) - Len(p)

Unbroken(a, b) == (a = 0 \/ input[a] = NL) /\ \A k \in a + 1 .. b - 1 : input[k] # NL

FittingEnds ==
    {b \in 1..Consumed : input[b] = NL /\ \E a \in 0..b - 1 : Unbroken(a, b) /\ b - a - 1 <= LineCap}

Rank(b) == Cardinality({c \in FittingEnds : c <= b})

\* Every line that fits is parsed, whole, once and in order; an overlong one
\* costs exactly itself.
LinesAreWhole ==
    /\ Len(lines) = Cardinality(FittingEnds)
    /\ \A b \in FittingEnds : \A a \in 0..b - 1 :
         Unbroken(a, b) => lines[Rank(b)] = SubSeq(input, a + 1, b - 1)

\* What is buffered is the line under way, and it is discarded exactly when
\* it is too long already.
PartialFrom(a) ==
    /\ Unbroken(a, Consumed + 1)
    /\ discarding <=> Consumed - a > LineCap
    /\ buf = IF discarding THEN <<>> ELSE SubSeq(input, a + 1, Consumed)

PartialIsTail == \E a \in 0..Consumed : PartialFrom(a)

\* Where the chunks were cut never matters (turnStats.Write and its resync):
\* at every turn of the loop what is parsed and what is buffered is a
\* function of the bytes read so far.
ChunksDoNotMatter == LinesAreWhole /\ PartialIsTail

\* The diagnostic is the head of what was written, and it says so exactly
\* when something is missing.
StderrIsHonest ==
    /\ IsPrefix(kept, input)
    /\ truncated <=> Len(kept) < Len(input)

=============================================================================
