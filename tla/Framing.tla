------------------------------ MODULE Framing ------------------------------
(***************************************************************************)
(* The preprocessors that cut a stream of bytes into messages: lines       *)
(* (src/preprocessor/lines.rs), length-prefix and textual-length-prefix    *)
(* (src/preprocessor.rs).                                                  *)
(*                                                                         *)
(* A stream is a preprocessor and what its peer sends, wire.  The bytes    *)
(* arrive in packets cut anywhere.  A byte is a pair: a payload byte       *)
(* carries its place on the wire, so that no two are alike; a byte of a    *)
(* length carries the length it belongs to.  Payload may be white space.   *)
(***************************************************************************)
EXTENDS Integers, Sequences, FiniteSets, SequencesExt

CONSTANTS
    Wires,        \* the streams: [kind, wire], for lines with max and
                    \* buffered, else with frames: their payloads and ends
    HeaderLen       \* bytes of a binary length, 8 in the code

VARIABLES
    stream,         \* the stream
    fed,            \* how many of its bytes have arrived
    pp,             \* the preprocessor: its buffer and the length it waits for
    out,            \* the messages it produced
    failed          \* a call returned an error

streamVars == <<stream, fed, pp, out, failed>>

Unknown == -1       \* len is None

IsSpace(byte) == byte[1] = "space"
IsLength(byte) == byte[1] = "length"

\* What a call makes of its data.
Done(buffer, len, msgs) == [buffer |-> buffer, len |-> len, msgs |-> msgs, ok |-> TRUE]
Failed(buffer, len) == [buffer |-> buffer, len |-> len, msgs |-> <<>>, ok |-> FALSE]

-----------------------------------------------------------------------------
(* lines: the separator is the white space byte.                           *)

\* data.split(): always one piece more than there are separators.
Split(data) ==
    FoldLeft(LAMBDA pieces, b :
                 IF IsSpace(b) THEN Append(pieces, <<>>)
                 ELSE Append(Front(pieces), Append(Last(pieces), b)),
             <<<<>>>>, data)

\* One byte more than may be.
FitsOneMore(line) == Len(line) <= stream.max + 1
Fits(line) == Len(line) <= stream.max

\* is_valid_line: no limit at 0.
Valid(line) == stream.max = 0 \/ Len(line) <= stream.max

\* complete_fragment without what was saved.
CompleteNothing(buffer, piece) == piece
\* complete_fragment
Complete(buffer, piece) == buffer \o piece

\* The saved fragment stays when its line turns out too long.
Uncleared(buffer) == buffer
\* buffer.clear()
Cleared(buffer) == <<>>

Lines(buffer, data) ==
    LET pieces == Split(data)
        begun == Complete(buffer, Head(pieces))
        first == IF buffer = <<>> THEN SelectSeq(<<Head(pieces)>>, Valid) ELSE <<begun>>
        others == SelectSeq(Tail(Front(pieces)), Valid)
        rest == Last(pieces)
    IN  IF ~stream.buffered
        THEN Done(<<>>, Unknown, SelectSeq(pieces, Valid))
        ELSE IF Len(pieces) = 1
        THEN IF Fits(buffer \o rest) THEN Done(buffer \o rest, Unknown, <<>>)
             ELSE Failed(Cleared(buffer), Unknown)
        ELSE IF buffer # <<>> /\ ~Fits(begun) THEN Failed(Cleared(buffer), Unknown)
        ELSE IF ~Fits(rest) THEN Failed(<<>>, Unknown)
        ELSE Done(rest, Unknown, first \o others)

-----------------------------------------------------------------------------
(* The two that read a length first                                        *)

\* Half of the length is there, with one byte more.
HasHalfLength(buffer) == Len(buffer) > HeaderLen \div 2
\* The length is there, with at least one byte behind it.
HasLength(buffer) == Len(buffer) > HeaderLen

RECURSIVE LengthPrefix(_, _, _)
LengthPrefix(buffer, len, msgs) ==
    IF len # Unknown /\ Len(buffer) < len THEN Done(buffer, len, msgs)
    ELSE LET got == IF len = Unknown THEN msgs ELSE Append(msgs, SubSeq(buffer, 1, len))
             left == IF len = Unknown THEN buffer ELSE SubSeq(buffer, len + 1, Len(buffer))
         IN  IF HasLength(left)
             THEN LengthPrefix(SubSeq(left, HeaderLen + 1, Len(left)), left[1][2], got)
             ELSE Done(left, Unknown, got)

\* parse(): a number is made of bytes of a length.
Parses(token) == token # <<>> /\ \A i \in DOMAIN token : IsLength(token[i])

RECURSIVE TextualLength(_, _, _)
TextualLength(buffer, len, msgs) ==
    IF len # Unknown /\ Len(buffer) < len THEN Done(buffer, len, msgs)
    ELSE LET got == IF len = Unknown THEN msgs ELSE Append(msgs, SubSeq(buffer, 1, len))
             left == IF len = Unknown THEN buffer ELSE SubSeq(buffer, len + 1, Len(buffer))
             at == SelectInSeq(left, IsSpace)
             token == SubSeq(left, 1, at - 1)
         IN  IF at = 0 THEN Done(left, Unknown, got)
             ELSE IF Parses(token)
             THEN TextualLength(SubSeq(left, at + 1, Len(left)), token[1][2], got)
             ELSE Failed(SubSeq(left, at, Len(left)), Unknown)

-----------------------------------------------------------------------------
(* Steps                                                                   *)

StreamInit ==
    /\ stream \in Wires
    /\ fed = 0
    /\ pp = [buffer |-> <<>>, len |-> Unknown]
    /\ out = <<>>
    /\ failed = FALSE

Process(data) ==
    CASE stream.kind = "lines"   -> Lines(pp.buffer, data)
      [] stream.kind = "length"  -> LengthPrefix(pp.buffer \o data, pp.len, <<>>)
      [] stream.kind = "textual" -> TextualLength(pp.buffer \o data, pp.len, <<>>)

\* preprocess(): a packet of the next n bytes, at least one.
Feed(n) ==
    LET r == Process(SubSeq(stream.wire, fed + 1, fed + n))
    IN  /\ fed + n <= Len(stream.wire)
        /\ fed' = fed + n
        /\ pp' = [buffer |-> r.buffer, len |-> r.len]
        /\ out' = out \o r.msgs
        /\ failed' = (failed \/ ~r.ok)
        /\ UNCHANGED stream

StreamNext == \E n \in 1 .. Len(stream.wire) : Feed(n)

-----------------------------------------------------------------------------
(* Properties                                                              *)

Arrived == SubSeq(stream.wire, 1, fed)

\* Type correctness: what is kept for a line is no longer than a line may be
\* (Lines::save_fragment, lines.rs:64-86).
StreamTypeOK ==
    /\ fed \in 0 .. Len(stream.wire)
    /\ pp.len \in Nat \union {Unknown}
    /\ stream.kind = "lines" => Len(pp.buffer) <= stream.max
    /\ failed \in BOOLEAN

\* However the bytes are cut into packets, as long as no call failed the lines
\* are the pieces between the separators that are not too long, and the rest
\* is kept (Lines::process, lines.rs:120-168).
LinesExact ==
    (stream.kind = "lines" /\ stream.buffered /\ ~failed) =>
        LET pieces == Split(Arrived)
        IN  /\ out = SelectSeq(Front(pieces), LAMBDA l : Len(l) <= stream.max)
            /\ pp.buffer = Last(pieces)

\* Also after a call failed no message is made of two lines or stops short of
\* the end of its line: it is the end of one, all of it unless the beginning
\* was too long and thrown away (lines.rs:75-85).
NoLineJoined ==
    (stream.kind = "lines" /\ stream.buffered) =>
        \A m \in Range(out) : m # <<>> =>
            /\ \A i \in DOMAIN m : m[i][2] = m[1][2] + i - 1
            /\ IsSpace(stream.wire[Last(m)[2] + 1])

\* However the bytes are cut into packets, the messages are the frames that
\* have arrived, in order; only an empty frame at the very end may be held
\* back until another byte comes (preprocessor.rs:346-430).
FramesExact ==
    stream.kind \in {"length", "textual"} =>
        LET whole == SelectSeq(stream.frames, LAMBDA f : f.end <= fed)
            sure  == SelectSeq(stream.frames,
                               LAMBDA f : f.end <= fed - (IF f.payload = <<>> THEN 1 ELSE 0))
            msgs(fs) == [i \in DOMAIN fs |-> fs[i].payload]
        IN  IF failed THEN IsPrefix(out, msgs(whole))
            ELSE out \in {msgs(whole), msgs(sure)}

\* However the bytes are cut into packets, the messages are the ones that were
\* sent (lines.rs:120-168, preprocessor.rs:346-430).
MessagesExact == StreamTypeOK /\ LinesExact /\ NoLineJoined /\ FramesExact
=============================================================================
