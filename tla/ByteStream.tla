----------------------------- MODULE ByteStream ------------------------------
(***************************************************************************)
(* Lines on a TCP connection: each ends in CR LF, and they arrive cut into *)
(* pieces anywhere.  A byte of text is <<line, place in it>>, so that one  *)
(* can tell whose bytes a reader has taken together.                       *)
(***************************************************************************)
EXTENDS Integers, SequencesExt

CR == <<0, 1>>
LF == <<0, 2>>

EndOfLine == <<CR, LF>>

\* The text of line k, of len bytes.
Text(k, len) == [j \in 1..len |-> <<k, j>>]

HasLF(b) == Contains(b, LF)

\* std::getline(): up to the LF, which is taken and not returned, or up to the end.
Line(b)      == IF HasLF(b) THEN SubSeq(b, 1, SelectInSeq(b, LAMBDA c : c = LF) - 1) ELSE b
AfterLine(b) == SubSeq(b, Len(Line(b)) + 2, Len(b))

\* What came after the last LF.
Unfinished(b) == SubSeq(b, SelectLastInSeq(b, LAMBDA c : c = LF) + 1, Len(b))

\* streambuf::consume(): n bytes, or all if there are fewer.
Consume(b, n) == SubSeq(b, n + 1, Len(b))

\* A piece that arrives: the first n bytes on the wire.
Piece(wire, n)    == SubSeq(wire, 1, n)
AfterPiece(wire, n) == SubSeq(wire, n + 1, Len(wire))
==============================================================================
