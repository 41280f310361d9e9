----------------------------- MODULE WialonInput -----------------------------
(***************************************************************************)
(* handle_read() of the Wialon translator up to parse_string(): how the    *)
(* messages that are parsed are taken from the byte stream of a device.    *)
(* getline() takes a line from sbuf_, and consume() then drops as many     *)
(* bytes again, which belong to whatever has arrived behind it.            *)
(***************************************************************************)
EXTENDS ByteStream

CONSTANTS
  Breaks,         \* the lines a device may send: at which place of the text of each
                  \* a bare LF stands, 0 for none
  Lengths,        \* of their text, in bytes
  MaxLines        \* bound on the lines sent

ASSUME InputAssumption ==
  Breaks \subseteq Nat /\ Lengths \subseteq Nat /\ MaxLines \in Nat

VARIABLES
  lockStep,       \* the device waits until a line was handled before the next one
  breaks,         \* breaks[k]: where line k has a bare LF
  pc,             \* "reading", "looping" in handle_read, "ended" without another
                  \* read, or "crashed"
  wire,           \* the bytes on the way from the device
  sbuf,           \* sbuf_
  msg,            \* msg
  sent,           \* the lines sent, as they are
  handled         \* the messages handed to parse_string

vars == <<lockStep, breaks, pc, wire, sbuf, msg, sent, handled>>

\* handle_start(): the first do_read_until.
Init ==
  /\ lockStep \in BOOLEAN
  /\ breaks = {} /\ pc = "reading"
  /\ wire = <<>> /\ sbuf = <<>> /\ msg = <<>>
  /\ sent = <<>> /\ handled = <<>>

Send(len, b) ==
  /\ Len(sent) < MaxLines /\ b <= len
  /\ lockStep => Len(handled) = Len(sent) /\ pc = "reading"
  /\ LET k == Len(sent) + 1
         text == [Text(k, len) EXCEPT ![b] = LF]
     IN /\ sent' = Append(sent, IF b = 0 THEN Text(k, len) ELSE text)
        /\ breaks' = IF b = 0 THEN breaks ELSE breaks \cup {k}
  /\ wire' = wire \o Last(sent') \o EndOfLine
  /\ UNCHANGED <<lockStep, pc, sbuf, msg, handled>>

-----------------------------------------------------------------------------
\* Mutant of Delimited: any bytes complete the read.
DelimitedSoon(b) == b # <<>>

\* A line is complete in sbuf_: do_read_until is done, and handle_read runs.
Delimited(b) == \E i \in 1..(Len(b) - 1) : SubSeq(b, i, i + 1) = EndOfLine

\* do_read_until looks at what is there, and waits for pieces until it is done.
Arrive(n) ==
  /\ pc = "reading" /\ ~Delimited(sbuf) /\ n \in 1..Len(wire)
  /\ sbuf' = sbuf \o Piece(wire, n) /\ wire' = AfterPiece(wire, n)
  /\ UNCHANGED <<lockStep, breaks, pc, msg, sent, handled>>

HandleRead ==
  /\ pc = "reading" /\ Delimited(sbuf)
  /\ pc' = "looping" /\ msg' = <<>>
  /\ UNCHANGED <<lockStep, breaks, wire, sbuf, sent, handled>>

\* "Happend something bad": the function returns and nothing is read any more.
NothingLeft ==
  /\ pc = "looping" /\ sbuf = <<>>
  /\ pc' = "ended"
  /\ UNCHANGED <<lockStep, breaks, wire, sbuf, msg, sent, handled>>

\* getline() and consume(): the line, and as many bytes behind it.
AfterGetLine(b) == Consume(AfterLine(b), Len(Line(b)) + 1)

\* Mutant of EndsMessage: only the end of the buffer ends a message.
EndsMessageLate(b) == AfterLine(b) = <<>>

\* The byte before the end of tmp.  Of an empty tmp it is outside of the string:
\* not a CR, in a build that does not check iterators.
EndsMessage(b) == Line(b) # <<>> /\ Last(Line(b)) = CR

\* A message is complete; parse_string, and the next do_read_until.
Message ==
  /\ pc = "looping" /\ sbuf # <<>> /\ EndsMessage(sbuf)
  /\ handled' = Append(handled, msg \o Front(Line(sbuf)))
  /\ sbuf' = AfterGetLine(sbuf)
  /\ pc' = "reading"
  /\ UNCHANGED <<lockStep, breaks, wire, msg, sent>>

\* Part of a message: the LF that getline() has taken is put back into it.
Part ==
  /\ pc = "looping" /\ sbuf # <<>> /\ ~EndsMessage(sbuf)
  /\ msg' = msg \o Line(sbuf) \o <<LF>>
  /\ sbuf' = AfterGetLine(sbuf)
  /\ UNCHANGED <<lockStep, breaks, pc, wire, sent, handled>>

\* A build that checks iterators ends here.
IteratorChecked ==
  /\ pc = "looping" /\ sbuf # <<>> /\ Line(sbuf) = <<>>
  /\ pc' = "crashed"
  /\ UNCHANGED <<lockStep, breaks, wire, sbuf, msg, sent, handled>>

-----------------------------------------------------------------------------
Loop == NothingLeft \/ Message \/ Part \/ IteratorChecked

Next ==
  \/ \E len \in Lengths, b \in Breaks : Send(len, b)
  \/ \E n \in 1..Len(wire) : Arrive(n)
  \/ HandleRead \/ Loop

Spec == Init /\ [][Next]_vars

\* What was sent arrives, and the handler runs.
FairSpec ==
  /\ Spec
  /\ WF_vars(\E n \in 1..Len(wire) : Arrive(n))
  /\ WF_vars(HandleRead)
  /\ WF_vars(Loop)

-----------------------------------------------------------------------------
WellFormed == breaks = {}

(* A device that waits for each reply, and sends no bare LF, is heard: what  *)
(* is parsed is what it sent, line by line, however the stream was cut, and  *)
(* the session goes on (wialon_plugin.cpp:114-134).                          *)
LinesKept ==
  lockStep /\ WellFormed => IsPrefix(handled, sent) /\ pc \notin {"ended", "crashed"}

\* A message that is the end of a line, but for bare LFs in front, which line 132 puts back.
EndsLine(message, text) ==
  \E m \in 0..Len(message) :
    /\ \A j \in 1..m : message[j] = LF
    /\ IsSuffix(SubSeq(message, m + 1, Len(message)), text)

(* A device that does not wait loses bytes and whole lines, but no message   *)
(* is put together from two lines, no line is parsed twice, and they keep    *)
(* their order: each message is the end of one line, and that line is after  *)
(* the line of the message before.  What line 123 drops is the front of      *)
(* lines, up to any byte (wialon_plugin.cpp:114-134).                        *)
OneLine ==
  WellFormed =>
    \E lineOf \in [1..Len(handled) -> 1..Len(sent)] :
      /\ \A i, j \in 1..Len(handled) : i < j => lineOf[i] < lineOf[j]
      /\ \A i \in 1..Len(handled) : EndsLine(handled[i], sent[lineOf[i]])

(* Every line of a device that waits, without a bare LF, is parsed: no read  *)
(* waits for more than the device is going to send (lines 114-118, 143).     *)
Heard ==
  (lockStep /\ Len(sent) > Len(handled)) ~> (Len(handled) = Len(sent) \/ ~WellFormed)
==============================================================================
