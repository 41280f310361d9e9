----------------------------- MODULE RedisReply ------------------------------
(***************************************************************************)
(* handle_read() of redis_connection: the replies to a batch of requests   *)
(* are taken from in_buf_ line by line and matched with the callbacks by   *)
(* position.  The pieces of the stream, and what is left in in_buf_ from   *)
(* one read, one batch and one connection to the next, decide whose        *)
(* callback is called.                                                     *)
(*                                                                         *)
(* One cycle runs at a time (RedisPipeline), so requests that are asked    *)
(* meanwhile only wait for the next batch and are left out here.           *)
(***************************************************************************)
EXTENDS ByteStream

CONSTANTS
  ReplyLengths,   \* of a reply, in bytes without CR and LF: ":1" has 2
  MaxBatch,       \* bound on the requests of a batch
  MaxRequests     \* bound on the requests

ASSUME ReplyAssumption ==
  /\ ReplyLengths \subseteq Nat \ {0, 1} /\ MaxBatch \in Nat \ {0} /\ MaxRequests \in Nat

Requests == 1..MaxRequests

VARIABLES
  step,           \* "idle": no batch; "reading"; "parsing": in the loop; "crashed"
  callbacks,      \* out_tmp_buf_->callbacks, one per request; i is their number
  inBuf,          \* in_buf_
  left,           \* left, an unsigned counter: below 0 it is a huge number
  s, eof,         \* s, and whether it has reached the end of in_buf_
  asked,          \* the requests that were written
  toServer,       \* those the server has not replied to
  fromServer,     \* the bytes on the way from the server
  replies,        \* the server's replies: "none", "good", "error"
  answers,        \* what each callback was called with: "none", "ok", "failed"
  wraps,          \* the build: an address beyond the buffer wraps to one in it
  clean           \* history: the pieces were ones that handle_read can take

batch     == <<callbacks, asked>>
parse     == <<left, s, eof>>
stream    == <<toServer, fromServer, replies>>
replyVars == <<step, batch, inBuf, parse, stream, answers, wraps, clean>>

ReplyInit ==
  /\ step = "idle" /\ callbacks = <<>> /\ inBuf = <<>>
  /\ left = 0 /\ s = <<>> /\ eof = FALSE
  /\ asked = 0 /\ toServer = <<>> /\ fromServer = <<>>
  /\ replies = [r \in Requests |-> "none"]
  /\ answers = [r \in Requests |-> "none"]
  /\ wraps \in BOOLEAN /\ clean = TRUE

\* A batch was written, handle_write() reads.
Write(n) ==
  /\ step = "idle" /\ asked + n <= MaxRequests
  /\ callbacks' = [j \in 1..n |-> asked + j]
  /\ toServer' = toServer \o callbacks'
  /\ asked' = asked + n
  /\ step' = "reading"
  /\ UNCHANGED <<inBuf, parse, fromServer, replies, answers, wraps, clean>>

\* Redis replies in the order of the requests, with ":" or "+PONG", or with "-".
Reply(kind, len) ==
  /\ toServer # <<>>
  /\ fromServer' = fromServer \o Text(Head(toServer), len) \o EndOfLine
  /\ replies' = [replies EXCEPT ![Head(toServer)] = kind]
  /\ toServer' = Tail(toServer)
  /\ UNCHANGED <<step, batch, inBuf, parse, answers, wraps, clean>>

-----------------------------------------------------------------------------
(* handle_read                                                               *)

\* Mutant of MinLine: the shortest reply, ":1", is not looked at.
MinLineTooLong == 5

MinLine == 4

\* The loop takes an unfinished line of MinLine bytes too.  That is undone by
\* consume() with a huge number, if addresses wrap, unless the line has its CR.
SafeCut(b) ==
  LET u == Unfinished(b) IN Len(u) < MinLine \/ (wraps /\ Last(u) # CR)

\* A piece arrives; the loop begins with everything in in_buf_.
HandleReadReplies(n) ==
  /\ step = "reading" /\ n \in 1..Len(fromServer)
  /\ inBuf' = inBuf \o Piece(fromServer, n) /\ fromServer' = AfterPiece(fromServer, n)
  /\ left' = Len(inBuf') /\ s' = <<>> /\ eof' = FALSE
  /\ step' = "parsing"
  /\ clean' = (clean /\ SafeCut(inBuf'))
  /\ UNCHANGED <<batch, toServer, replies, answers, wraps>>

More == step = "parsing" /\ callbacks # <<>> /\ (left >= MinLine \/ left < 0)

\* getline(): at the end of the buffer it fails and leaves s as it is.
Got == IF eof THEN s ELSE Line(inBuf)

GetLine ==
  /\ s' = Got
  /\ eof' = (eof \/ ~HasLF(inBuf))
  /\ inBuf' = IF eof THEN inBuf ELSE AfterLine(inBuf)

\* Mutant of Complete: an unfinished line is taken for a reply.
CompleteAlways(l) == l # <<>>

Complete(l) == l # <<>> /\ Last(l) = CR

\* The type of a reply is its first byte.
Good(l) == \E r \in Requests : l[1] = <<r, 1>> /\ replies[r] = "good"

\* s.at() of an empty line throws out_of_range, which nothing catches.
EmptyLine ==
  /\ More /\ Got = <<>>
  /\ step' = "crashed"
  /\ UNCHANGED <<batch, inBuf, parse, stream, answers, wraps, clean>>

\* A line without a CR is put back, or lost, and the rest of it is read.
Unterminated ==
  /\ More /\ Got # <<>> /\ ~Complete(Got)
  /\ inBuf' = IF wraps THEN inBuf ELSE <<>>
  /\ step' = "reading"
  /\ UNCHANGED <<batch, parse, stream, answers, wraps, clean>>

\* close(), drop() and a new connection: in_buf_ is kept.
Reconnect(b) ==
  /\ answers' = [r \in Requests |-> IF Contains(callbacks, r) THEN "failed" ELSE answers[r]]
  /\ callbacks' = <<>> /\ toServer' = <<>> /\ fromServer' = <<>>
  /\ clean' = (clean /\ b = <<>>)
  /\ step' = "idle"

Unknown ==
  /\ More /\ Complete(Got) /\ ~Good(Got)
  /\ GetLine
  /\ Reconnect(inBuf')
  /\ UNCHANGED <<asked, left, replies, wraps>>

Take ==
  /\ More /\ Complete(Got) /\ Good(Got)
  /\ GetLine
  /\ answers' = [answers EXCEPT ![Head(callbacks)] = "ok"]
  /\ callbacks' = Tail(callbacks)
  /\ left' = left - (Len(Got) + 1)
  /\ UNCHANGED <<step, asked, stream, wraps, clean>>

\* The rest stays in in_buf_ for the next read, or for the next batch.
LoopEnds ==
  /\ step = "parsing" /\ ~More
  /\ inBuf' = Consume(inBuf, Len(inBuf) - left)
  /\ step' = IF callbacks # <<>> THEN "reading" ELSE "idle"
  /\ UNCHANGED <<batch, parse, stream, answers, wraps, clean>>

HandleReadFails ==
  /\ step = "reading"
  /\ Reconnect(inBuf)
  /\ UNCHANGED <<asked, inBuf, parse, replies, wraps>>

-----------------------------------------------------------------------------
Parse == EmptyLine \/ Unterminated \/ Unknown \/ Take \/ LoopEnds

ReplyNext ==
  \/ \E n \in 1..MaxBatch : Write(n)
  \/ \E kind \in {"good", "error"}, len \in ReplyLengths : Reply(kind, len)
  \/ \E n \in 1..Len(fromServer) : HandleReadReplies(n)
  \/ Parse \/ HandleReadFails

ReplySpec == ReplyInit /\ [][ReplyNext]_replyVars

-----------------------------------------------------------------------------
(* A callback is called with true only when its own reply has come, whole    *)
(* and good, and no line ends the process, as long as every piece ended at a *)
(* SafeCut and no reconnect left anything in in_buf_: the counting of lines  *)
(* and bytes in handle_read (lines 252-282) over reads and batches.          *)
OwnReply ==
  /\ clean => step # "crashed"
  /\ \A r \in Requests : clean /\ answers[r] = "ok" =>
       replies[r] = "good" /\ \A j \in 1..Len(fromServer) : fromServer[j][1] # r

(* handle_read reads on (line 287) only while a reply is still to come: it   *)
(* never waits with all the replies of the batch in in_buf_.                 *)
ReadsForMore ==
  clean /\ step = "reading" => Last(callbacks) \in ToSet(toServer) \/ fromServer # <<>>
==============================================================================
