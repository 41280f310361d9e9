---------------------------- MODULE WialonSession ----------------------------
(***************************************************************************)
(* One session of the Wialon IPS translator (wialon_plugin.cpp): its parser*)
(* consumes the tokens of a line one by one on the connection's strand,    *)
(* while the dispatchers' answers to what it stored arrive on any worker   *)
(* thread, outside the strand, between any two tokens.                     *)
(*                                                                         *)
(* A line is "#command#field;field;...", a black box line has blocks of    *)
(* fields with "|" between them.  parse_string splits it at ";", "#" and   *)
(* "|", keeps the last two as tokens and keeps empty tokens, so a delimiter*)
(* always stands between two other tokens.                                 *)
(***************************************************************************)
EXTENDS Integers, Sequences

CONSTANTS
  Fields,         \* estimates_: how many fields each command has
  Commands,       \* the commands this client sends
  MaxLines,       \* bound on the lines of a session
  MaxTokens       \* bound on the tokens of a line

Known == {"L", "D", "P", "SD", "B", "M", "I"}

ASSUME SessionAssumption ==
  /\ Fields \in [Known -> Nat] /\ Fields["I"] # 0 /\ Commands \subseteq Known
  /\ MaxLines \in Nat /\ MaxTokens \in Nat

Delimiters == {"#", "|"}

VARIABLES
  lockStep,       \* the client waits for the reply to a line, or for silence, and
                  \* sends no black boxes, whose answers come after the reply
  state,          \* state_
  cmd,            \* cmd_, which the replies quote
  current,        \* current_cmd_
  estimate,       \* estimate_
  treeStores,     \* how often *tree_ was handed to the dispatchers
  isParserError,  \* is_parser_error_
  authenticated,  \* authenticated_
  multicommand,   \* multicommand_
  buffer,         \* answer_buffer_
  writes,         \* writes of answer_buffer_ that have not completed
  pending,        \* calls of process_data that were not answered
  crashed,        \* an exception left a handler: nothing catches it
  inLine, tokens, \* input: within a line, how many tokens of it were consumed
  delimited,      \* input: the last of them is a delimiter
  lines,          \* lines sent so far
  committed,      \* history: the line was committed and a reply is due
  blocks,         \* history: how many fields each block of the line has
  stored,         \* history: how many trees of the line were stored
  loggedIn,       \* history: a complete login line was accepted
  touched,        \* history: a tree was written to after it was stored
  replies         \* history: what the client received since its last line

parser == <<state, cmd, current, estimate, treeStores, isParserError, touched>>
reply  == <<buffer, writes>>
input  == <<lockStep, inLine, tokens, delimited, blocks, lines, replies>>
line   == <<committed, stored>>
vars   == <<parser, reply, input, line, authenticated, multicommand, pending,
            crashed, loggedIn>>

\* Any text that is not a delimiter: one of the commands, or anything else.
Words == (IF lockStep THEN Commands \ {"B"} ELSE Commands) \cup {"word"}

\* estimate_ and current_cmd_ are not initialised; no state reads them before a
\* command sets them.
Init ==
  /\ lockStep \in BOOLEAN
  /\ state = "INITIAL" /\ cmd = "none" /\ current = "none" /\ estimate = 0
  /\ treeStores = 0 /\ isParserError = FALSE /\ touched = FALSE
  /\ authenticated = FALSE /\ multicommand = 0
  /\ buffer = <<>> /\ writes = 0 /\ pending = 0 /\ crashed = FALSE
  /\ inLine = FALSE /\ tokens = 0 /\ delimited = FALSE /\ lines = 0
  /\ committed = FALSE /\ blocks = <<>> /\ stored = 0
  /\ loggedIn = FALSE /\ replies = <<>>

-----------------------------------------------------------------------------
(* What the handlers call.                                                   *)

\* answer(): one buffer for every reply, written asynchronously.
Answer(c, msg) ==
  /\ buffer' = <<c, msg>>
  /\ writes' = writes + 1

\* store_data()
StoreData ==
  /\ pending' = pending + 1
  /\ treeStores' = treeStores + 1
  /\ stored' = IF treeStores = 0 THEN stored + 1 ELSE stored

StoreNothing == UNCHANGED <<pending, treeStores, stored>>

\* boost::make_shared<dptree>().swap(tree_)
NewTree == treeStores' = 0

-----------------------------------------------------------------------------
(* Input                                                                     *)

\* The client sends a line, and handle_read takes it out of the stream.
BeginLine ==
  /\ ~crashed /\ ~inLine /\ lines < MaxLines
  /\ lockStep => replies # <<>> \/ (pending = 0 /\ writes = 0)
  /\ inLine' = TRUE /\ tokens' = 0 /\ delimited' = TRUE /\ lines' = lines + 1
  /\ replies' = <<>>
  /\ committed' = FALSE /\ blocks' = <<>> /\ stored' = 0
  /\ UNCHANGED <<lockStep, parser, reply, authenticated, multicommand, pending, crashed,
                 loggedIn>>

\* The next token of the line.
Token(t) ==
  /\ ~crashed /\ inLine /\ tokens < MaxTokens
  /\ t \in Delimiters => ~delimited
  /\ tokens' = tokens + 1 /\ delimited' = (t \in Delimiters)
  /\ blocks' = IF state = "HASH_SECOND" /\ t = "#" THEN <<0>>
               ELSE IF blocks = <<>> THEN <<>>
               ELSE IF t = "|" THEN Append(blocks, 0)
               ELSE [blocks EXCEPT ![Len(blocks)] = @ + 1]
  /\ UNCHANGED <<lockStep, inLine, lines, replies, crashed>>

\* The end of the line; no line ends with a delimiter.
LineEnd ==
  /\ ~crashed /\ inLine /\ (~delimited \/ tokens = 0)
  /\ inLine' = FALSE
  /\ UNCHANGED <<lockStep, tokens, delimited, blocks, lines, replies>>

-----------------------------------------------------------------------------
(* consume_token(tok), by state                                              *)

ConsumeInitial(t) ==
  /\ state = "INITIAL"
  /\ Token(t)
  /\ NewTree /\ isParserError' = FALSE /\ multicommand' = 0
  /\ cmd' = "none" /\ state' = "HASH_FIRST"
  /\ UNCHANGED <<current, estimate, touched, reply, line, authenticated, pending, loggedIn>>

ConsumeHash(t) ==
  /\ state \in {"HASH_FIRST", "HASH_SECOND"}
  /\ Token(t)
  /\ IF t = "#"
       THEN /\ state' = IF state = "HASH_FIRST" THEN "COMMAND" ELSE "BODY"
            /\ UNCHANGED isParserError
       ELSE /\ state' = "SKIP_TO_END"
            /\ isParserError' = TRUE
  /\ UNCHANGED <<cmd, current, estimate, treeStores, touched, committed, stored,
                 reply, authenticated, multicommand, pending, loggedIn>>

\* Mutant of ConsumeCommand: only the data commands need a login.
ConsumeCommandUnchecked(t) ==
  /\ state = "COMMAND"
  /\ Token(t)
  /\ cmd' = t
  /\ IF t \in Known
       THEN /\ current' = t /\ estimate' = Fields[t]
            /\ state' = IF ~authenticated /\ t \in {"D", "SD", "B"}
                          THEN "SKIP_TO_END" ELSE "HASH_SECOND"
            /\ UNCHANGED isParserError
       ELSE /\ state' = "SKIP_TO_END" /\ isParserError' = TRUE
            /\ UNCHANGED <<current, estimate>>
  /\ UNCHANGED <<treeStores, touched, line, reply, authenticated, multicommand, pending, loggedIn>>

ConsumeCommand(t) ==
  /\ state = "COMMAND"
  /\ Token(t)
  /\ cmd' = t
  /\ IF t \in Known
       THEN /\ current' = t /\ estimate' = Fields[t]
            /\ state' = IF ~authenticated /\ t # "L" THEN "SKIP_TO_END" ELSE "HASH_SECOND"
            /\ UNCHANGED isParserError
       ELSE /\ state' = "SKIP_TO_END" /\ isParserError' = TRUE
            /\ UNCHANGED <<current, estimate>>
  /\ UNCHANGED <<treeStores, touched, line, reply, authenticated, multicommand, pending, loggedIn>>

\* Mutant of ConsumeShortBlock: the next block is parsed into the same tree.
ConsumeShortBlockSameTree(t) ==
  /\ state = "BODY" /\ current = "B" /\ t = "|"
  /\ Token(t)
  /\ StoreData
  /\ estimate' = Fields["B"]
  /\ UNCHANGED <<state, cmd, current, isParserError, touched, committed, reply,
                 authenticated, multicommand, loggedIn>>

\* A bar before the block has all its fields.
ConsumeShortBlock(t) ==
  /\ state = "BODY" /\ current = "B" /\ t = "|"
  /\ Token(t)
  /\ pending' = pending + 1
  /\ stored' = IF treeStores = 0 THEN stored + 1 ELSE stored
  /\ NewTree
  /\ estimate' = Fields["B"]
  /\ UNCHANGED <<state, cmd, current, isParserError, touched, committed, reply,
                 authenticated, multicommand, loggedIn>>

\* Mutant of ConsumeField: a command without fields is not told apart.
ConsumeFieldUnchecked(t) ==
  /\ state = "BODY" /\ ~(current = "B" /\ t = "|")
  /\ Token(t)
  /\ estimate' = estimate - 1
  /\ touched' = (touched \/ treeStores > 0)
  /\ state' = IF estimate' > 0 THEN "BODY" ELSE IF current = "B" THEN "BAR" ELSE "END"
  /\ UNCHANGED <<cmd, current, treeStores, isParserError, line, reply,
                 authenticated, multicommand, pending, loggedIn>>

ConsumeField(t) ==
  /\ state = "BODY" /\ ~(current = "B" /\ t = "|")
  /\ Token(t)
  /\ estimate' = IF estimate > 0 THEN estimate - 1 ELSE 0
  /\ touched' = (touched \/ (estimate > 0 /\ treeStores > 0))
  /\ state' = IF estimate' > 0 THEN "BODY" ELSE IF current = "B" THEN "BAR" ELSE "END"
  /\ UNCHANGED <<cmd, current, treeStores, isParserError, line, reply,
                 authenticated, multicommand, pending, loggedIn>>

\* The bar after a complete block, or something else in its place.  Neither
\* estimate_ nor tree_ is set again for the next block.
ConsumeBar(t) ==
  /\ state = "BAR"
  /\ Token(t)
  /\ IF t = "|"
       THEN state' = "BODY" /\ UNCHANGED isParserError
       ELSE state' = "SKIP_TO_BAR_OR_END" /\ isParserError' = TRUE
  /\ StoreData
  /\ UNCHANGED <<cmd, current, estimate, touched, committed, reply,
                 authenticated, multicommand, loggedIn>>

ConsumeSkip(t) ==
  /\ state \in {"SKIP_TO_BAR_OR_END", "SKIP_TO_END", "END"}
  /\ Token(t)
  /\ state' = IF state = "END" THEN "SKIP_TO_END"
              ELSE IF state = "SKIP_TO_BAR_OR_END" /\ t = "|" THEN "BODY" ELSE state
  /\ isParserError' = (isParserError \/ state = "END")
  /\ UNCHANGED <<cmd, current, estimate, treeStores, touched, committed, stored,
                 reply, authenticated, multicommand, pending, loggedIn>>

-----------------------------------------------------------------------------
(* consume_token("\r\n") and commit_command()                                *)

\* Lines that end before their command, or are skipped: no reply.
EndUncommitted ==
  /\ state \in {"INITIAL", "COMMAND", "HASH_FIRST", "HASH_SECOND", "SKIP_TO_END"}
  /\ LineEnd
  /\ isParserError' = (isParserError \/ state \in {"COMMAND", "HASH_FIRST", "HASH_SECOND"})
  /\ state' = "INITIAL"
  /\ UNCHANGED <<cmd, current, estimate, treeStores, touched, reply, line,
                 authenticated, multicommand, pending, crashed, loggedIn>>

\* The line is too short: an error, and the command is committed all the same.
Short == state = "BODY" /\ current # "B"

Commit ==
  /\ Short \/ state \in {"BODY", "BAR", "SKIP_TO_BAR_OR_END", "END"}
  /\ LineEnd
  /\ isParserError' = (isParserError \/ Short)
  /\ state' = "INITIAL"
  /\ UNCHANGED <<cmd, current, touched>>

\* request_router::authenticate accepts every login, and answers at once.
CommitLogin ==
  /\ current = "L" /\ Commit
  /\ committed' = TRUE
  /\ StoreNothing
  /\ authenticated' = (authenticated \/ ~isParserError')
  /\ loggedIn' = (loggedIn \/ state = "END")
  /\ Answer(cmd, IF isParserError' THEN "0" ELSE "1")
  /\ UNCHANGED <<estimate, multicommand, crashed>>

\* Mutant of CommitData: the case of a short line falls through to that of the bar.
CommitDataTwice ==
  /\ current \in {"D", "SD", "M"} /\ Commit
  /\ committed' = TRUE
  /\ pending' = IF Short THEN pending + 2 ELSE pending + 1
  /\ treeStores' = treeStores + 1
  /\ stored' = IF treeStores = 0 THEN stored + 1 ELSE stored
  /\ UNCHANGED <<estimate, reply, authenticated, multicommand, crashed, loggedIn>>

CommitData ==
  /\ current \in {"D", "SD", "M"} /\ Commit
  /\ committed' = TRUE
  /\ StoreData
  /\ UNCHANGED <<estimate, reply, authenticated, multicommand, crashed, loggedIn>>

CommitPing ==
  /\ current = "P" /\ Commit
  /\ committed' = TRUE
  /\ StoreNothing
  /\ Answer(cmd, "")
  /\ UNCHANGED <<estimate, authenticated, multicommand, crashed, loggedIn>>

\* The last block is stored, and the blocks answered so far are the reply.
CommitBlackbox ==
  /\ current = "B" /\ Commit
  /\ committed' = TRUE
  /\ IF state \in {"BODY", "BAR"} THEN StoreData ELSE StoreNothing
  /\ Answer(cmd, multicommand)
  /\ UNCHANGED <<estimate, authenticated, multicommand, crashed, loggedIn>>

\* commit_command sets STATE_BINARY_DATA, consume_token resets it to
\* STATE_INITIAL.  An image size that is not a number is thrown out of handle_read.
CommitImage ==
  /\ current = "I" /\ Commit
  /\ \/ estimate' = 1 /\ UNCHANGED crashed
     \/ crashed' = TRUE /\ UNCHANGED estimate
  /\ committed' = FALSE
  /\ StoreNothing
  /\ UNCHANGED <<reply, authenticated, multicommand, loggedIn>>

-----------------------------------------------------------------------------
(* The dispatchers and the socket                                            *)

\* Mutant of HandleProcessData: only a success is answered.
HandleProcessDataOnlyOk(ok) ==
  /\ ~crashed /\ pending > 0
  /\ pending' = pending - 1
  /\ IF current = "B" THEN multicommand' = multicommand + 1 /\ UNCHANGED reply
     ELSE IF ok THEN Answer(cmd, "1") /\ UNCHANGED multicommand
     ELSE UNCHANGED <<reply, multicommand>>
  /\ UNCHANGED <<state, cmd, current, estimate, treeStores, isParserError, touched, input,
                 line, authenticated, crashed, loggedIn>>

\* It does not know which command it answers: it reads what the parser is at.
HandleProcessData(ok) ==
  /\ ~crashed /\ pending > 0
  /\ pending' = pending - 1
  /\ IF current = "B"
       THEN multicommand' = multicommand + 1 /\ UNCHANGED reply
       ELSE /\ Answer(cmd, IF ok THEN "1" ELSE IF current \in {"D", "SD"} THEN "-1" ELSE "0")
            /\ UNCHANGED multicommand
  /\ UNCHANGED <<parser, input, line, authenticated, crashed, loggedIn>>

\* A write completes: what the client gets is what the buffer holds by now.
Transmit ==
  /\ ~crashed /\ writes > 0
  /\ writes' = writes - 1
  /\ replies' = Append(replies, buffer)
  /\ UNCHANGED <<parser, buffer, lockStep, inLine, tokens, delimited, blocks, lines, line,
                 authenticated, multicommand, pending, crashed, loggedIn>>

Consume(t) ==
  \/ ConsumeInitial(t) \/ ConsumeHash(t) \/ ConsumeCommand(t) \/ ConsumeField(t)
  \/ ConsumeShortBlock(t) \/ ConsumeBar(t) \/ ConsumeSkip(t)

CommitLine ==
  CommitLogin \/ CommitData \/ CommitPing \/ CommitBlackbox \/ CommitImage

Next ==
  \/ BeginLine \/ EndUncommitted \/ CommitLine \/ Transmit
  \/ \E t \in Words \cup Delimiters : Consume(t)
  \/ \E ok \in BOOLEAN : HandleProcessData(ok)

Spec == Init /\ [][Next]_vars

\* The dispatchers answer and writes complete; the client need not send anything.
FairSpec ==
  /\ Spec
  /\ WF_vars(\E ok \in BOOLEAN : HandleProcessData(ok))
  /\ WF_vars(Transmit)

-----------------------------------------------------------------------------
(* Every variable has its type.  estimate_ in particular, which is unsigned  *)
(* and counts down, never wraps, whatever token comes in whatever state.     *)
TypeOK ==
  /\ state \in {"INITIAL", "COMMAND", "BODY", "HASH_FIRST", "HASH_SECOND", "BAR", "END",
                "SKIP_TO_BAR_OR_END", "SKIP_TO_END"}
  /\ lockStep \in BOOLEAN
  /\ cmd \in Words \cup {"none"}
  /\ current \in Commands \cup {"none"}
  /\ estimate \in 0..(IF current = "none" THEN 0 ELSE Fields[current])
  /\ treeStores \in Nat /\ multicommand \in Nat
  /\ isParserError \in BOOLEAN /\ authenticated \in BOOLEAN
  /\ crashed \in BOOLEAN /\ touched \in BOOLEAN /\ loggedIn \in BOOLEAN
  /\ writes \in Nat /\ pending \in Nat
  /\ inLine \in BOOLEAN /\ delimited \in BOOLEAN /\ committed \in BOOLEAN
  /\ tokens \in 0..MaxTokens /\ lines \in 0..MaxLines
  /\ blocks \in Seq(Nat) /\ stored \in Nat

(* Nothing is stored, and so no dispatcher gets anything, before a login line*)
(* with all its fields, however the lines and the late answers interleave.   *)
NoDataBeforeLogin == authenticated \/ stored > 0 \/ pending > 0 => loggedIn

(* store_data hands the tree itself, not a copy, to the worker threads: the  *)
(* parser never writes to a tree after it was stored.                        *)
SharedTreeUntouched == ~touched

(* A client that waits for each reply gets one for a line, after the line,   *)
(* and with the line's own command, although handle_process_data reads cmd_  *)
(* and current_cmd_ when it is called and every reply shares one buffer.     *)
ReplyMatches ==
  lockStep /\ replies # <<>> => ~inLine /\ Len(replies) = 1 /\ replies[1][1] = cmd

(* Every committed line of such a client, images apart, gets its reply.      *)
Replied == lockStep /\ committed ~> replies # <<>>

(* "COMMAND_BLACKBOX parsed (and stored) data blocks" (wialon_plugin.hpp:69):*)
(* every block of a black box line is stored, and stored once, as long as    *)
(* only the last one has all its fields.  The bar after a block that has     *)
(* them (wialon_plugin.cpp:293) starts no new block, what follows is lost.   *)
BlocksStored ==
  ~inLine /\ committed /\ current = "B" =>
    LET last == Len(blocks) IN
      (\A i \in 1..last - 1 : blocks[i] < Fields["B"]) /\ blocks[last] <= Fields["B"]
        => stored = last
==============================================================================
