-------------------------- MODULE WialonSessionProofs --------------------------
(***************************************************************************)
(* Theorems about WialonSession, for any number of lines, tokens and fields*)
(* of the commands and any set of commands that the client sends.          *)
(***************************************************************************)
EXTENDS WialonSession, SequenceTheorems, TLAPS

-----------------------------------------------------------------------------
(* The parser *)

\* Past "#command#": current_cmd_ is the command of the line.
PastCommand == {"HASH_SECOND", "BODY", "BAR", "END", "SKIP_TO_BAR_OR_END"}

\* The states of a line, and what each has done with current_cmd_ and estimate_.
\* Only a black box has bars, and the fields of a block before one are complete.
Parsing ==
  /\ state # "INITIAL" => inLine
  /\ state = "COMMAND" => delimited
  /\ state \in PastCommand => current # "none"
  /\ state = "HASH_SECOND" => estimate = Fields[current]
  /\ state \in {"BAR", "SKIP_TO_BAR_OR_END"} => current = "B" /\ estimate = 0
  /\ state = "SKIP_TO_BAR_OR_END" => isParserError
  /\ state = "END" => current # "B"
  /\ inLine => ~committed

TypeInv == TypeOK /\ Parsing

\* TypeOK in two parts: the Boolean variables, and the others.
Flags ==
  /\ lockStep \in BOOLEAN /\ isParserError \in BOOLEAN /\ authenticated \in BOOLEAN
  /\ crashed \in BOOLEAN /\ touched \in BOOLEAN /\ loggedIn \in BOOLEAN
  /\ inLine \in BOOLEAN /\ delimited \in BOOLEAN /\ committed \in BOOLEAN

Values ==
  /\ state \in {"INITIAL", "HASH_FIRST", "COMMAND", "SKIP_TO_END"} \cup PastCommand
  /\ cmd \in Words \cup {"none"}
  /\ current \in Commands \cup {"none"}
  /\ estimate \in 0..(IF current = "none" THEN 0 ELSE Fields[current])
  /\ treeStores \in Nat /\ multicommand \in Nat /\ writes \in Nat /\ pending \in Nat
  /\ tokens \in 0..MaxTokens /\ lines \in 0..MaxLines
  /\ blocks \in Seq(Nat) /\ stored \in Nat

\* What a line other than a login stores, it stores for a client that is logged in.
LoginInv ==
  /\ NoDataBeforeLogin
  /\ state \in PastCommand /\ current # "L" => authenticated

\* A tree that was stored is put away before the parser has a field to write to it.
TreeInv ==
  /\ SharedTreeUntouched
  /\ state \in {"HASH_FIRST", "COMMAND", "HASH_SECOND"} => treeStores = 0
  /\ state = "BODY" => treeStores = 0 \/ estimate = 0

\* A client that waits has one thing to wait for: an answer, its write, or nothing.
\* While one is due, cmd_ stays what it was when the line was committed.
ReplyInv ==
  lockStep =>
    /\ current # "B"
    /\ inLine => pending = 0 /\ writes = 0 /\ replies = <<>>
    /\ pending + writes <= 1
    /\ replies # <<>> => pending + writes = 0 /\ Len(replies) = 1 /\ replies[1][1] = cmd
    /\ writes > 0 => buffer[1] = cmd

\* No block but the last has all its fields, and that one has no more than these.
Whole ==
  /\ \A i \in 1..Len(blocks) - 1 : blocks[i] < Fields["B"]
  /\ blocks[Len(blocks)] <= Fields["B"]

\* The blocks before the one that is being parsed are stored, its tree is not.
BlocksInv ==
  /\ inLine /\ state \in {"INITIAL", "HASH_FIRST", "COMMAND", "HASH_SECOND"} => stored = 0
  /\ state \in PastCommand \ {"HASH_SECOND"} => blocks # <<>>
  /\ state \in {"BODY", "BAR"} /\ current = "B" /\ Whole =>
       /\ stored = Len(blocks) - 1 /\ treeStores = 0
       /\ estimate = Fields["B"] - blocks[Len(blocks)]
  /\ state = "SKIP_TO_BAR_OR_END" => ~Whole
  /\ BlocksStored

-----------------------------------------------------------------------------
(* Types *)

\* The fields of the block that is parsed are counted, or a block is begun.
LEMMA BlockCounted ==
  ASSUME NEW b \in Seq(Nat), b # <<>>
  PROVE  /\ [b EXCEPT ![Len(b)] = @ + 1] \in Seq(Nat)
         /\ Len([b EXCEPT ![Len(b)] = @ + 1]) = Len(b)
         /\ Len(b) \in Nat \ {0}
         /\ b[Len(b)] \in Nat
         /\ [b EXCEPT ![Len(b)] = @ + 1][Len(b)] = b[Len(b)] + 1
         /\ \A i \in 1..Len(b) - 1 : [b EXCEPT ![Len(b)] = @ + 1][i] = b[i]
<1>1. Len(b) \in Nat \ {0} /\ b[Len(b)] \in Nat
  BY EmptySeq, LenProperties, ElementOfSeq
<1>2. b[Len(b)] + 1 \in Nat /\ Len(b) \in 1..Len(b)
  BY <1>1
<1>3. /\ [b EXCEPT ![Len(b)] = b[Len(b)] + 1] \in Seq(Nat)
      /\ Len([b EXCEPT ![Len(b)] = b[Len(b)] + 1]) = Len(b)
      /\ \A j \in 1..Len(b) : [b EXCEPT ![Len(b)] = b[Len(b)] + 1][j]
                                = IF j = Len(b) THEN b[Len(b)] + 1 ELSE b[j]
  BY <1>2, ExceptSeq
<1>4. \A i \in 1..Len(b) - 1 : i \in 1..Len(b) /\ i # Len(b)
  BY <1>1
<1> QED
  BY <1>1, <1>2, <1>3, <1>4

LEMMA BlockBegun ==
  ASSUME NEW b \in Seq(Nat)
  PROVE  /\ Append(b, 0) \in Seq(Nat) /\ Append(b, 0) # <<>>
         /\ Len(Append(b, 0)) = Len(b) + 1
         /\ Len(b) \in Nat
         /\ Append(b, 0)[Len(b) + 1] = 0
         /\ \A i \in 1..Len(b) : Append(b, 0)[i] = b[i]
  BY AppendProperties, LenProperties

\* A token is counted, whatever it is.
TokenRead(t) ==
  /\ tokens' \in 0..MaxTokens /\ delimited' \in BOOLEAN /\ blocks' \in Seq(Nat)
  /\ inLine /\ delimited' = (t \in Delimiters)
  /\ t \in Delimiters => ~delimited
  /\ UNCHANGED <<lockStep, inLine, lines, replies, crashed>>

LEMMA TokenTypes ==
  ASSUME TypeOK, NEW t, Token(t)
  PROVE  TokenRead(t)
<1> USE SessionAssumption
<1>1. tokens' \in 0..MaxTokens
  BY DEF TypeOK, Token
<1>2. blocks' \in Seq(Nat)
  <2>1. CASE state = "HASH_SECOND" /\ t = "#"
    BY <2>1 DEF Token
  <2>2. CASE ~(state = "HASH_SECOND" /\ t = "#") /\ blocks = <<>>
    BY <2>2 DEF Token, TypeOK
  <2>3. CASE ~(state = "HASH_SECOND" /\ t = "#") /\ blocks # <<>> /\ t = "|"
    BY <2>3, BlockBegun DEF Token, TypeOK
  <2>4. CASE ~(state = "HASH_SECOND" /\ t = "#") /\ blocks # <<>> /\ t # "|"
    BY <2>4, BlockCounted DEF Token, TypeOK
  <2> QED
    BY <2>1, <2>2, <2>3, <2>4
<1> QED
  BY <1>1, <1>2 DEF Token, TokenRead

\* answer() is one more write, whatever it says.
LEMMA AnswerWrites ==
  ASSUME NEW c, NEW msg, Answer(c, msg)
  PROVE  writes' = writes + 1 /\ buffer' = <<c, msg>> /\ buffer'[1] = c
  BY DEF Answer

LEMMA TypeParts == TypeOK <=> Flags /\ Values
  BY DEF TypeOK, Flags, Values, PastCommand

LEMMA InitType == Init => TypeInv
<1> SUFFICES ASSUME Init PROVE TypeInv
  OBVIOUS
<1>1. blocks \in Seq(Nat)
  BY EmptySeq DEF Init
<1>2. Flags
  BY DEF Init, Flags
<1>3. Values
  BY <1>1, SessionAssumption DEF Init, Values
<1>4. Parsing
  BY DEF Init, Parsing, PastCommand
<1> QED
  BY <1>2, <1>3, <1>4, TypeParts DEF TypeInv

LEMMA NextType == TypeInv /\ [Next]_vars => TypeInv'
<1> SUFFICES ASSUME TypeInv, [Next]_vars PROVE TypeInv'
  OBVIOUS
<1>0. Flags /\ Values /\ Parsing
  BY TypeParts DEF TypeInv
<1>1. SUFFICES Flags' /\ Values' /\ Parsing'
  BY TypeParts DEF TypeInv, TypeOK, Flags, Values, PastCommand
<1> USE SessionAssumption, <1>0
<1> USE DEF Flags, Values, Parsing, PastCommand, Words, parser, reply, input, line
<1>2. ASSUME BeginLine PROVE Flags' /\ Values' /\ Parsing'
  <2> USE DEF BeginLine
  <2>1. Flags'
    BY <1>2
  <2>2. Values'
    BY <1>2, EmptySeq
  <2>3. Parsing'
    BY <1>2
  <2> QED
    BY <2>1, <2>2, <2>3
<1>3. ASSUME NEW t \in Words \cup Delimiters, ConsumeInitial(t) PROVE Flags' /\ Values' /\ Parsing'
  <2>1. TokenRead(t)
    BY <1>3, <1>0, TokenTypes, TypeParts DEF ConsumeInitial
  <2> USE DEF ConsumeInitial, TokenRead, NewTree
  <2>2. Flags'
    BY <1>3, <2>1
  <2>3. Values'
    BY <1>3, <2>1
  <2>4. Parsing'
    BY <1>3, <2>1
  <2> QED
    BY <2>2, <2>3, <2>4
<1>4. ASSUME NEW t \in Words \cup Delimiters, ConsumeHash(t) PROVE Flags' /\ Values' /\ Parsing'
  <2>1. TokenRead(t)
    BY <1>4, <1>0, TokenTypes, TypeParts DEF ConsumeHash
  <2> USE DEF ConsumeHash, TokenRead, Delimiters
  <2>2. Flags'
    BY <1>4, <2>1
  <2>3. Values'
    BY <1>4, <2>1
  <2>4. Parsing'
    BY <1>4, <2>1
  <2> QED
    BY <2>2, <2>3, <2>4
<1>5. ASSUME NEW t \in Words \cup Delimiters, ConsumeCommand(t) PROVE Flags' /\ Values' /\ Parsing'
  <2>1. TokenRead(t)
    BY <1>5, <1>0, TokenTypes, TypeParts DEF ConsumeCommand
  <2> USE DEF ConsumeCommand, TokenRead, Delimiters, Known
  <2>2. Flags'
    BY <1>5, <2>1
  <2>3. Values'
    BY <1>5, <2>1
  <2>4. Parsing'
    BY <1>5, <2>1
  <2> QED
    BY <2>2, <2>3, <2>4
<1>6. ASSUME NEW t \in Words \cup Delimiters, ConsumeField(t) PROVE Flags' /\ Values' /\ Parsing'
  <2>1. TokenRead(t)
    BY <1>6, <1>0, TokenTypes, TypeParts DEF ConsumeField
  <2> USE DEF ConsumeField, TokenRead, Known
  <2>2. Flags'
    BY <1>6, <2>1
  <2>3. Values'
    BY <1>6, <2>1
  <2>4. Parsing'
    BY <1>6, <2>1
  <2> QED
    BY <2>2, <2>3, <2>4
<1>7. ASSUME NEW t \in Words \cup Delimiters, ConsumeShortBlock(t) PROVE Flags' /\ Values' /\ Parsing'
  <2>1. TokenRead(t)
    BY <1>7, <1>0, TokenTypes, TypeParts DEF ConsumeShortBlock
  <2> USE DEF ConsumeShortBlock, TokenRead, NewTree, Known
  <2>2. Flags'
    BY <1>7, <2>1
  <2>3. Values'
    BY <1>7, <2>1
  <2>4. Parsing'
    BY <1>7, <2>1
  <2> QED
    BY <2>2, <2>3, <2>4
<1>8. ASSUME NEW t \in Words \cup Delimiters, ConsumeBar(t) PROVE Flags' /\ Values' /\ Parsing'
  <2>1. TokenRead(t)
    BY <1>8, <1>0, TokenTypes, TypeParts DEF ConsumeBar
  <2> USE DEF ConsumeBar, TokenRead, StoreData
  <2>2. Flags'
    BY <1>8, <2>1
  <2>3. Values'
    BY <1>8, <2>1
  <2>4. Parsing'
    BY <1>8, <2>1
  <2> QED
    BY <2>2, <2>3, <2>4
<1>9. ASSUME NEW t \in Words \cup Delimiters, ConsumeSkip(t) PROVE Flags' /\ Values' /\ Parsing'
  <2>1. TokenRead(t)
    BY <1>9, <1>0, TokenTypes, TypeParts DEF ConsumeSkip
  <2> USE DEF ConsumeSkip, TokenRead
  <2>2. Flags'
    BY <1>9, <2>1
  <2>3. Values'
    BY <1>9, <2>1
  <2>4. Parsing'
    BY <1>9, <2>1
  <2> QED
    BY <2>2, <2>3, <2>4
<1>10. ASSUME EndUncommitted PROVE Flags' /\ Values' /\ Parsing'
  <2> USE DEF EndUncommitted, LineEnd
  <2>1. Flags'
    BY <1>10
  <2>2. Values'
    BY <1>10
  <2>3. Parsing'
    BY <1>10
  <2> QED
    BY <2>1, <2>2, <2>3
<1>11. ASSUME CommitLogin PROVE Flags' /\ Values' /\ Parsing'
  <2> USE DEF CommitLogin, Commit, Short, LineEnd, StoreNothing, Answer
  <2>1. Flags'
    BY <1>11
  <2>2. Values'
    BY <1>11
  <2>3. Parsing'
    BY <1>11
  <2> QED
    BY <2>1, <2>2, <2>3
<1>12. ASSUME CommitData PROVE Flags' /\ Values' /\ Parsing'
  <2> USE DEF CommitData, Commit, Short, LineEnd, StoreData
  <2>1. Flags'
    BY <1>12
  <2>2. Values'
    BY <1>12
  <2>3. Parsing'
    BY <1>12
  <2> QED
    BY <2>1, <2>2, <2>3
<1>13. ASSUME CommitPing PROVE Flags' /\ Values' /\ Parsing'
  <2> USE DEF CommitPing, Commit, Short, LineEnd, StoreNothing
  <2>1. Flags'
    BY <1>13
  <2>2. PICK msg : Answer(cmd, msg)
    BY <1>13, Zenon
  <2>3. writes' \in Nat
    BY <2>2, AnswerWrites
  <2>4. Values'
    BY <1>13, <2>3
  <2>5. Parsing'
    BY <1>13
  <2> QED
    BY <2>1, <2>4, <2>5
<1>14. ASSUME CommitBlackbox PROVE Flags' /\ Values' /\ Parsing'
  <2> USE DEF CommitBlackbox, Commit, Short, LineEnd, StoreData, StoreNothing, Answer
  <2>1. Flags'
    BY <1>14
  <2>2. Values'
    BY <1>14
  <2>3. Parsing'
    BY <1>14
  <2> QED
    BY <2>1, <2>2, <2>3
<1>15. ASSUME CommitImage PROVE Flags' /\ Values' /\ Parsing'
  <2> USE DEF CommitImage, Commit, Short, LineEnd, StoreNothing, Known
  <2>1. Flags'
    BY <1>15
  <2>2. Values'
    BY <1>15
  <2>3. Parsing'
    BY <1>15
  <2> QED
    BY <2>1, <2>2, <2>3
<1>16. ASSUME Transmit PROVE Flags' /\ Values' /\ Parsing'
  <2> USE DEF Transmit
  <2>1. Flags'
    BY <1>16
  <2>2. Values'
    BY <1>16
  <2>3. Parsing'
    BY <1>16
  <2> QED
    BY <2>1, <2>2, <2>3
<1>17. ASSUME NEW ok \in BOOLEAN, HandleProcessData(ok) PROVE Flags' /\ Values' /\ Parsing'
  <2> USE DEF HandleProcessData, Answer
  <2>1. Flags'
    BY <1>17
  <2>2. Values'
    BY <1>17
  <2>3. Parsing'
    BY <1>17
  <2> QED
    BY <2>1, <2>2, <2>3
<1>18. ASSUME UNCHANGED vars PROVE Flags' /\ Values' /\ Parsing'
  <2> USE DEF vars
  <2>1. Flags'
    BY <1>18
  <2>2. Values'
    BY <1>18
  <2>3. Parsing'
    BY <1>18
  <2> QED
    BY <2>1, <2>2, <2>3
<1> QED
  BY <1>2, <1>3, <1>4, <1>5, <1>6, <1>7, <1>8, <1>9, <1>10, <1>11, <1>12, <1>13, <1>14, <1>15, <1>16, <1>17, <1>18
  DEF Next, Consume, CommitLine

(* Every variable keeps its type; estimate_ in particular never wraps, for   *)
(* any number of fields that the commands have.                              *)
THEOREM TypeCorrect == Spec => []TypeOK
<1>1. TypeInv => TypeOK
  BY DEF TypeInv
<1> QED
  BY <1>1, InitType, NextType, PTL DEF Spec

-----------------------------------------------------------------------------
(* Logging in *)

LEMMA InitLogin == Init => LoginInv
  BY DEF Init, LoginInv, NoDataBeforeLogin, PastCommand

LEMMA NextLogin == TypeInv /\ LoginInv /\ [Next]_vars => LoginInv'
<1> SUFFICES ASSUME TypeInv, LoginInv, [Next]_vars PROVE LoginInv'
  OBVIOUS
<1> USE TypeParts
<1> USE DEF TypeInv, Flags, Values, Parsing, PastCommand, LoginInv, NoDataBeforeLogin,
            parser, reply, input, line
<1>1. ASSUME BeginLine PROVE LoginInv'
  BY <1>1 DEF BeginLine
<1>2. ASSUME NEW t \in Words \cup Delimiters, ConsumeInitial(t) PROVE LoginInv'
  BY <1>2 DEF ConsumeInitial, NewTree
<1>3. ASSUME NEW t \in Words \cup Delimiters, ConsumeHash(t) PROVE LoginInv'
  BY <1>3 DEF ConsumeHash
<1>4. ASSUME NEW t \in Words \cup Delimiters, ConsumeCommand(t) PROVE LoginInv'
  BY <1>4 DEF ConsumeCommand
<1>5. ASSUME NEW t \in Words \cup Delimiters, ConsumeField(t) PROVE LoginInv'
  BY <1>5 DEF ConsumeField
<1>6. ASSUME NEW t \in Words \cup Delimiters, ConsumeShortBlock(t) PROVE LoginInv'
  BY <1>6 DEF ConsumeShortBlock, NewTree
<1>7. ASSUME NEW t \in Words \cup Delimiters, ConsumeBar(t) PROVE LoginInv'
  BY <1>7 DEF ConsumeBar, StoreData
<1>8. ASSUME NEW t \in Words \cup Delimiters, ConsumeSkip(t) PROVE LoginInv'
  BY <1>8 DEF ConsumeSkip
<1>9. ASSUME EndUncommitted PROVE LoginInv'
  BY <1>9 DEF EndUncommitted
<1>10. ASSUME CommitLogin PROVE LoginInv'
  BY <1>10 DEF CommitLogin, Commit, Short, StoreNothing
<1>11. ASSUME CommitData PROVE LoginInv'
  <2>1. state \in PastCommand /\ current # "L"
    BY <1>11 DEF CommitData, Commit, Short
  <2>2. state' = "INITIAL" /\ UNCHANGED <<authenticated, loggedIn>>
    BY <1>11 DEF CommitData, Commit
  <2>3. loggedIn
    BY <2>1
  <2> QED
    BY <2>2, <2>3
<1>12. ASSUME CommitPing PROVE LoginInv'
  BY <1>12 DEF CommitPing, Commit, StoreNothing
<1>13. ASSUME CommitBlackbox PROVE LoginInv'
  BY <1>13 DEF CommitBlackbox, Commit, StoreData, StoreNothing
<1>14. ASSUME CommitImage PROVE LoginInv'
  BY <1>14 DEF CommitImage, Commit, StoreNothing
<1>15. ASSUME Transmit PROVE LoginInv'
  BY <1>15 DEF Transmit
<1>16. ASSUME NEW ok \in BOOLEAN, HandleProcessData(ok) PROVE LoginInv'
  BY <1>16 DEF HandleProcessData
<1>17. ASSUME UNCHANGED vars PROVE LoginInv'
  BY <1>17 DEF vars
<1> QED
  BY <1>1, <1>2, <1>3, <1>4, <1>5, <1>6, <1>7, <1>8, <1>9, <1>10, <1>11, <1>12, <1>13,
     <1>14, <1>15, <1>16, <1>17
  DEF Next, Consume, CommitLine

(* Nothing is stored and no dispatcher is asked before a login line with all *)
(* its fields was accepted.                                                  *)
THEOREM LoginFirst == Spec => []NoDataBeforeLogin
<1>1. LoginInv => NoDataBeforeLogin
  BY DEF LoginInv
<1> QED
  BY <1>1, InitType, NextType, InitLogin, NextLogin, PTL DEF Spec

-----------------------------------------------------------------------------
(* The tree *)

LEMMA InitTree == Init => TreeInv
  BY DEF Init, TreeInv, SharedTreeUntouched

LEMMA NextTree == TypeInv /\ TreeInv /\ [Next]_vars => TreeInv'
<1> SUFFICES ASSUME TypeInv, TreeInv, [Next]_vars PROVE TreeInv'
  OBVIOUS
<1> USE TypeParts
<1> USE DEF TypeInv, Flags, Values, Parsing, PastCommand, TreeInv, SharedTreeUntouched,
            parser, reply, input, line
<1>1. ASSUME BeginLine PROVE TreeInv'
  BY <1>1 DEF BeginLine
<1>2. ASSUME NEW t \in Words \cup Delimiters, ConsumeInitial(t) PROVE TreeInv'
  BY <1>2 DEF ConsumeInitial, NewTree
<1>3. ASSUME NEW t \in Words \cup Delimiters, ConsumeHash(t) PROVE TreeInv'
  BY <1>3 DEF ConsumeHash
<1>4. ASSUME NEW t \in Words \cup Delimiters, ConsumeCommand(t) PROVE TreeInv'
  BY <1>4 DEF ConsumeCommand
<1>5. ASSUME NEW t \in Words \cup Delimiters, ConsumeField(t) PROVE TreeInv'
  <2>1. touched' = touched
    BY <1>5 DEF ConsumeField
  <2>2. treeStores' = treeStores /\ estimate' = (IF estimate > 0 THEN estimate - 1 ELSE 0)
    BY <1>5 DEF ConsumeField
  <2>3. state = "BODY" /\ state' \in {"BODY", "BAR", "END"}
    BY <1>5 DEF ConsumeField
  <2> QED
    BY <2>1, <2>2, <2>3
<1>6. ASSUME NEW t \in Words \cup Delimiters, ConsumeShortBlock(t) PROVE TreeInv'
  BY <1>6 DEF ConsumeShortBlock, NewTree
<1>7. ASSUME NEW t \in Words \cup Delimiters, ConsumeBar(t) PROVE TreeInv'
  BY <1>7 DEF ConsumeBar, StoreData
<1>8. ASSUME NEW t \in Words \cup Delimiters, ConsumeSkip(t) PROVE TreeInv'
  BY <1>8 DEF ConsumeSkip
<1>9. ASSUME EndUncommitted PROVE TreeInv'
  BY <1>9 DEF EndUncommitted
<1>10. ASSUME CommitLogin PROVE TreeInv'
  BY <1>10 DEF CommitLogin, Commit, Short, StoreNothing
<1>11. ASSUME CommitData PROVE TreeInv'
  BY <1>11 DEF CommitData, Commit, StoreData
<1>12. ASSUME CommitPing PROVE TreeInv'
  BY <1>12 DEF CommitPing, Commit, StoreNothing
<1>13. ASSUME CommitBlackbox PROVE TreeInv'
  BY <1>13 DEF CommitBlackbox, Commit, StoreData, StoreNothing
<1>14. ASSUME CommitImage PROVE TreeInv'
  BY <1>14 DEF CommitImage, Commit, StoreNothing
<1>15. ASSUME Transmit PROVE TreeInv'
  BY <1>15 DEF Transmit
<1>16. ASSUME NEW ok \in BOOLEAN, HandleProcessData(ok) PROVE TreeInv'
  BY <1>16 DEF HandleProcessData
<1>17. ASSUME UNCHANGED vars PROVE TreeInv'
  BY <1>17 DEF vars
<1> QED
  BY <1>1, <1>2, <1>3, <1>4, <1>5, <1>6, <1>7, <1>8, <1>9, <1>10, <1>11, <1>12, <1>13,
     <1>14, <1>15, <1>16, <1>17
  DEF Next, Consume, CommitLine

(* The parser never writes to a tree that the dispatchers have, however the  *)
(* bars and the fields of a line come.                                       *)
THEOREM TreeNotShared == Spec => []SharedTreeUntouched
<1>1. TreeInv => SharedTreeUntouched
  BY DEF TreeInv
<1> QED
  BY <1>1, InitType, NextType, InitTree, NextTree, PTL DEF Spec

-----------------------------------------------------------------------------
(* The replies *)

LEMMA InitReply == Init => ReplyInv
  BY DEF Init, ReplyInv

\* What a client gets that has nothing yet.
LEMMA FirstReply ==
  ASSUME NEW b
  PROVE  Append(<<>>, b) # <<>> /\ Len(Append(<<>>, b)) = 1 /\ Append(<<>>, b)[1] = b
<1>1. <<>> \in Seq({b}) /\ Len(<<>>) = 0
  BY EmptySeq
<1> QED
  BY <1>1, AppendProperties

\* A token of a line: nothing is due.
LEMMA TokenReply ==
  ASSUME ReplyInv, NEW t, Token(t), UNCHANGED <<pending, reply>>, lockStep => current' # "B"
  PROVE  ReplyInv'
  BY DEF ReplyInv, Token, reply

\* A line is committed: its reply is written, or asked for, or there is none.
LEMMA CommitReply ==
  ASSUME TypeInv, ReplyInv, LineEnd, UNCHANGED <<cmd, current>>,
         \/ UNCHANGED <<pending, reply>>
         \/ pending' = pending + 1 /\ UNCHANGED reply
         \/ UNCHANGED pending /\ \E msg : Answer(cmd, msg)
  PROVE  ReplyInv'
<1> USE DEF ReplyInv, LineEnd, reply
<1>1. CASE UNCHANGED <<pending, reply>>
  BY <1>1
<1>2. CASE pending' = pending + 1 /\ UNCHANGED reply
  BY <1>2
<1>3. CASE UNCHANGED pending /\ \E msg : Answer(cmd, msg)
  <2>1. PICK msg : Answer(cmd, msg)
    BY <1>3
  <2>2. writes' = writes + 1 /\ buffer'[1] = cmd
    BY <2>1, AnswerWrites
  <2> QED
    BY <1>3, <2>2
<1> QED
  BY <1>1, <1>2, <1>3

LEMMA NextReply == TypeInv /\ ReplyInv /\ [Next]_vars => ReplyInv'
<1> SUFFICES ASSUME TypeInv, ReplyInv, [Next]_vars PROVE ReplyInv'
  OBVIOUS
<1> USE DEF parser, reply, input, line
<1>0. lockStep => current # "B"
  BY DEF ReplyInv
<1>1. ASSUME BeginLine PROVE ReplyInv'
  BY <1>1, TypeParts DEF BeginLine, ReplyInv, TypeInv, Values
<1>2. ASSUME NEW t \in Words \cup Delimiters, ConsumeInitial(t) PROVE ReplyInv'
  <2>1. Token(t) /\ UNCHANGED <<pending, reply>> /\ (lockStep => current' # "B")
    BY <1>2, <1>0 DEF ConsumeInitial, Token
  <2> QED
    BY <2>1, TokenReply
<1>3. ASSUME NEW t \in Words \cup Delimiters, ConsumeHash(t) PROVE ReplyInv'
  <2>1. Token(t) /\ UNCHANGED <<pending, reply>> /\ (lockStep => current' # "B")
    BY <1>3, <1>0 DEF ConsumeHash, Token
  <2> QED
    BY <2>1, TokenReply
<1>4. ASSUME NEW t \in Words \cup Delimiters, ConsumeCommand(t) PROVE ReplyInv'
  <2>1. lockStep' = lockStep /\ (lockStep => t # "B")
    BY <1>4 DEF ConsumeCommand, Token, Words, Delimiters
  <2>2. Token(t) /\ UNCHANGED <<pending, reply>> /\ (lockStep => current' # "B")
    BY <1>4, <1>0, <2>1 DEF ConsumeCommand
  <2> QED
    BY <2>2, TokenReply
<1>5. ASSUME NEW t \in Words \cup Delimiters, ConsumeField(t) PROVE ReplyInv'
  <2>1. Token(t) /\ UNCHANGED <<pending, reply>> /\ (lockStep => current' # "B")
    BY <1>5, <1>0 DEF ConsumeField, Token
  <2> QED
    BY <2>1, TokenReply
<1>6. ASSUME NEW t \in Words \cup Delimiters, ConsumeShortBlock(t) PROVE ReplyInv'
  <2>1. ~lockStep /\ lockStep' = lockStep
    BY <1>6, <1>0 DEF ConsumeShortBlock, Token, TypeInv, Parsing
  <2> QED
    BY <2>1 DEF ReplyInv
<1>7. ASSUME NEW t \in Words \cup Delimiters, ConsumeBar(t) PROVE ReplyInv'
  <2>1. ~lockStep /\ lockStep' = lockStep
    BY <1>7, <1>0 DEF ConsumeBar, Token, TypeInv, Parsing
  <2> QED
    BY <2>1 DEF ReplyInv
<1>8. ASSUME NEW t \in Words \cup Delimiters, ConsumeSkip(t) PROVE ReplyInv'
  <2>1. Token(t) /\ UNCHANGED <<pending, reply>> /\ (lockStep => current' # "B")
    BY <1>8, <1>0 DEF ConsumeSkip, Token
  <2> QED
    BY <2>1, TokenReply
<1>9. ASSUME EndUncommitted PROVE ReplyInv'
  BY <1>9, CommitReply DEF EndUncommitted, line
<1>10. ASSUME CommitLogin PROVE ReplyInv'
  <2>1. LineEnd /\ UNCHANGED <<cmd, current>>
    BY <1>10 DEF CommitLogin, Commit
  <2>2. UNCHANGED pending /\ \E msg : Answer(cmd, msg)
    BY <1>10, Zenon DEF CommitLogin, StoreNothing
  <2> QED
    BY <2>1, <2>2, CommitReply
<1>11. ASSUME CommitData PROVE ReplyInv'
  <2>1. LineEnd /\ UNCHANGED <<cmd, current>>
    BY <1>11 DEF CommitData, Commit
  <2>2. pending' = pending + 1 /\ UNCHANGED reply
    BY <1>11 DEF CommitData, StoreData
  <2> QED
    BY <2>1, <2>2, CommitReply
<1>12. ASSUME CommitPing PROVE ReplyInv'
  <2>1. LineEnd /\ UNCHANGED <<cmd, current>>
    BY <1>12 DEF CommitPing, Commit
  <2>2. UNCHANGED pending /\ \E msg : Answer(cmd, msg)
    BY <1>12, Zenon DEF CommitPing, StoreNothing
  <2> QED
    BY <2>1, <2>2, CommitReply
<1>13. ASSUME CommitBlackbox PROVE ReplyInv'
  <2>1. ~lockStep /\ lockStep' = lockStep
    BY <1>13, <1>0 DEF CommitBlackbox, Commit, LineEnd
  <2> QED
    BY <2>1 DEF ReplyInv
<1>14. ASSUME CommitImage PROVE ReplyInv'
  <2>1. LineEnd /\ UNCHANGED <<cmd, current>>
    BY <1>14 DEF CommitImage, Commit
  <2>2. UNCHANGED <<pending, reply>>
    BY <1>14 DEF CommitImage, StoreNothing
  <2> QED
    BY <2>1, <2>2, CommitReply
<1>15. ASSUME Transmit PROVE ReplyInv'
  <2>1. CASE ~lockStep
    BY <1>15, <2>1 DEF Transmit, ReplyInv
  <2>2. CASE lockStep
    <3>1. /\ current # "B" /\ ~inLine /\ replies = <<>> /\ writes = 1 /\ pending = 0
          /\ buffer[1] = cmd
      BY <1>15, <2>2, TypeParts DEF Transmit, ReplyInv, TypeInv, Values
    <3>2. /\ writes' = 0 /\ pending' = 0 /\ replies' = Append(<<>>, buffer)
          /\ UNCHANGED <<lockStep, current, cmd, inLine>>
      BY <1>15, <3>1 DEF Transmit
    <3> QED
      BY <3>1, <3>2, FirstReply DEF ReplyInv
  <2> QED
    BY <2>1, <2>2
<1>16. ASSUME NEW ok \in BOOLEAN, HandleProcessData(ok) PROVE ReplyInv'
  <2>1. CASE ~lockStep
    BY <1>16, <2>1 DEF HandleProcessData, ReplyInv
  <2>2. CASE lockStep
    <3>1. PICK msg : Answer(cmd, msg)
      BY <1>16, <2>2, <1>0, Zenon DEF HandleProcessData
    <3>2. writes' = writes + 1 /\ buffer'[1] = cmd
      BY <3>1, AnswerWrites
    <3>3. /\ pending > 0 /\ pending' = pending - 1
          /\ UNCHANGED <<lockStep, current, cmd, inLine, replies>>
      BY <1>16 DEF HandleProcessData
    <3>4. ~inLine /\ replies = <<>> /\ pending = 1 /\ writes = 0
      BY <2>2, <3>3, TypeParts DEF ReplyInv, TypeInv, Values
    <3> QED
      BY <2>2, <1>0, <3>2, <3>3, <3>4 DEF ReplyInv
  <2> QED
    BY <2>1, <2>2
<1>17. ASSUME UNCHANGED vars PROVE ReplyInv'
  BY <1>17 DEF vars, ReplyInv
<1> QED
  BY <1>1, <1>2, <1>3, <1>4, <1>5, <1>6, <1>7, <1>8, <1>9, <1>10, <1>11, <1>12, <1>13,
     <1>14, <1>15, <1>16, <1>17
  DEF Next, Consume, CommitLine

(* A client that waits for each reply gets one, after its line and with the  *)
(* line's own command.                                                       *)
THEOREM RepliesMatch == Spec => []ReplyMatches
<1>1. ReplyInv => ReplyMatches
  BY DEF ReplyInv, ReplyMatches
<1> QED
  BY <1>1, InitType, NextType, InitReply, NextReply, PTL DEF Spec

-----------------------------------------------------------------------------
(* The blocks *)

LEMMA InitBlocks == Init => BlocksInv
  BY DEF Init, BlocksInv, BlocksStored, PastCommand

LEMMA StoredIfWhole == BlocksStored <=> (~inLine /\ committed /\ current = "B" /\ Whole => stored = Len(blocks))
  BY DEF BlocksStored, Whole

\* What a token does to the blocks of a line.  A line that is not whole stays so.
LEMMA TokenBlocks ==
  ASSUME TypeInv, NEW t, Token(t), state # "HASH_SECOND", blocks # <<>>
  PROVE  /\ blocks' # <<>> /\ Len(blocks) \in Nat \ {0} /\ blocks[Len(blocks)] \in Nat
         /\ Whole' => Whole
         /\ t = "|" =>
              /\ Len(blocks') = Len(blocks) + 1 /\ blocks'[Len(blocks')] = 0
              /\ Whole' => blocks[Len(blocks)] < Fields["B"]
         /\ t # "|" =>
              /\ Len(blocks') = Len(blocks)
              /\ blocks'[Len(blocks')] = blocks[Len(blocks)] + 1
              /\ Whole' => blocks[Len(blocks)] + 1 <= Fields["B"]
<1>1. blocks \in Seq(Nat) /\ Len(blocks) \in Nat \ {0} /\ blocks[Len(blocks)] \in Nat
  BY BlockCounted DEF TypeInv, TypeOK
<1>2. Fields["B"] \in Nat
  BY SessionAssumption DEF Known
<1>3. CASE t = "|"
  <2>1. blocks' = Append(blocks, 0)
    BY <1>3 DEF Token
  <2>2. /\ blocks' # <<>> /\ Len(blocks') = Len(blocks) + 1 /\ blocks'[Len(blocks')] = 0
        /\ \A i \in 1..Len(blocks) : blocks'[i] = blocks[i]
    BY <1>1, <2>1, BlockBegun
  <2>3. ASSUME Whole' PROVE Whole /\ blocks[Len(blocks)] < Fields["B"]
    <3>1. \A i \in 1..Len(blocks) : blocks'[i] < Fields["B"]
      BY <1>1, <1>2, <2>2, <2>3 DEF Whole
    <3>2. Len(blocks) \in 1..Len(blocks)
      BY <1>1
    <3>3. blocks[Len(blocks)] < Fields["B"] /\ blocks[Len(blocks)] <= Fields["B"]
      BY <1>1, <1>2, <2>2, <3>1, <3>2
    <3>4. \A i \in 1..Len(blocks) - 1 : blocks[i] < Fields["B"]
      BY <1>1, <2>2, <3>1
    <3> QED
      BY <3>3, <3>4 DEF Whole
  <2> QED
    BY <1>1, <1>3, <2>2, <2>3
<1>4. CASE t # "|"
  <2>1. blocks' = [blocks EXCEPT ![Len(blocks)] = @ + 1]
    BY <1>4 DEF Token
  <2>2. /\ Len(blocks') = Len(blocks) /\ blocks'[Len(blocks)] = blocks[Len(blocks)] + 1
        /\ \A i \in 1..Len(blocks) - 1 : blocks'[i] = blocks[i]
    BY <1>1, <2>1, BlockCounted
  <2>3. blocks' # <<>>
    <3>1. Len(<<>>) = 0
      OBVIOUS
    <3> QED
      BY <1>1, <2>2, <3>1
  <2>4. ASSUME Whole' PROVE Whole /\ blocks[Len(blocks)] + 1 <= Fields["B"]
    BY <1>1, <1>2, <2>2, <2>4 DEF Whole
  <2> QED
    BY <1>1, <1>4, <2>2, <2>3, <2>4
<1> QED
  BY <1>3, <1>4

LEMMA NextBlocks == TypeInv /\ TreeInv /\ BlocksInv /\ [Next]_vars => BlocksInv'
<1> SUFFICES ASSUME TypeInv, TreeInv, BlocksInv, [Next]_vars PROVE BlocksInv'
  OBVIOUS
<1> USE TypeParts, SessionAssumption
<1> USE DEF TypeInv, Parsing, BlocksInv, PastCommand, parser, reply, input, line
<1>1. ASSUME BeginLine PROVE BlocksInv'
  <2>1. state = "INITIAL" /\ UNCHANGED state /\ stored' = 0 /\ inLine'
    BY <1>1 DEF BeginLine
  <2> QED
    BY <2>1 DEF BlocksStored
<1>2. ASSUME NEW t \in Words \cup Delimiters, ConsumeInitial(t) PROVE BlocksInv'
  <2>1. state = "INITIAL" /\ state' = "HASH_FIRST" /\ stored' = stored /\ inLine /\ inLine'
    BY <1>2 DEF ConsumeInitial, Token
  <2> QED
    BY <2>1 DEF BlocksStored
<1>3. ASSUME NEW t \in Words \cup Delimiters, ConsumeHash(t) PROVE BlocksInv'
  <2>1. /\ inLine /\ inLine' /\ UNCHANGED <<stored, treeStores, current, estimate>>
        /\ \/ state = "HASH_FIRST" /\ state' = "COMMAND"
           \/ state = "HASH_SECOND" /\ state' = "BODY" /\ t = "#"
           \/ state \in {"HASH_FIRST", "HASH_SECOND"} /\ state' = "SKIP_TO_END"
    BY <1>3 DEF ConsumeHash, Token
  <2>2. CASE state' = "BODY"
    <3>1. blocks' = <<0>> /\ stored' = 0 /\ treeStores' = 0 /\ estimate' = Fields[current']
      BY <1>3, <2>1, <2>2 DEF ConsumeHash, Token, TreeInv
    <3>2. blocks' # <<>> /\ Len(blocks') = 1 /\ blocks'[1] = 0
      BY <3>1
    <3> QED
      BY <2>1, <2>2, <3>1, <3>2 DEF BlocksStored, Known
  <2>3. CASE state' # "BODY"
    BY <2>1, <2>3 DEF BlocksStored
  <2> QED
    BY <2>2, <2>3
<1>4. ASSUME NEW t \in Words \cup Delimiters, ConsumeCommand(t) PROVE BlocksInv'
  <2>1. /\ state = "COMMAND" /\ state' \in {"HASH_SECOND", "SKIP_TO_END"}
        /\ inLine /\ inLine' /\ stored' = stored
    BY <1>4 DEF ConsumeCommand, Token
  <2> QED
    BY <2>1 DEF BlocksStored
<1>5. ASSUME NEW t \in Words \cup Delimiters, ConsumeField(t) PROVE BlocksInv'
  <2>1. /\ state = "BODY" /\ UNCHANGED <<current, stored, treeStores>> /\ Token(t)
        /\ inLine /\ inLine'
        /\ estimate' = IF estimate > 0 THEN estimate - 1 ELSE 0
        /\ state' = IF estimate' > 0 THEN "BODY" ELSE IF current = "B" THEN "BAR" ELSE "END"
        /\ current = "B" => t # "|"
    BY <1>5 DEF ConsumeField, Token
  <2>2. blocks' # <<>> /\ Len(blocks) \in Nat \ {0} /\ blocks[Len(blocks)] \in Nat
    BY <2>1, TokenBlocks
  <2>3. CASE current = "B"
    <3>1. /\ Len(blocks') = Len(blocks) /\ blocks'[Len(blocks')] = blocks[Len(blocks)] + 1
          /\ Whole' => Whole /\ blocks[Len(blocks)] + 1 <= Fields["B"]
      BY <2>1, <2>3, TokenBlocks
    <3>2. Fields["B"] \in Nat
      BY DEF Known
    <3>3. ASSUME Whole'
          PROVE  /\ stored' = Len(blocks') - 1 /\ treeStores' = 0
                 /\ estimate' = Fields["B"] - blocks'[Len(blocks')]
      BY <2>1, <2>2, <2>3, <3>1, <3>2, <3>3
    <3> QED
      BY <2>1, <2>2, <3>3 DEF BlocksStored
  <2>4. CASE current # "B"
    BY <2>1, <2>2, <2>4 DEF BlocksStored
  <2> QED
    BY <2>3, <2>4
<1>6. ASSUME NEW t \in Words \cup Delimiters, ConsumeShortBlock(t) PROVE BlocksInv'
  <2>1. /\ state = "BODY" /\ current = "B" /\ t = "|" /\ Token(t)
        /\ UNCHANGED <<state, current>> /\ inLine /\ inLine'
        /\ stored' = IF treeStores = 0 THEN stored + 1 ELSE stored
        /\ treeStores' = 0 /\ estimate' = Fields["B"]
    BY <1>6 DEF ConsumeShortBlock, Token, NewTree
  <2>2. /\ blocks' # <<>> /\ Len(blocks) \in Nat \ {0}
        /\ Len(blocks') = Len(blocks) + 1 /\ blocks'[Len(blocks')] = 0
        /\ Whole' => Whole
    BY <2>1, TokenBlocks
  <2>3. Fields["B"] \in Nat
    BY DEF Known
  <2> QED
    BY <2>1, <2>2, <2>3 DEF BlocksStored
<1>7. ASSUME NEW t \in Words \cup Delimiters, ConsumeBar(t) PROVE BlocksInv'
  <2>1. /\ state = "BAR" /\ current = "B" /\ estimate = 0 /\ Token(t)
        /\ state' \in {"BODY", "SKIP_TO_BAR_OR_END"} /\ inLine /\ inLine'
    BY <1>7 DEF ConsumeBar, Token
  <2>2. blocks' # <<>> /\ ~Whole'
    <3>1. Fields["B"] \in Nat
      BY DEF Known
    <3> QED
      BY <2>1, <3>1, TokenBlocks
  <2> QED
    BY <2>1, <2>2 DEF BlocksStored
<1>8. ASSUME NEW t \in Words \cup Delimiters, ConsumeSkip(t) PROVE BlocksInv'
  <2>1. /\ state \in {"SKIP_TO_BAR_OR_END", "SKIP_TO_END", "END"} /\ Token(t)
        /\ state' \in {"SKIP_TO_BAR_OR_END", "SKIP_TO_END", "BODY"} /\ inLine /\ inLine'
        /\ state' # "SKIP_TO_END" => state = "SKIP_TO_BAR_OR_END"
    BY <1>8 DEF ConsumeSkip, Token
  <2>2. CASE state = "SKIP_TO_BAR_OR_END"
    <3>1. blocks' # <<>> /\ ~Whole'
      BY <2>1, <2>2, TokenBlocks
    <3> QED
      BY <2>1, <3>1 DEF BlocksStored
  <2>3. CASE state # "SKIP_TO_BAR_OR_END"
    BY <2>1, <2>3 DEF BlocksStored
  <2> QED
    BY <2>2, <2>3
<1>9. ASSUME EndUncommitted PROVE BlocksInv'
  <2>1. state' = "INITIAL" /\ ~inLine' /\ ~committed'
    BY <1>9 DEF EndUncommitted, LineEnd
  <2> QED
    BY <2>1 DEF BlocksStored
<1>10. ASSUME CommitLogin PROVE BlocksInv'
  <2>1. state' = "INITIAL" /\ ~inLine' /\ current' # "B"
    BY <1>10 DEF CommitLogin, Commit, LineEnd
  <2> QED
    BY <2>1 DEF BlocksStored
<1>11. ASSUME CommitData PROVE BlocksInv'
  <2>1. state' = "INITIAL" /\ ~inLine' /\ current' # "B"
    BY <1>11 DEF CommitData, Commit, LineEnd
  <2> QED
    BY <2>1 DEF BlocksStored
<1>12. ASSUME CommitPing PROVE BlocksInv'
  <2>1. state' = "INITIAL" /\ ~inLine' /\ current' # "B"
    BY <1>12 DEF CommitPing, Commit, LineEnd
  <2> QED
    BY <2>1 DEF BlocksStored
<1>13. ASSUME CommitBlackbox PROVE BlocksInv'
  <2>1. /\ current = "B" /\ state \in {"BODY", "BAR", "SKIP_TO_BAR_OR_END"}
        /\ state' = "INITIAL" /\ ~inLine' /\ UNCHANGED <<current, blocks>>
        /\ state \in {"BODY", "BAR"} =>
             stored' = IF treeStores = 0 THEN stored + 1 ELSE stored
    BY <1>13 DEF CommitBlackbox, Commit, Short, LineEnd, StoreData
  <2>2. Whole' <=> Whole
    BY <2>1 DEF Whole
  <2>3. Len(blocks) \in Nat
    BY LenProperties DEF Values
  <2>4. Whole => stored' = Len(blocks)
    BY <2>1, <2>3
  <2>5. BlocksStored'
    BY <2>1, <2>2, <2>4, StoredIfWhole DEF BlocksStored, Whole
  <2> QED
    BY <2>1, <2>5
<1>14. ASSUME CommitImage PROVE BlocksInv'
  <2>1. state' = "INITIAL" /\ ~inLine' /\ current' # "B"
    BY <1>14 DEF CommitImage, Commit, LineEnd
  <2> QED
    BY <2>1 DEF BlocksStored
<1>15. ASSUME Transmit PROVE BlocksInv'
  <2>1. UNCHANGED <<state, inLine, committed, current, blocks, stored, treeStores, estimate>>
    BY <1>15 DEF Transmit
  <2> QED
    BY <2>1 DEF Whole, BlocksStored
<1>16. ASSUME NEW ok \in BOOLEAN, HandleProcessData(ok) PROVE BlocksInv'
  <2>1. UNCHANGED <<state, inLine, committed, current, blocks, stored, treeStores, estimate>>
    BY <1>16 DEF HandleProcessData
  <2> QED
    BY <2>1 DEF Whole, BlocksStored
<1>17. ASSUME UNCHANGED vars PROVE BlocksInv'
  <2>1. UNCHANGED <<state, inLine, committed, current, blocks, stored, treeStores, estimate>>
    BY <1>17 DEF vars
  <2> QED
    BY <2>1 DEF Whole, BlocksStored
<1> QED
  BY <1>1, <1>2, <1>3, <1>4, <1>5, <1>6, <1>7, <1>8, <1>9, <1>10, <1>11, <1>12, <1>13,
     <1>14, <1>15, <1>16, <1>17
  DEF Next, Consume, CommitLine

(* Every block of a black box line is stored, and stored once, as long as    *)
(* only the last one has all its fields, for any number of blocks and fields.*)
THEOREM EveryBlockStored == Spec => []BlocksStored
<1>1. BlocksInv => BlocksStored
  BY DEF BlocksInv
<1> QED
  BY <1>1, InitType, NextType, InitTree, NextTree, InitBlocks, NextBlocks, PTL DEF Spec
==============================================================================
