------------------------- MODULE RedisPipelineProofs -------------------------
(***************************************************************************)
(* Theorems about RedisPipeline, for any number of threads, requests and   *)
(* faults: its variables keep their types, busy_mutex_ admits one cycle at *)
(* a time, and the pipeline implements RequestLedger; and, with a single   *)
(* thread, the assertions of write() hold.                                 *)
(***************************************************************************)
EXTENDS RedisPipeline, SequenceTheorems, TLAPS

-----------------------------------------------------------------------------
(* Types *)

\* A thread that is storing a request has one in hand.
RequestInHand == \A t \in Threads : pc[t] \in {"lock", "push"} => req[t] \in Requests

TypeInv == TypeOK /\ RequestInHand

LEMMA InitType == Init => TypeInv
<1> SUFFICES ASSUME Init PROVE TypeInv
  OBVIOUS
<1>1. /\ outData \in Seq(Requests) /\ outCallbacks \in Seq(Requests)
      /\ tmpData \in Seq(Requests) /\ tmpCallbacks \in Seq(Requests)
      /\ inBuf \in Seq(Requests) /\ wire \in Seq(Requests)
  BY EmptySeq DEF Init
<1>2. answers \in [Requests -> Seq({"ok", "failed"})]
  BY EmptySeq DEF Init
<1>3. pc \in [Threads -> Steps] /\ req \in [Threads -> Requests \cup {NoRequest}]
  BY DEF Init, Steps
<1>4. faults \in 0..MaxFaults /\ dialling \in Nat
  BY PipelineAssumption DEF Init
<1>5. writes \in Nat /\ reads \in Nat /\ failures \in Nat
  BY DEF Init
<1> QED
  BY <1>1, <1>2, <1>3, <1>4, <1>5 DEF Init, TypeInv, TypeOK, RequestInHand

\* Every step keeps the types.
LEMMA NextType == TypeInv /\ [Next]_vars => TypeInv'
<1> SUFFICES ASSUME TypeInv, [Next]_vars PROVE TypeInv'
  OBVIOUS
<1> USE PipelineAssumption, EmptySeq
<1> USE DEF TypeInv, RequestInHand, TypeOK, Steps, locks, outBuf, outTmpBuf, buffers, ops, network, ledger,
            Goto, Called
<1>1. ASSUME NEW t \in Threads, NEW r \in Requests, Publish(t, r)
      PROVE  TypeInv'
  BY <1>1 DEF Publish
<1>2. ASSUME NEW t \in Threads, NEW r \in Requests, PublishRefused(t, r)
      PROVE  TypeInv'
  BY <1>2 DEF PublishRefused
<1>3. ASSUME NEW t \in Threads, StoreData(t) PROVE TypeInv'
  BY <1>3 DEF StoreData
<1>4. ASSUME NEW t \in Threads, StoreCallback(t) PROVE TypeInv'
  BY <1>4 DEF StoreCallback
<1>5. ASSUME NEW t \in Threads, WriteBusy(t) PROVE TypeInv'
  BY <1>5 DEF WriteBusy, Unlock
<1>6. ASSUME NEW t \in Threads, WriteLocked(t) PROVE TypeInv'
  BY <1>6 DEF WriteLocked, Swap
<1>7. ASSUME NEW t \in Threads, StartWrite(t) PROVE TypeInv'
  BY <1>7 DEF StartWrite, Unlock, StartWriting
<1>8. ASSUME NEW t \in Threads, HandleWrite(t) PROVE TypeInv'
  BY <1>8 DEF HandleWrite, StartReading
<1>9. ASSUME NEW t \in Threads, HandleRead(t) PROVE TypeInv'
  <2>1. PICK k \in 1..Len(wire) :
          /\ inBuf' = inBuf \o SubSeq(wire, 1, k)
          /\ wire' = SubSeq(wire, k + 1, Len(wire))
          /\ got' = got \cup {wire[i] : i \in 1..k}
    BY <1>9 DEF HandleRead
  <2>2. Len(wire) \in Nat /\ \A i \in 1..Len(wire) : wire[i] \in Requests
    BY LenProperties, ElementOfSeq
  <2>3. SubSeq(wire, 1, k) \in Seq(Requests)
    BY <2>2, SubSeqProperties
  <2>4. inBuf' \in Seq(Requests)
    BY <2>1, <2>3, ConcatProperties
  <2>5. wire' \in Seq(Requests)
    BY <2>1, <2>2, SubSeqProperties
  <2>6. got' \subseteq Requests
    BY <2>1, <2>2
  <2>7. /\ reads' \in Nat
        /\ pc' = [pc EXCEPT ![t] = "parse"]
        /\ UNCHANGED <<req, locks, isConnected, outBuf, outTmpBuf, writes, failures,
                       dialling, socketUp, faults, ledger>>
    BY <1>9 DEF HandleRead
  <2> QED
    BY <2>4, <2>5, <2>6, <2>7
<1>10. ASSUME NEW t \in Threads, ParseReply(t) PROVE TypeInv'
  BY <1>10 DEF ParseReply
<1>11. ASSUME NEW t \in Threads, ParseUnknown(t) PROVE TypeInv'
  BY <1>11 DEF ParseUnknown
<1>12. ASSUME NEW t \in Threads, ReadMore(t) PROVE TypeInv'
  BY <1>12 DEF ReadMore, StartReading
<1>13. ASSUME NEW t \in Threads, FinishIdle(t) PROVE TypeInv'
  BY <1>13 DEF FinishIdle
<1>14. ASSUME NEW t \in Threads, FinishWrite(t) PROVE TypeInv'
  BY <1>14 DEF FinishWrite, Swap
<1>15. ASSUME NEW t \in Threads, HandleError(t) PROVE TypeInv'
  BY <1>15 DEF HandleError
<1>16. ASSUME NEW t \in Threads, Close(t) PROVE TypeInv'
  <2>1. wire' \in Seq(Requests)
    BY <1>16 DEF Close, FailAll
  <2>2. writes' \in Nat /\ reads' \in Nat /\ failures' \in Nat
    BY <1>16 DEF Close, FailAll
  <2>3. dialling' \in Nat
    BY <1>16 DEF Close
  <2>4. socketUp' \in BOOLEAN /\ isConnected' \in BOOLEAN
    BY <1>16 DEF Close
  <2>5. pc' = [pc EXCEPT ![t] = "drop"]
    BY <1>16 DEF Close
  <2>6. UNCHANGED <<req, locks, buffers, faults, got, ledger>>
    BY <1>16 DEF Close
  <2> QED
    BY <2>1, <2>2, <2>3, <2>4, <2>5, <2>6
<1>17. ASSUME NEW t \in Threads, DropOne(t) PROVE TypeInv'
  BY <1>17 DEF DropOne
<1>18. ASSUME NEW t \in Threads, DropDone(t) PROVE TypeInv'
  BY <1>18 DEF DropDone
<1>19. ASSUME NEW t \in Threads, Dial(t) PROVE TypeInv'
  BY <1>19 DEF Dial
<1>20. ASSUME NEW t \in Threads, HandleConnect(t) PROVE TypeInv'
  BY <1>20 DEF HandleConnect
<1>21. ASSUME NEW t \in Threads, HandleConnectFails(t) PROVE TypeInv'
  BY <1>21 DEF HandleConnectFails
<1>22. ASSUME NEW t \in Threads, Flush(t) PROVE TypeInv'
  BY <1>22 DEF Flush
<1>23. ASSUME NEW t \in Threads, TimeoutConnect(t) PROVE TypeInv'
  BY <1>23 DEF TimeoutConnect, FailAll
<1>24. ASSUME Transmit PROVE TypeInv'
  BY <1>24 DEF Transmit
<1>25. ASSUME LoseConnection PROVE TypeInv'
  <2>1. wire' \in Seq(Requests)
    BY <1>25 DEF LoseConnection, FailAll
  <2>2. writes' \in Nat /\ reads' \in Nat /\ failures' \in Nat
    BY <1>25 DEF LoseConnection, FailAll
  <2>3. socketUp' \in BOOLEAN
    BY <1>25 DEF LoseConnection
  <2>5. faults < MaxFaults /\ faults' = faults + 1
    BY <1>25 DEF LoseConnection
  <2>6. faults' \in 0..MaxFaults
    BY <2>5
  <2>4. UNCHANGED <<pc, req, locks, isConnected, buffers, dialling, got, ledger>>
    BY <1>25 DEF LoseConnection
  <2> QED
    BY <2>1, <2>2, <2>3, <2>4, <2>6
<1>26. ASSUME UNCHANGED vars PROVE TypeInv'
  BY <1>26 DEF vars
<1> QED
  BY <1>1, <1>2, <1>3, <1>4, <1>5, <1>6, <1>7, <1>8, <1>9, <1>10, <1>11, <1>12,
     <1>13, <1>14, <1>15, <1>16, <1>17, <1>18, <1>19, <1>20, <1>21, <1>22, <1>23,
     <1>24, <1>25, <1>26
  DEF Next, Continue, Handle, Connecting, Quiescent

(* The variables keep their types: no handler runs that no operation owes,   *)
(* and no queue is popped when it is empty.                                  *)
THEOREM TypeCorrect == Spec => []TypeOK
<1>1. TypeInv => TypeOK
  BY DEF TypeInv
<1> QED
  BY <1>1, InitType, NextType, PTL DEF Spec

-----------------------------------------------------------------------------
(* One cycle at a time *)

\* A step that moves no thread into or out of the cycle and leaves busy_mutex_ and
\* the operations alone.
LEMMA OutsideCycle ==
  ASSUME TypeInv, OneCycle,
         NEW t \in Threads, NEW s \in Steps,
         pc' = [pc EXCEPT ![t] = s],
         s \in {"swapped", "parse", "close", "drop"} <=> InCycle(t),
         Pending' = Pending, busyMutex' = busyMutex
  PROVE  OneCycle'
  BY DEF TypeInv, TypeOK, OneCycle, InCycle

\* The thread of the cycle starts an operation and leaves.
LEMMA CycleToOperation ==
  ASSUME TypeInv, OneCycle,
         NEW t \in Threads, InCycle(t),
         pc' = [pc EXCEPT ![t] = "idle"],
         Pending' = Pending + 1, busyMutex' = busyMutex
  PROVE  OneCycle'
  BY DEF TypeInv, TypeOK, OneCycle, InCycle, Pending

\* A thread runs the handler of the operation.
LEMMA OperationToCycle ==
  ASSUME TypeInv, OneCycle,
         NEW t \in Threads, NEW s \in {"parse", "close"},
         pc' = [pc EXCEPT ![t] = s],
         Pending > 0, Pending' = Pending - 1, busyMutex' = busyMutex
  PROVE  OneCycle'
  BY DEF TypeInv, TypeOK, OneCycle, InCycle, Pending

\* The thread of the cycle unlocks busy_mutex_.
LEMMA CycleEnds ==
  ASSUME TypeInv, OneCycle,
         NEW t \in Threads, InCycle(t), NEW s \in {"idle", "dial"},
         pc' = [pc EXCEPT ![t] = s],
         Pending' = Pending, busyMutex' = FALSE
  PROVE  OneCycle'
  BY DEF TypeInv, TypeOK, OneCycle, InCycle, Pending

\* A thread locks busy_mutex_.
LEMMA CycleBegins ==
  ASSUME TypeInv, OneCycle,
         NEW t \in Threads, ~busyMutex,
         pc' = [pc EXCEPT ![t] = "swapped"],
         Pending' = Pending, busyMutex' = TRUE
  PROVE  OneCycle'
  BY DEF TypeInv, TypeOK, OneCycle, InCycle, Pending

\* No thread moves, and the number of operations stays the same.
LEMMA OperationsOnly ==
  ASSUME OneCycle, pc' = pc, Pending' = Pending, busyMutex' = busyMutex
  PROVE  OneCycle'
  BY DEF OneCycle, InCycle

LEMMA InitCycle == Init => OneCycle
  BY DEF Init, OneCycle, InCycle, Pending

LEMMA NextCycle == TypeInv /\ OneCycle /\ [Next]_vars => OneCycle'
<1> SUFFICES ASSUME TypeInv, OneCycle, [Next]_vars PROVE OneCycle'
  OBVIOUS
<1> USE DEF locks, network, ops, Goto
<1>1. ASSUME NEW t \in Threads, NEW r \in Requests, Publish(t, r)
      PROVE  OneCycle'
  BY <1>1, OutsideCycle DEF Publish, InCycle, Pending, Steps
<1>2. ASSUME NEW t \in Threads, NEW r \in Requests, PublishRefused(t, r)
      PROVE  OneCycle'
  BY <1>2, OperationsOnly DEF PublishRefused, Pending
<1>3. ASSUME NEW t \in Threads, StoreData(t) PROVE OneCycle'
  BY <1>3, OutsideCycle DEF StoreData, InCycle, Pending, Steps
<1>4. ASSUME NEW t \in Threads, StoreCallback(t) PROVE OneCycle'
  BY <1>4, OutsideCycle DEF StoreCallback, InCycle, Pending, Steps
<1>5. ASSUME NEW t \in Threads, WriteBusy(t) PROVE OneCycle'
  BY <1>5, OutsideCycle DEF WriteBusy, InCycle, Pending, Steps
<1>6. ASSUME NEW t \in Threads, WriteLocked(t) PROVE OneCycle'
  BY <1>6, CycleBegins DEF WriteLocked, Pending
<1>7. ASSUME NEW t \in Threads, StartWrite(t) PROVE OneCycle'
  <2>1. Pending' = Pending + 1
    BY <1>7 DEF StartWrite, StartWriting, Pending, TypeInv, TypeOK
  <2> QED
    BY <1>7, <2>1, CycleToOperation DEF StartWrite, InCycle
<1>8. ASSUME NEW t \in Threads, HandleWrite(t) PROVE OneCycle'
  <2>1. Pending' = Pending
    BY <1>8 DEF HandleWrite, StartReading, Pending, TypeInv, TypeOK
  <2> QED
    BY <1>8, <2>1, OperationsOnly DEF HandleWrite
<1>9. ASSUME NEW t \in Threads, HandleRead(t) PROVE OneCycle'
  <2>1. Pending > 0 /\ Pending' = Pending - 1
    BY <1>9 DEF HandleRead, Pending, TypeInv, TypeOK
  <2> QED
    BY <1>9, <2>1, OperationToCycle DEF HandleRead
<1>10. ASSUME NEW t \in Threads, ParseReply(t) PROVE OneCycle'
  BY <1>10, OperationsOnly DEF ParseReply, Pending
<1>11. ASSUME NEW t \in Threads, ParseUnknown(t) PROVE OneCycle'
  BY <1>11, OutsideCycle DEF ParseUnknown, InCycle, Pending, Steps
<1>12. ASSUME NEW t \in Threads, ReadMore(t) PROVE OneCycle'
  <2>1. Pending' = Pending + 1
    BY <1>12 DEF ReadMore, StartReading, Pending, TypeInv, TypeOK
  <2> QED
    BY <1>12, <2>1, CycleToOperation DEF ReadMore, InCycle
<1>13. ASSUME NEW t \in Threads, FinishIdle(t) PROVE OneCycle'
  BY <1>13, CycleEnds DEF FinishIdle, InCycle, Pending
<1>14. ASSUME NEW t \in Threads, FinishWrite(t) PROVE OneCycle'
  BY <1>14, OutsideCycle DEF FinishWrite, InCycle, Pending, Steps
<1>15. ASSUME NEW t \in Threads, HandleError(t) PROVE OneCycle'
  <2>1. Pending > 0 /\ Pending' = Pending - 1
    BY <1>15 DEF HandleError, Pending, TypeInv, TypeOK
  <2> QED
    BY <1>15, <2>1, OperationToCycle DEF HandleError
<1>16. ASSUME NEW t \in Threads, Close(t) PROVE OneCycle'
  <2>1. Pending' = Pending
    BY <1>16 DEF Close, FailAll, Pending, TypeInv, TypeOK
  <2> QED
    BY <1>16, <2>1, OutsideCycle DEF Close, InCycle, Steps
<1>17. ASSUME NEW t \in Threads, DropOne(t) PROVE OneCycle'
  BY <1>17, OperationsOnly DEF DropOne, Pending
<1>18. ASSUME NEW t \in Threads, DropDone(t) PROVE OneCycle'
  BY <1>18, CycleEnds DEF DropDone, InCycle, Pending
<1>19. ASSUME NEW t \in Threads, Dial(t) PROVE OneCycle'
  BY <1>19, OutsideCycle DEF Dial, InCycle, Pending, Steps
<1>20. ASSUME NEW t \in Threads, HandleConnect(t) PROVE OneCycle'
  BY <1>20, OutsideCycle DEF HandleConnect, InCycle, Pending, Steps
<1>21. ASSUME NEW t \in Threads, HandleConnectFails(t) PROVE OneCycle'
  BY <1>21, OperationsOnly DEF HandleConnectFails, Pending
<1>22. ASSUME NEW t \in Threads, Flush(t) PROVE OneCycle'
  BY <1>22, OutsideCycle DEF Flush, InCycle, Pending, Steps
<1>23. ASSUME NEW t \in Threads, TimeoutConnect(t) PROVE OneCycle'
  <2>1. Pending' = Pending
    BY <1>23 DEF TimeoutConnect, FailAll, Pending, TypeInv, TypeOK
  <2> QED
    BY <1>23, <2>1, OperationsOnly DEF TimeoutConnect
<1>24. ASSUME Transmit PROVE OneCycle'
  BY <1>24, OperationsOnly DEF Transmit, Pending
<1>25. ASSUME LoseConnection PROVE OneCycle'
  <2>1. Pending' = Pending
    BY <1>25 DEF LoseConnection, FailAll, Pending, TypeInv, TypeOK
  <2> QED
    BY <1>25, <2>1, OperationsOnly DEF LoseConnection
<1>26. ASSUME UNCHANGED vars PROVE OneCycle'
  BY <1>26, OperationsOnly DEF vars, Pending
<1> QED
  BY <1>1, <1>2, <1>3, <1>4, <1>5, <1>6, <1>7, <1>8, <1>9, <1>10, <1>11, <1>12,
     <1>13, <1>14, <1>15, <1>16, <1>17, <1>18, <1>19, <1>20, <1>21, <1>22, <1>23,
     <1>24, <1>25, <1>26
  DEF Next, Continue, Handle, Connecting, Quiescent

(* busy_mutex_, locked in one handler and unlocked in another, admits one    *)
(* cycle of write and read at a time, for any number of worker threads, and  *)
(* is unlocked only while it is locked.                                      *)
THEOREM OneCycleAtATime == Spec => []OneCycle
<1>1. Init => TypeInv /\ OneCycle
  BY InitType, InitCycle
<1>2. (TypeInv /\ OneCycle) /\ [Next]_vars => (TypeInv /\ OneCycle)'
  BY NextType, NextCycle
<1> QED
  BY <1>1, <1>2, PTL DEF Spec

-----------------------------------------------------------------------------
(* Queues of callbacks *)

\* push() adds one element at the end.
LEMMA PushElements ==
  ASSUME NEW q \in Seq(Requests), NEW r \in Requests
  PROVE  /\ Elements(Append(q, r)) = Elements(q) \cup {r}
         /\ Distinct(q) /\ r \notin Elements(q) => Distinct(Append(q, r))
<1>1. /\ Len(q) \in Nat
      /\ Len(Append(q, r)) = Len(q) + 1
      /\ \A i \in 1..Len(q) : Append(q, r)[i] = q[i]
      /\ Append(q, r)[Len(q) + 1] = r
  BY AppendProperties, LenProperties
<1>2. Elements(Append(q, r)) = Elements(q) \cup {r}
  BY <1>1 DEF Elements
<1>3. ASSUME Distinct(q), r \notin Elements(q)
      PROVE  Distinct(Append(q, r))
  BY <1>1, <1>3 DEF Elements, Distinct
<1> QED
  BY <1>2, <1>3

\* pop() removes the front, which no other place of the queue lists.
LEMMA PopElements ==
  ASSUME NEW q \in Seq(Requests), q # <<>>, Distinct(q)
  PROVE  /\ Head(q) \in Elements(q)
         /\ Elements(Tail(q)) = Elements(q) \ {Head(q)}
         /\ Distinct(Tail(q))
<1>1. /\ Len(q) \in Nat /\ Len(q) > 0
      /\ Head(q) = q[1]
      /\ Len(Tail(q)) = Len(q) - 1
      /\ \A i \in 1..Len(Tail(q)) : Tail(q)[i] = q[i + 1]
  BY HeadTailProperties, LenProperties, EmptySeq
<1>2. \A i \in 1..Len(q) : i = 1 \/ (i - 1 \in 1..Len(Tail(q)) /\ Tail(q)[i - 1] = q[i])
  BY <1>1
<1>3. Elements(Tail(q)) = Elements(q) \ {Head(q)}
  BY <1>1, <1>2 DEF Elements, Distinct
<1>4. Distinct(Tail(q))
  BY <1>1 DEF Distinct
<1>5. Head(q) \in Elements(q)
  BY <1>1 DEF Elements
<1> QED
  BY <1>3, <1>4, <1>5

-----------------------------------------------------------------------------
(* Every request in one place *)

\* A step that stores, swaps, pops and answers nothing.
LEMMA SamePlaces ==
  ASSUME OnePlace,
         UNCHANGED <<outCallbacks, tmpCallbacks, asked, answers>>,
         \A t \in Threads : Storing(t)' <=> Storing(t),
         \A t \in Threads : Storing(t) => req'[t] = req[t]
  PROVE  OnePlace'
  BY DEF OnePlace

\* A thread moves between two steps at which it stores nothing, or stores the same.
LEMMA SamePlacesStep ==
  ASSUME TypeInv, OnePlace,
         NEW t \in Threads, NEW s \in Steps,
         pc' = [pc EXCEPT ![t] = s], req' = req,
         s \in {"lock", "push"} <=> Storing(t),
         UNCHANGED <<outCallbacks, tmpCallbacks, asked, answers>>
  PROVE  OnePlace'
<1>1. \A u \in Threads : Storing(u)' <=> Storing(u)
  BY DEF TypeInv, TypeOK, Storing
<1> QED
  BY <1>1, SamePlaces

\* boost::swap(out_buf_, out_tmp_buf_) by a thread that stores nothing.
LEMMA SwapPlaces ==
  ASSUME TypeInv, OnePlace, Swap,
         NEW t \in Threads, ~Storing(t),
         pc' = [pc EXCEPT ![t] = "swapped"],
         UNCHANGED <<req, asked, answers>>
  PROVE  OnePlace'
<1>1. \A u \in Threads : Storing(u)' <=> Storing(u)
  BY DEF TypeInv, TypeOK, Storing
<1> QED
  BY <1>1 DEF OnePlace, Swap

\* front()(a) and pop(), as handle_read() and drop() do.
LEMMA AnswerFront ==
  ASSUME TypeInv, OnePlace, NEW a \in {"ok", "failed"},
         tmpCallbacks # <<>>, tmpCallbacks' = Tail(tmpCallbacks),
         Called(Head(tmpCallbacks), a),
         UNCHANGED <<pc, req, outCallbacks, asked>>
  PROVE  OnePlace'
<1> DEFINE r == Head(tmpCallbacks)
<1>1. /\ r \in Elements(tmpCallbacks)
      /\ Elements(tmpCallbacks') = Elements(tmpCallbacks) \ {r}
      /\ Distinct(tmpCallbacks')
  BY PopElements DEF TypeInv, TypeOK, OnePlace
<1>2. r \in Requests /\ answers[r] = <<>> /\ r \in asked
  BY <1>1, HeadTailProperties DEF TypeInv, TypeOK, OnePlace
<1>3. answers'[r] # <<>> /\ \A q \in Requests \ {r} : answers'[q] = answers[q]
  <2>1. answers'[r] = Append(answers[r], a)
    BY <1>2 DEF Called, TypeInv, TypeOK
  <2>2. Append(answers[r], a) # <<>>
    BY <1>2, AppendProperties DEF TypeInv, TypeOK
  <2> QED
    BY <2>1, <2>2 DEF Called, TypeInv, TypeOK
<1>4. \A t \in Threads : (Storing(t)' <=> Storing(t)) /\ (Storing(t) => req[t] # r)
  BY <1>1 DEF OnePlace, Storing
<1> HIDE DEF r
<1> QED
  BY <1>1, <1>2, <1>3, <1>4 DEF OnePlace

LEMMA InitPlace == Init => OnePlace
<1> SUFFICES ASSUME Init PROVE OnePlace
  OBVIOUS
<1>1. Elements(<<>>) = {} /\ Distinct(<<>>)
  BY DEF Elements, Distinct
<1>2. \A t \in Threads : ~Storing(t)
  BY DEF Init, Storing
<1> QED
  BY <1>1, <1>2 DEF Init, OnePlace

LEMMA NextPlace == TypeInv /\ OnePlace /\ [Next]_vars => OnePlace'
<1> SUFFICES ASSUME TypeInv, OnePlace, [Next]_vars PROVE OnePlace'
  OBVIOUS
<1> USE DEF outBuf, outTmpBuf, buffers, ledger, Goto
<1>1. ASSUME NEW t \in Threads, NEW r \in Requests, Publish(t, r)
      PROVE  OnePlace'
  <2>1. /\ r \notin asked /\ asked' = asked \cup {r} /\ answers[r] = <<>>
        /\ ~Storing(t) /\ Storing(t)' /\ req'[t] = r
        /\ UNCHANGED <<outCallbacks, tmpCallbacks, answers>>
    BY <1>1 DEF Publish, Storing, OnePlace, TypeInv, TypeOK
  <2>2. \A u \in Threads \ {t} : (Storing(u)' <=> Storing(u)) /\ req'[u] = req[u]
    BY <1>1 DEF Publish, Storing, TypeInv, TypeOK
  <2>3. /\ r \notin Elements(outCallbacks) \cup Elements(tmpCallbacks)
        /\ \A u \in Threads : Storing(u) => req[u] # r
    BY <2>1 DEF OnePlace
  <2> QED
    BY <2>1, <2>2, <2>3 DEF OnePlace
<1>2. ASSUME NEW t \in Threads, NEW r \in Requests, PublishRefused(t, r)
      PROVE  OnePlace'
  <2>1. /\ r \notin asked /\ asked' = asked \cup {r}
        /\ UNCHANGED <<outCallbacks, tmpCallbacks, req>>
        /\ \A u \in Threads : Storing(u)' <=> Storing(u)
    BY <1>2 DEF PublishRefused, Storing
  <2>2. /\ r \notin Elements(outCallbacks) \cup Elements(tmpCallbacks)
        /\ \A u \in Threads : Storing(u) => req[u] # r
    BY <2>1 DEF OnePlace
  <2>3. answers'[r] = Append(answers[r], "failed")
    BY <1>2 DEF PublishRefused, Called, TypeInv, TypeOK
  <2>4. answers'[r] # <<>>
    <3>1. answers[r] \in Seq({"ok", "failed"}) /\ "failed" \in {"ok", "failed"}
      BY DEF TypeInv, TypeOK
    <3> QED
      BY <2>3, <3>1, AppendProperties
  <2>5. \A q \in Requests \ {r} : answers'[q] = answers[q]
    BY <1>2 DEF PublishRefused, Called, TypeInv, TypeOK
  <2> QED
    BY <2>1, <2>2, <2>4, <2>5 DEF OnePlace
<1>3. ASSUME NEW t \in Threads, StoreData(t) PROVE OnePlace'
  BY <1>3, SamePlacesStep DEF StoreData, Storing, Steps
<1>4. ASSUME NEW t \in Threads, StoreCallback(t) PROVE OnePlace'
  <2> DEFINE r == req[t]
  <2>1. /\ Storing(t) /\ ~Storing(t)'
        /\ outCallbacks' = Append(outCallbacks, r)
        /\ UNCHANGED <<tmpCallbacks, asked, answers>>
    BY <1>4 DEF StoreCallback, Storing, TypeInv, TypeOK
  <2>2. \A u \in Threads \ {t} : (Storing(u)' <=> Storing(u)) /\ req'[u] = req[u]
    BY <1>4 DEF StoreCallback, Storing, TypeInv, TypeOK
  <2>3. /\ r \in Requests
        /\ r \notin Elements(outCallbacks) \cup Elements(tmpCallbacks)
        /\ r \in asked /\ answers[r] = <<>>
    BY <2>1 DEF OnePlace, Storing, TypeInv, RequestInHand
  <2>4. /\ Elements(outCallbacks') = Elements(outCallbacks) \cup {r}
        /\ Distinct(outCallbacks')
    BY <2>1, <2>3, PushElements DEF OnePlace, TypeInv, TypeOK
  <2>5. \A u \in Threads \ {t} : Storing(u) => req[u] # r
    BY <2>1 DEF OnePlace
  <2> HIDE DEF r
  <2>6. \A q \in Requests :
          (\E u \in Threads : Storing(u) /\ req[u] = q)
             <=> (q = r \/ \E u \in Threads : Storing(u)' /\ req'[u] = q)
    BY <2>1, <2>2, <2>5 DEF r
  <2> QED
    BY <2>1, <2>2, <2>3, <2>4, <2>5, <2>6 DEF OnePlace
<1>5. ASSUME NEW t \in Threads, WriteBusy(t) PROVE OnePlace'
  BY <1>5, SamePlacesStep DEF WriteBusy, Storing, Steps
<1>6. ASSUME NEW t \in Threads, WriteLocked(t) PROVE OnePlace'
  BY <1>6, SwapPlaces DEF WriteLocked, Storing
<1>7. ASSUME NEW t \in Threads, StartWrite(t) PROVE OnePlace'
  BY <1>7, SamePlacesStep DEF StartWrite, Storing, Steps
<1>8. ASSUME NEW t \in Threads, HandleWrite(t) PROVE OnePlace'
  BY <1>8, SamePlaces DEF HandleWrite, Storing
<1>9. ASSUME NEW t \in Threads, HandleRead(t) PROVE OnePlace'
  BY <1>9, SamePlacesStep DEF HandleRead, Storing, Steps
<1>10. ASSUME NEW t \in Threads, ParseReply(t) PROVE OnePlace'
  BY <1>10, AnswerFront DEF ParseReply
<1>11. ASSUME NEW t \in Threads, ParseUnknown(t) PROVE OnePlace'
  BY <1>11, SamePlacesStep DEF ParseUnknown, Storing, Steps
<1>12. ASSUME NEW t \in Threads, ReadMore(t) PROVE OnePlace'
  BY <1>12, SamePlacesStep DEF ReadMore, Storing, Steps
<1>13. ASSUME NEW t \in Threads, FinishIdle(t) PROVE OnePlace'
  BY <1>13, SamePlacesStep DEF FinishIdle, Storing, Steps
<1>14. ASSUME NEW t \in Threads, FinishWrite(t) PROVE OnePlace'
  BY <1>14, SwapPlaces DEF FinishWrite, Storing
<1>15. ASSUME NEW t \in Threads, HandleError(t) PROVE OnePlace'
  BY <1>15, SamePlacesStep DEF HandleError, Storing, Steps
<1>16. ASSUME NEW t \in Threads, Close(t) PROVE OnePlace'
  BY <1>16, SamePlacesStep DEF Close, Storing, Steps
<1>17. ASSUME NEW t \in Threads, DropOne(t) PROVE OnePlace'
  BY <1>17, AnswerFront DEF DropOne
<1>18. ASSUME NEW t \in Threads, DropDone(t) PROVE OnePlace'
  BY <1>18, SamePlacesStep DEF DropDone, Storing, Steps
<1>19. ASSUME NEW t \in Threads, Dial(t) PROVE OnePlace'
  BY <1>19, SamePlacesStep DEF Dial, Storing, Steps
<1>20. ASSUME NEW t \in Threads, HandleConnect(t) PROVE OnePlace'
  BY <1>20, SamePlacesStep DEF HandleConnect, Storing, Steps
<1>21. ASSUME NEW t \in Threads, HandleConnectFails(t) PROVE OnePlace'
  BY <1>21, SamePlaces DEF HandleConnectFails, Storing
<1>22. ASSUME NEW t \in Threads, Flush(t) PROVE OnePlace'
  BY <1>22, SamePlacesStep DEF Flush, Storing, Steps
<1>23. ASSUME NEW t \in Threads, TimeoutConnect(t) PROVE OnePlace'
  BY <1>23, SamePlaces DEF TimeoutConnect, Storing
<1>24. ASSUME Transmit PROVE OnePlace'
  BY <1>24, SamePlaces DEF Transmit, Storing
<1>25. ASSUME LoseConnection PROVE OnePlace'
  BY <1>25, SamePlaces DEF LoseConnection, Storing
<1>26. ASSUME UNCHANGED vars PROVE OnePlace'
  BY <1>26, SamePlaces DEF vars, Storing
<1> QED
  BY <1>1, <1>2, <1>3, <1>4, <1>5, <1>6, <1>7, <1>8, <1>9, <1>10, <1>11, <1>12,
     <1>13, <1>14, <1>15, <1>16, <1>17, <1>18, <1>19, <1>20, <1>21, <1>22, <1>23,
     <1>24, <1>25, <1>26
  DEF Next, Continue, Handle, Connecting, Quiescent

(* No request that was handed over is lost, and none is listed twice, for    *)
(* any number of threads.                                                    *)
THEOREM NoRequestLost == Spec => []OnePlace
<1>1. Init => TypeInv /\ OnePlace
  BY InitType, InitPlace
<1>2. (TypeInv /\ OnePlace) /\ [Next]_vars => (TypeInv /\ OnePlace)'
  BY NextType, NextPlace
<1> QED
  BY <1>1, <1>2, PTL DEF Spec

-----------------------------------------------------------------------------
(* The pipeline implements RequestLedger *)

\* The first call of the callback of a request that was handed over.
LEMMA AnswerStep ==
  ASSUME TypeInv, OnePlace, NEW a \in {"ok", "failed"},
         tmpCallbacks # <<>>, Called(Head(tmpCallbacks), a), UNCHANGED asked
  PROVE  \E r \in Requests : Ledger!Answer(r, a)
<1> DEFINE r == Head(tmpCallbacks)
<1>1. r \in Elements(tmpCallbacks) /\ r \in Requests
  BY PopElements, HeadTailProperties DEF TypeInv, TypeOK, OnePlace
<1>2. r \in asked /\ answers[r] = <<>>
  BY <1>1 DEF OnePlace
<1>3. answers' = [answers EXCEPT ![r] = <<a>>]
  BY <1>2 DEF Called
<1> QED
  BY <1>1, <1>2, <1>3 DEF Ledger!Answer

LEMMA InitLedger == Init => Ledger!Init
  BY DEF Init, Ledger!Init

\* Every step hands a request over, answers one, or is invisible to the callers.
LEMMA NextLedger ==
  TypeInv /\ OnePlace /\ [Next]_vars => [Ledger!Next]_(Ledger!vars)
<1> SUFFICES ASSUME TypeInv, OnePlace, [Next]_vars
             PROVE  Ledger!Next \/ UNCHANGED ledger
  BY DEF ledger, Ledger!vars
<1>1. ASSUME NEW t \in Threads, NEW r \in Requests, Publish(t, r)
      PROVE  Ledger!Next
  BY <1>1 DEF Publish, Ledger!Next, Ledger!Accept
<1>2. ASSUME NEW t \in Threads, NEW r \in Requests, PublishRefused(t, r)
      PROVE  Ledger!Next
  <2>1. answers[r] = <<>>
    BY <1>2 DEF PublishRefused, OnePlace
  <2>2. answers' = [answers EXCEPT ![r] = <<"failed">>]
    BY <1>2, <2>1 DEF PublishRefused, Called
  <2> QED
    BY <1>2, <2>2 DEF PublishRefused, Ledger!Next, Ledger!Refuse
<1>3. ASSUME NEW t \in Threads, ParseReply(t) PROVE Ledger!Next
  BY <1>3, AnswerStep DEF ParseReply, Ledger!Next, Ledger!Answers
<1>4. ASSUME NEW t \in Threads, DropOne(t) PROVE Ledger!Next
  BY <1>4, AnswerStep DEF DropOne, Ledger!Next, Ledger!Answers
<1>5. ASSUME NEW t \in Threads,
             \/ StoreData(t) \/ StoreCallback(t) \/ WriteBusy(t) \/ WriteLocked(t)
             \/ StartWrite(t) \/ ParseUnknown(t) \/ ReadMore(t) \/ FinishIdle(t)
             \/ FinishWrite(t) \/ Close(t) \/ DropDone(t) \/ Dial(t) \/ Flush(t)
      PROVE  UNCHANGED ledger
  BY <1>5 DEF StoreData, StoreCallback, WriteBusy, WriteLocked, StartWrite,
              ParseUnknown, ReadMore, FinishIdle, FinishWrite, Close, DropDone,
              Dial, Flush
<1>6. ASSUME NEW t \in Threads, Handle(t) \/ Connecting(t) \/ TimeoutConnect(t)
      PROVE  UNCHANGED ledger
  BY <1>6 DEF Handle, HandleWrite, HandleRead, HandleError, Connecting,
              HandleConnect, HandleConnectFails, TimeoutConnect, ledger
<1>7. ASSUME Transmit \/ LoseConnection \/ UNCHANGED vars
      PROVE  UNCHANGED ledger
  BY <1>7 DEF Transmit, LoseConnection, vars
<1> QED
  BY <1>1, <1>2, <1>3, <1>4, <1>5, <1>6, <1>7 DEF Next, Continue, Quiescent

(* Each request handed to publish() or ping() is answered at most once, and  *)
(* only after it was handed over, for any number of threads, requests and    *)
(* faults: the pipeline implements RequestLedger.                            *)
THEOREM PipelineImplementsLedger == Spec => LedgerSpec
<1>1. Init => TypeInv /\ OnePlace
  BY InitType, InitPlace
<1>2. (TypeInv /\ OnePlace) /\ [Next]_vars => (TypeInv /\ OnePlace)'
  BY NextType, NextPlace
<1> QED
  BY <1>1, <1>2, InitLedger, NextLedger, PTL DEF Spec, LedgerSpec, Ledger!Spec

-----------------------------------------------------------------------------
(* One worker *)

\* What the only thread t relies on: no one undoes its tests, a callback in out_buf_ has
\* its data there, and operations are under way on a connected socket only.
OneWorker(t) ==
  /\ outCallbacks # <<>> => outData # <<>>
  /\ pc[t] = "push" => outData # <<>>
  /\ ~busyMutex => tmpCallbacks = <<>>
  /\ pc[t] \in {"lock", "push", "write", "swapped", "parse", "flush"} => isConnected
  /\ pc[t] = "write" => outCallbacks # <<>>
  /\ pc[t] = "swapped" => tmpCallbacks # <<>> /\ tmpData # <<>>
  /\ reads + writes > 0 => socketUp
  /\ socketUp => isConnected

\* Every step of the only thread, and of the network, keeps it.
LEMMA NextOneWorker ==
  ASSUME NEW t, Threads = {t}, TypeInv, OneCycle, OneWorker(t), [Next]_vars
  PROVE  OneWorker(t)'
<1> USE DEF locks, network, ops, buffers, outBuf, outTmpBuf, Goto, OneWorker
<1>1. t \in Threads /\ pc \in [Threads -> Steps] /\ writes \in Nat /\ reads \in Nat
  BY DEF TypeInv, TypeOK
<1>2. /\ pc[t] = "swapped" => busyMutex /\ writes = 0 /\ reads = 0
      /\ pc[t] \in {"parse", "close", "drop"} => busyMutex
  BY <1>1 DEF TypeInv, TypeOK, OneCycle, InCycle, Pending
<1>3. ASSUME NEW r \in Requests, Publish(t, r) \/ PublishRefused(t, r) PROVE OneWorker(t)'
  BY <1>1, <1>3 DEF Publish, PublishRefused
<1>4. CASE StoreData(t)
  <2>1. outData' = Append(outData, req[t]) /\ outData \in Seq(Requests) /\ req[t] \in Requests
    BY <1>1, <1>4 DEF StoreData, TypeInv, TypeOK, RequestInHand
  <2>2. outData' # <<>>
    BY <2>1, AppendProperties
  <2> QED
    BY <1>1, <1>4, <2>2 DEF StoreData
<1>5. CASE StoreCallback(t)
  <2>1. /\ outCallbacks' = Append(outCallbacks, req[t])
        /\ outCallbacks \in Seq(Requests) /\ req[t] \in Requests
    BY <1>1, <1>5 DEF StoreCallback, TypeInv, TypeOK, RequestInHand
  <2>2. outCallbacks' # <<>>
    BY <2>1, AppendProperties
  <2> QED
    BY <1>1, <1>5, <2>2 DEF StoreCallback
<1>6. CASE WriteBusy(t)
  BY <1>1, <1>6 DEF WriteBusy
<1>7. CASE WriteLocked(t)
  BY <1>1, <1>7 DEF WriteLocked, Swap
<1>8. CASE StartWrite(t)
  BY <1>1, <1>8 DEF StartWrite, StartWriting
<1>9. CASE HandleWrite(t)
  BY <1>1, <1>9 DEF HandleWrite, StartReading
<1>10. CASE HandleRead(t)
  BY <1>1, <1>10 DEF HandleRead
<1>11. CASE ParseReply(t)
  BY <1>1, <1>2, <1>11 DEF ParseReply
<1>12. CASE ParseUnknown(t) \/ ReadMore(t)
  BY <1>1, <1>12 DEF ParseUnknown, ReadMore, StartReading
<1>13. CASE FinishIdle(t) \/ FinishWrite(t)
  BY <1>1, <1>2, <1>13 DEF FinishIdle, FinishWrite, Swap
<1>14. CASE HandleError(t)
  BY <1>1, <1>14 DEF HandleError
<1>15. CASE Close(t)
  BY <1>1, <1>15 DEF Close, FailAll
<1>16. CASE DropOne(t) \/ DropDone(t)
  BY <1>1, <1>2, <1>16 DEF DropOne, DropDone
<1>17. CASE Dial(t) \/ Flush(t)
  BY <1>1, <1>17 DEF Dial, Flush
<1>18. CASE HandleConnect(t) \/ HandleConnectFails(t)
  BY <1>1, <1>18 DEF HandleConnect, HandleConnectFails
<1>19. CASE TimeoutConnect(t) \/ LoseConnection
  BY <1>1, <1>19 DEF TimeoutConnect, LoseConnection, FailAll
<1>20. CASE Transmit
  BY <1>1, <1>2, <1>20 DEF Transmit
<1>21. CASE UNCHANGED vars
  BY <1>21 DEF vars
<1> QED
  BY <1>3, <1>4, <1>5, <1>6, <1>7, <1>8, <1>9, <1>10, <1>11, <1>12, <1>13, <1>14, <1>15,
     <1>16, <1>17, <1>18, <1>19, <1>20, <1>21
  DEF Next, Continue, Handle, Connecting, Quiescent

(* With one worker both assertions of write() hold (redis_connection.cpp:220 *)
(* and 221), and it writes on a connection that is_connected_ admits, for    *)
(* any number of requests and faults.                                        *)
THEOREM OneWorkerWrites == ASSUME NEW t, Threads = {t} PROVE Spec => []WriteSound
<1> DEFINE Inv == TypeInv /\ OneCycle /\ OneWorker(t)
<1>1. Init => Inv
  <2>1. Init => OneWorker(t)
    BY DEF Init, OneWorker
  <2> QED
    BY <2>1, InitType, InitCycle
<1>2. Inv /\ [Next]_vars => Inv'
  BY NextType, NextCycle, NextOneWorker
<1>3. Inv => WriteSound
  BY DEF OneWorker, WriteSound
<1> HIDE DEF Inv
<1> QED
  BY <1>1, <1>2, <1>3, PTL DEF Spec
==============================================================================
