---------------------------- MODULE RedisPipeline ----------------------------
(***************************************************************************)
(* redis_connection under several worker threads of the io_service.        *)
(*                                                                         *)
(* Every thread may call publish() or ping() and every thread may run a    *)
(* completion handler; no strand protects the object.  io_mutex_ guards    *)
(* out_buf_, and busy_mutex_ is the right to use out_tmp_buf_, in_buf_ and *)
(* the socket: one cycle of write, read the replies, hand the right over.  *)
(* A step of this module is what a thread does between two points where    *)
(* another thread can interfere; pc[t] names the step thread t does next.  *)
(*                                                                         *)
(* The timer, the resolver and the list of endpoints are abstracted to the *)
(* number of connect chains under way: RedisConnection models them.        *)
(***************************************************************************)
EXTENDS Integers, Sequences

CONSTANTS
  Threads,           \* the threads that run io_service::run()
  NoThread,          \* owner of a free io_mutex_
  Requests,          \* calls of publish() and ping(); one value per call
  NoRequest,         \* the request of a thread that has none in hand
  Refused,           \* requests the server answers with an error reply ("-ERR")
  MaxFaults          \* bound: lost connections and connect timeouts

ASSUME PipelineAssumption ==
  /\ NoThread \notin Threads
  /\ NoRequest \notin Requests
  /\ Refused \subseteq Requests
  /\ MaxFaults \in Nat

VARIABLES
  pc, req,           \* per thread: its next step, and the request it is storing
  ioMutex,           \* io_mutex_: its owner
  busyMutex,         \* busy_mutex_: locked by one handler, unlocked by another
  isConnected,       \* is_connected_
  outData, outCallbacks, \* out_buf_: serialised requests, and their callbacks
  tmpData, tmpCallbacks, \* out_tmp_buf_
  inBuf,             \* in_buf_: the requests whose reply lines are buffered
  writes, reads,     \* asynchronous operations on the socket that are under way
  failures,          \* operations that have failed; their handlers are due
  dialling,          \* connect chains under way: resolving, connecting, retrying
  socketUp,          \* the socket is connected
  wire,              \* requests sent on this connection, reply not read yet
  faults,            \* faults so far, at most MaxFaults
  got,               \* history: requests whose reply has been read
  asked, answers     \* history: requests handed over, and their callbacks' calls

outBuf    == <<outData, outCallbacks>>
outTmpBuf == <<tmpData, tmpCallbacks>>
buffers   == <<outBuf, outTmpBuf, inBuf>>
ops       == <<writes, reads, failures>>
ledger  == <<asked, answers>>
network == <<ops, dialling, socketUp, wire, faults>>
locks   == <<ioMutex, busyMutex>>
vars    == <<pc, req, locks, isConnected, buffers, network, got, ledger>>

Init ==
  /\ pc = [t \in Threads |-> "idle"]
  /\ req = [t \in Threads |-> NoRequest]
  /\ ioMutex = NoThread
  /\ busyMutex = FALSE
  /\ isConnected = FALSE
  /\ outData = <<>> /\ outCallbacks = <<>>
  /\ tmpData = <<>> /\ tmpCallbacks = <<>>
  /\ inBuf = <<>>
  /\ writes = 0 /\ reads = 0 /\ failures = 0
  /\ dialling = 1                      \* dispatcher_redis::load_settings
  /\ socketUp = FALSE
  /\ wire = <<>>
  /\ faults = 0
  /\ got = {}
  /\ asked = {} /\ answers = [r \in Requests |-> <<>>]

-----------------------------------------------------------------------------
Goto(t, from, to) == pc[t] = from /\ pc' = [pc EXCEPT ![t] = to]

Called(r, a) == answers' = [answers EXCEPT ![r] = Append(@, a)]

\* An operation on a socket that is not connected completes with an error.
StartWriting == IF socketUp THEN writes' = writes + 1 /\ UNCHANGED <<reads, failures>>
                            ELSE failures' = failures + 1 /\ UNCHANGED <<writes, reads>>

StartReading == IF socketUp THEN reads' = reads + 1 /\ UNCHANGED failures
                            ELSE failures' = failures + 1 /\ UNCHANGED reads

\* Every operation on the socket completes with an error.
FailAll == writes' = 0 /\ reads' = 0 /\ failures' = failures + writes + reads

Swap == /\ outData' = tmpData /\ outCallbacks' = tmpCallbacks
        /\ tmpData' = outData /\ tmpCallbacks' = outCallbacks

-----------------------------------------------------------------------------
(* publish() and ping() *)

\* The test of is_connected_ holds no lock.
Publish(t, r) ==
  /\ isConnected
  /\ r \notin asked
  /\ Goto(t, "idle", "lock")
  /\ req' = [req EXCEPT ![t] = r]
  /\ asked' = asked \cup {r}
  /\ UNCHANGED <<locks, isConnected, buffers, network, got, answers>>

PublishRefused(t, r) ==
  /\ ~isConnected
  /\ r \notin asked
  /\ pc[t] = "idle"
  /\ asked' = asked \cup {r}
  /\ Called(r, "failed")
  /\ UNCHANGED <<pc, req, locks, isConnected, buffers, network, got>>

\* io_mutex_ is taken and the request serialised.
StoreData(t) ==
  /\ ioMutex = NoThread
  /\ Goto(t, "lock", "push")
  /\ ioMutex' = t
  /\ outData' = Append(outData, req[t])
  /\ UNCHANGED <<req, busyMutex, isConnected, outCallbacks, outTmpBuf, inBuf,
                 network, got, ledger>>

StoreCallback(t) ==
  /\ Goto(t, "push", "write")
  /\ outCallbacks' = Append(outCallbacks, req[t])
  /\ req' = [req EXCEPT ![t] = NoRequest]
  /\ UNCHANGED <<locks, isConnected, outData, outTmpBuf, inBuf, network, got, ledger>>

\* Leaving the scope of the caller's scoped_lock, if it has one.
Unlock(t) == ioMutex' = IF ioMutex = t THEN NoThread ELSE ioMutex

\* write(false): the cycle that runs will find the request when it ends.
WriteBusy(t) ==
  /\ busyMutex
  /\ Goto(t, "write", "idle")
  /\ Unlock(t)
  /\ UNCHANGED <<req, busyMutex, isConnected, buffers, network, got, ledger>>

\* Mutant of WriteLocked: the result of try_lock is ignored.
WriteUnchecked(t) ==
  /\ Goto(t, "write", "swapped")
  /\ busyMutex' = TRUE
  /\ Swap
  /\ UNCHANGED <<req, ioMutex, isConnected, inBuf, network, got, ledger>>

\* write(false): try_lock succeeds, this thread starts a cycle.
WriteLocked(t) ==
  /\ ~busyMutex
  /\ Goto(t, "write", "swapped")
  /\ busyMutex' = TRUE
  /\ Swap
  /\ UNCHANGED <<req, ioMutex, isConnected, inBuf, network, got, ledger>>

\* async_write, and the end of the function that called write().
StartWrite(t) ==
  /\ Goto(t, "swapped", "idle")
  /\ StartWriting
  /\ Unlock(t)
  /\ UNCHANGED <<req, busyMutex, isConnected, buffers, dialling, socketUp, wire,
                 faults, got, ledger>>

-----------------------------------------------------------------------------
(* The completion handlers *)

\* async_write has sent everything: handle_write() calls read().
HandleWrite(t) ==
  /\ writes > 0 /\ tmpData = <<>>
  /\ pc[t] = "idle"
  /\ writes' = writes - 1
  /\ StartReading
  /\ UNCHANGED <<pc, req, locks, isConnected, buffers, dialling, socketUp, wire,
                 faults, got, ledger>>

\* Some replies have arrived, the first k of those that are due.
HandleRead(t) ==
  /\ reads > 0
  /\ Goto(t, "idle", "parse")
  /\ reads' = reads - 1 /\ UNCHANGED <<writes, failures>>
  /\ \E k \in 1..Len(wire) :
       /\ inBuf' = inBuf \o SubSeq(wire, 1, k)
       /\ wire' = SubSeq(wire, k + 1, Len(wire))
       /\ got' = got \cup {wire[i] : i \in 1..k}
  /\ UNCHANGED <<req, locks, isConnected, outBuf, outTmpBuf, dialling, socketUp,
                 faults, ledger>>

\* Mutant of ParseReply: the callback is called and left in the queue.
ParseReplyNoPop(t) ==
  /\ pc[t] = "parse"
  /\ tmpCallbacks # <<>> /\ inBuf # <<>>
  /\ Head(inBuf) \notin Refused
  /\ Called(Head(tmpCallbacks), "ok")
  /\ inBuf' = Tail(inBuf)
  /\ UNCHANGED <<pc, req, locks, isConnected, outBuf, outTmpBuf, network, got, asked>>

\* One turn of the loop: the oldest reply answers the oldest request.
ParseReply(t) ==
  /\ pc[t] = "parse"
  /\ tmpCallbacks # <<>> /\ inBuf # <<>>
  /\ Head(inBuf) \notin Refused
  /\ Called(Head(tmpCallbacks), "ok")
  /\ tmpCallbacks' = Tail(tmpCallbacks)
  /\ inBuf' = Tail(inBuf)
  /\ UNCHANGED <<pc, req, locks, isConnected, outBuf, tmpData, network, got, asked>>

\* "I can't handle this type of reply": the line is gone, reconnect() follows.
ParseUnknown(t) ==
  /\ tmpCallbacks # <<>> /\ inBuf # <<>>
  /\ Head(inBuf) \in Refused
  /\ Goto(t, "parse", "close")
  /\ inBuf' = Tail(inBuf)
  /\ UNCHANGED <<req, locks, isConnected, outBuf, outTmpBuf, network, got, ledger>>

\* Replies are missing: read() again.
ReadMore(t) ==
  /\ tmpCallbacks # <<>> /\ inBuf = <<>>
  /\ Goto(t, "parse", "idle")
  /\ StartReading
  /\ UNCHANGED writes
  /\ UNCHANGED <<req, locks, isConnected, buffers, dialling, socketUp, wire,
                 faults, got, ledger>>

\* Mutant of FinishIdle: the cycle ends and keeps busy_mutex_.
FinishKeepsBusy(t) ==
  /\ tmpCallbacks = <<>>
  /\ ioMutex = NoThread
  /\ outCallbacks = <<>>
  /\ Goto(t, "parse", "idle")
  /\ UNCHANGED <<req, locks, isConnected, buffers, network, got, ledger>>

\* All answered, and nothing was stored meanwhile: the cycle ends.
FinishIdle(t) ==
  /\ tmpCallbacks = <<>>
  /\ ioMutex = NoThread
  /\ outCallbacks = <<>>
  /\ Goto(t, "parse", "idle")
  /\ busyMutex' = FALSE
  /\ UNCHANGED <<req, ioMutex, isConnected, buffers, network, got, ledger>>

\* Mutant of FinishWrite: write(true) without a look at out_buf_.
FinishWriteAlways(t) ==
  /\ tmpCallbacks = <<>>
  /\ ioMutex = NoThread
  /\ Goto(t, "parse", "swapped")
  /\ ioMutex' = t
  /\ Swap
  /\ UNCHANGED <<req, busyMutex, isConnected, inBuf, network, got, ledger>>

\* All answered: write(true) takes what was stored meanwhile.
FinishWrite(t) ==
  /\ tmpCallbacks = <<>>
  /\ ioMutex = NoThread
  /\ outCallbacks # <<>>
  /\ Goto(t, "parse", "swapped")
  /\ ioMutex' = t
  /\ Swap
  /\ UNCHANGED <<req, busyMutex, isConnected, inBuf, network, got, ledger>>

\* Mutant of HandleError: an error is handled twice.
HandleErrorTwice(t) ==
  /\ failures > 0
  /\ Goto(t, "idle", "close")
  /\ failures' = failures - 2 /\ UNCHANGED <<writes, reads>>
  /\ UNCHANGED <<req, locks, isConnected, buffers, dialling, socketUp, wire,
                 faults, got, ledger>>

\* handle_write() or handle_read() with an error code: reconnect() follows.
HandleError(t) ==
  /\ failures > 0
  /\ Goto(t, "idle", "close")
  /\ failures' = failures - 1 /\ UNCHANGED <<writes, reads>>
  /\ UNCHANGED <<req, locks, isConnected, buffers, dialling, socketUp, wire,
                 faults, got, ledger>>

-----------------------------------------------------------------------------
(* reconnect(): close(), drop(), connect(host_, port_) *)

\* Closing the socket also aborts the connect attempts made on it: those of the
\* other chains go on with their next endpoint or end.
Close(t) ==
  /\ Goto(t, "close", "drop")
  /\ isConnected' = FALSE
  /\ socketUp' = FALSE
  /\ wire' = <<>>
  /\ FailAll
  /\ dialling' \in 0..dialling
  /\ UNCHANGED <<req, locks, buffers, faults, got, ledger>>

\* The callbacks go, the serialised requests stay in the buffer.
DropOne(t) ==
  /\ pc[t] = "drop"
  /\ tmpCallbacks # <<>>
  /\ Called(Head(tmpCallbacks), "failed")
  /\ tmpCallbacks' = Tail(tmpCallbacks)
  /\ UNCHANGED <<pc, req, locks, isConnected, outBuf, tmpData, inBuf, network, got,
                 asked>>

DropDone(t) ==
  /\ tmpCallbacks = <<>>
  /\ Goto(t, "drop", "dial")
  /\ busyMutex' = FALSE
  /\ UNCHANGED <<req, ioMutex, isConnected, buffers, network, got, ledger>>

Dial(t) ==
  /\ Goto(t, "dial", "idle")
  /\ dialling' = dialling + 1
  /\ UNCHANGED <<req, locks, isConnected, buffers, ops, socketUp, wire, faults,
                 got, ledger>>

-----------------------------------------------------------------------------
(* Connecting *)

\* handle_connect() without an error code, up to its test of out_buf_.
HandleConnect(t) ==
  /\ dialling > 0 /\ ~socketUp
  /\ Goto(t, "idle", "flush")
  /\ dialling' = dialling - 1
  /\ socketUp' = TRUE
  /\ wire' = <<>>
  /\ isConnected' = TRUE
  /\ UNCHANGED <<req, locks, buffers, ops, faults, got, ledger>>

\* Another chain was faster: a second connect of the socket fails.
HandleConnectFails(t) ==
  /\ dialling > 0 /\ socketUp
  /\ pc[t] = "idle"
  /\ dialling' = dialling - 1
  /\ UNCHANGED <<pc, req, locks, isConnected, buffers, ops, socketUp, wire, faults,
                 got, ledger>>

\* The test of out_buf_, and the call of write(), hold no lock.
Flush(t) ==
  /\ Goto(t, "flush", IF outCallbacks = <<>> THEN "idle" ELSE "write")
  /\ UNCHANGED <<req, locks, isConnected, buffers, network, got, ledger>>

\* timeout_connect(), late or not: every operation on the socket is cancelled and
\* connect() called; a cancelled attempt goes on with its next endpoint, if any.
TimeoutConnect(t) ==
  /\ faults < MaxFaults
  /\ pc[t] = "idle"
  /\ FailAll
  /\ dialling' \in {dialling + 1} \cup (IF dialling > 0 THEN {dialling} ELSE {})
  /\ faults' = faults + 1
  /\ UNCHANGED <<pc, req, locks, isConnected, buffers, socketUp, wire, got, ledger>>

-----------------------------------------------------------------------------
(* The network and the server *)

\* The next request of the buffer being written reaches the server.
Transmit ==
  /\ writes > 0 /\ socketUp
  /\ tmpData # <<>>
  /\ tmpData' = Tail(tmpData)
  /\ wire' = Append(wire, Head(tmpData))
  /\ UNCHANGED <<pc, req, locks, isConnected, outBuf, tmpCallbacks, inBuf, ops, dialling,
                 socketUp, faults, got, ledger>>

\* The peer or the network ends the connection.
LoseConnection ==
  /\ faults < MaxFaults
  /\ socketUp
  /\ socketUp' = FALSE
  /\ wire' = <<>>
  /\ FailAll
  /\ faults' = faults + 1
  /\ UNCHANGED <<pc, req, locks, isConnected, buffers, dialling, got, ledger>>

\* Nothing is left to do: every request was answered and the cycle is over.
Quiescent ==
  /\ asked = Requests
  /\ \A r \in Requests : answers[r] # <<>>
  /\ \A t \in Threads : pc[t] = "idle"
  /\ ~busyMutex /\ dialling = 0
  /\ UNCHANGED vars

-----------------------------------------------------------------------------
\* A thread inside a call or a handler goes on.
Continue(t) ==
  \/ StoreData(t) \/ StoreCallback(t) \/ WriteBusy(t) \/ WriteLocked(t)
  \/ StartWrite(t)
  \/ ParseReply(t) \/ ParseUnknown(t) \/ ReadMore(t)
  \/ FinishIdle(t) \/ FinishWrite(t)
  \/ Close(t) \/ DropOne(t) \/ DropDone(t) \/ Dial(t)
  \/ Flush(t)

\* A free thread takes a handler that is due.
Handle(t) == HandleWrite(t) \/ HandleRead(t) \/ HandleError(t)

Connecting(t) == HandleConnect(t) \/ HandleConnectFails(t)

Next ==
  \/ \E t \in Threads :
       \/ \E r \in Requests : Publish(t, r) \/ PublishRefused(t, r)
       \/ Continue(t)
       \/ Handle(t)
       \/ Connecting(t)
       \/ TimeoutConnect(t)
  \/ Transmit
  \/ LoseConnection
  \/ Quiescent

Spec == Init /\ [][Next]_vars

\* Threads are scheduled, a due handler is run by some thread, the server reads
\* and replies, and a server that can be reached is reached again in the end.
Fairness ==
  /\ \A t \in Threads : WF_vars(Continue(t))
  /\ WF_vars(\E t \in Threads : Handle(t))
  /\ WF_vars(\E t \in Threads : Connecting(t))
  /\ WF_vars(Transmit)

FairSpec == Spec /\ Fairness

-----------------------------------------------------------------------------
Steps == {"idle", "lock", "push", "write", "swapped", "parse",
          "close", "drop", "dial", "flush"}

(* Every variable has its type.  The counts of operations and of chains in   *)
(* particular never go below zero: no handler is run that no operation owes. *)
TypeOK ==
  /\ pc \in [Threads -> Steps]
  /\ req \in [Threads -> Requests \cup {NoRequest}]
  /\ ioMutex \in Threads \cup {NoThread}
  /\ busyMutex \in BOOLEAN
  /\ isConnected \in BOOLEAN
  /\ outData \in Seq(Requests) /\ outCallbacks \in Seq(Requests)
  /\ tmpData \in Seq(Requests) /\ tmpCallbacks \in Seq(Requests)
  /\ inBuf \in Seq(Requests)
  /\ writes \in Nat /\ reads \in Nat /\ failures \in Nat
  /\ dialling \in Nat
  /\ socketUp \in BOOLEAN
  /\ wire \in Seq(Requests)
  /\ faults \in 0..MaxFaults
  /\ got \subseteq Requests
  /\ asked \subseteq Requests
  /\ answers \in [Requests -> Seq({"ok", "failed"})]

\* The steps between try_lock and unlock of busy_mutex_ that a thread can be at.
InCycle(t) == pc[t] \in {"swapped", "parse", "close", "drop"}

Pending == writes + reads + failures

(* busy_mutex_ is locked by one handler and unlocked by another, in another  *)
(* thread as a rule.  It still works as a lock: while it is locked there is  *)
(* exactly one of a thread using out_tmp_buf_ and an operation that will     *)
(* hand it on, and there is none while it is free.  So out_tmp_buf_ and      *)
(* in_buf_ have one user, and unlock() never meets a free mutex.             *)
OneCycle ==
  /\ \A t, u \in Threads : InCycle(t) /\ InCycle(u) => t = u
  /\ \A t \in Threads : InCycle(t) => busyMutex /\ Pending = 0
  /\ Pending <= 1
  /\ Pending = 1 => busyMutex
  /\ busyMutex => Pending = 1 \/ \E t \in Threads : InCycle(t)

\* The callbacks of a queue, and a queue that lists none of them twice.
Elements(q) == {q[i] : i \in 1..Len(q)}
Distinct(q) == \A i, j \in 1..Len(q) : q[i] = q[j] => i = j

\* The thread carries a request that is in no queue yet.
Storing(t) == pc[t] \in {"lock", "push"}

(* A request that was handed over and not answered is in one place: with the *)
(* thread that stores it, in out_buf_, or in out_tmp_buf_, and there once.   *)
(* So no callback is lost and none is called twice, although the buffers are *)
(* swapped, and out_tmp_buf_ is emptied, without io_mutex_.                  *)
OnePlace ==
  /\ Distinct(outCallbacks) /\ Distinct(tmpCallbacks)
  /\ Elements(outCallbacks) \cap Elements(tmpCallbacks) = {}
  /\ \A t, u \in Threads : Storing(t) /\ Storing(u) /\ req[t] = req[u] => t = u
  /\ \A t \in Threads : Storing(t) =>
       req[t] \notin Elements(outCallbacks) \cup Elements(tmpCallbacks)
  /\ \A r \in Requests :
       r \in asked /\ answers[r] = <<>>  <=>
         \/ r \in Elements(outCallbacks) \cup Elements(tmpCallbacks)
         \/ \E t \in Threads : Storing(t) /\ req[t] = r
  /\ \A r \in Requests : r \notin asked => answers[r] = <<>>

(* What write() relies on when it has swapped the buffers, with one worker: *)
(* both assertions hold (redis_connection.cpp:220 and 221, there are         *)
(* callbacks and there is data), and nothing has undone the test of          *)
(* is_connected_ through which write() was reached.  With more workers each  *)
(* of the three can fail: another thread runs a cycle or close() and drop()  *)
(* between the test of out_buf_ or is_connected_ and write().                *)
WriteSound ==
  \A t \in Threads :
     pc[t] = "swapped" => isConnected /\ tmpCallbacks # <<>> /\ tmpData # <<>>

(* "calls callback with tru if reply was got" (redis_connection.hpp:38): a   *)
(* request is reported as done only after its own reply has been read.  The  *)
(* code pairs the n-th reply line with the n-th callback and nothing else    *)
(* ties them together.                                                       *)
OkMeansReplied ==
  \A r \in Requests : answers[r] = <<"ok">> => r \in got

\* The promise to the caller, and how this module's history reads as its state.
Ledger == INSTANCE RequestLedger
            WITH Requests <- Requests, asked <- asked, answers <- answers

(* Each request handed to publish() or ping() is answered at most once, and  *)
(* only after it was handed over, whatever the threads and the network do.   *)
LedgerSpec == Ledger!Spec

(* Each request that was taken over is answered in the end.                  *)
LedgerFairSpec == Ledger!FairSpec
==============================================================================
