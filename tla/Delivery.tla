------------------------------ MODULE Delivery -------------------------------
(***************************************************************************)
(* One device's lines of data from the translator to the dispatchers of    *)
(* its route and back: the strand parses a line, process_data posts a      *)
(* handler per dispatcher to the queue of the io_service, the workers take *)
(* the handlers and run them, each dispatcher answers when it can, and the *)
(* conjunction of the answers is the reply to the device.                  *)
(*                                                                         *)
(* The components are taken at what they promise: redis_connection at      *)
(* RequestLedger, which RedisPipeline implements, the combiner at the      *)
(* verdict of AllTargets, which ProcessData implements, and the parser at  *)
(* one call of process_data per line.  What is modelled is between them.   *)
(***************************************************************************)
EXTENDS Integers, SequencesExt

CONSTANTS
  Routes,         \* the dispatchers a port may be configured with, in order
  MaxTargets,     \* bound on their number
  MaxWorkers,     \* bound on num-threads
  MaxLines        \* bound on the lines sent

ASSUME DeliveryAssumption ==
  /\ Routes \subseteq Seq({"redis", "logger"})
  /\ \A r \in Routes : Len(r) <= MaxTargets
  /\ {MaxTargets, MaxWorkers, MaxLines} \subseteq Nat

Lines   == 1..MaxLines
Targets == 1..MaxTargets
Workers == 1..MaxWorkers
Requests == Lines \X Targets

VARIABLES
  workers,        \* how many threads run the io_service
  lockStep,       \* the device waits for the reply to a line before the next one
  route,          \* dispatch_targets
  sent, parsed,   \* the lines the device sent, and those the strand has taken
  hand,           \* what a worker is doing: "idle", <<"post", line, target>> in
                  \* process_data or <<"run", line, target>> in a posted handler
  queue,          \* the handlers posted and not taken, as <<line, target>>
  connected,      \* redis: is_connected_
  asked, answers, \* redis: its ledger, of requests <<line, target>>
  published,      \* redis: the requests in the order they will be written
  delayed,        \* logger: the callbacks in its timers
  answer,         \* answer[l]: what each dispatcher answered for a line
  outcome,        \* outcome[l]: the calls of handle_process_data for a line
  buffer, writes, \* answer_buffer_, and the writes of it under way
  replies         \* what the device received

config == <<workers, lockStep, route>>
redis  == <<asked, answers, published>>
device == <<buffer, writes, replies>>
vars   == <<config, sent, parsed, hand, queue, connected, redis, delayed, answer, outcome,
            device>>

Idle == <<"idle">>
n == Len(route)

Ledger == INSTANCE RequestLedger
            WITH Requests <- Requests, asked <- asked, answers <- answers

Promise(l) == INSTANCE AllTargets
                WITH MaxTargets <- MaxTargets, n <- n, answer <- answer[l],
                     outcome <- outcome[l]

Init ==
  /\ workers \in Workers /\ lockStep \in BOOLEAN /\ route \in Routes
  /\ sent = 0 /\ parsed = 0
  /\ hand = [w \in Workers |-> Idle] /\ queue = <<>>
  /\ connected = FALSE /\ Ledger!Init /\ published = <<>> /\ delayed = {}
  /\ answer = [l \in Lines |-> [t \in Targets |-> "none"]]
  /\ outcome = [l \in Lines |-> <<>>]
  /\ buffer = "" /\ writes = 0 /\ replies = <<>>

-----------------------------------------------------------------------------
(* The strand                                                                *)

Send ==
  /\ sent < MaxLines
  /\ lockStep => Len(replies) = sent
  /\ sent' = sent + 1
  /\ UNCHANGED <<config, parsed, hand, queue, connected, redis, delayed, answer, outcome, device>>

Free(w) == w <= workers /\ hand[w] = Idle

\* The strand runs one handler at a time: process_data of one line of the device.
Parse(w) ==
  /\ Free(w) /\ parsed < sent
  /\ \A v \in Workers : hand[v][1] # "post"
  /\ parsed' = parsed + 1
  /\ hand' = [hand EXCEPT ![w] = <<"post", parsed + 1, 1>>]
  /\ UNCHANGED <<config, sent, queue, connected, redis, delayed, answer, outcome, device>>

Post(w) ==
  /\ hand[w][1] = "post" /\ hand[w][3] <= n
  /\ queue' = Append(queue, <<hand[w][2], hand[w][3]>>)
  /\ hand' = [hand EXCEPT ![w][3] = @ + 1]
  /\ UNCHANGED <<config, sent, parsed, connected, redis, delayed, answer, outcome, device>>

\* The end of process_data; without a dispatcher the callback itself is posted.
Return(w) ==
  /\ hand[w][1] = "post" /\ hand[w][3] > n
  /\ hand' = [hand EXCEPT ![w] = Idle]
  /\ queue' = IF n = 0 THEN Append(queue, <<hand[w][2], 0>>) ELSE queue
  /\ UNCHANGED <<config, sent, parsed, connected, redis, delayed, answer, outcome, device>>

-----------------------------------------------------------------------------
(* The queue of the io_service                                               *)

\* Mutant of Take: the last handler is taken first.
TakeLast(w) ==
  /\ Free(w) /\ queue # <<>>
  /\ hand' = [hand EXCEPT ![w] = <<"run">> \o Last(queue)]
  /\ queue' = Front(queue)
  /\ UNCHANGED <<config, sent, parsed, connected, redis, delayed, answer, outcome, device>>

\* Handlers are taken in the order they were posted; from there on the workers race.
Take(w) ==
  /\ Free(w) /\ queue # <<>>
  /\ hand' = [hand EXCEPT ![w] = <<"run">> \o Head(queue)]
  /\ queue' = Tail(queue)
  /\ UNCHANGED <<config, sent, parsed, connected, redis, delayed, answer, outcome, device>>

Running(w, dispatcher) ==
  hand[w][1] = "run" /\ hand[w][3] # 0 /\ route[hand[w][3]] = dispatcher

Answered(r, a) == answer' = [answer EXCEPT ![r[1]][r[2]] = a]

\* publish(): turned down, or buffered behind what is already there.
RunRedis(w) ==
  /\ Running(w, "redis")
  /\ LET r == Tail(hand[w]) IN
       \/ /\ ~connected /\ Ledger!Refuse(r)
          /\ Answered(r, "failed") /\ UNCHANGED published
       \/ /\ connected /\ Ledger!Accept(r)
          /\ published' = Append(published, r) /\ UNCHANGED answer
  /\ hand' = [hand EXCEPT ![w] = Idle]
  /\ UNCHANGED <<config, sent, parsed, queue, connected, delayed, outcome, device>>

RunLogger(w) ==
  /\ Running(w, "logger")
  /\ LET r == Tail(hand[w]) IN
       \/ Answered(r, "ok") /\ UNCHANGED delayed
       \/ delayed' = delayed \cup {r} /\ UNCHANGED answer
  /\ hand' = [hand EXCEPT ![w] = Idle]
  /\ UNCHANGED <<config, sent, parsed, queue, connected, redis, outcome, device>>

-----------------------------------------------------------------------------
(* The answers, in handlers of redis_connection and of timers                *)

SomeFree == \E w \in Workers : Free(w)

RedisAnswers(r, a) ==
  /\ SomeFree
  /\ Ledger!Answer(r, a) /\ Answered(r, a)
  /\ UNCHANGED <<config, sent, parsed, hand, queue, connected, published, delayed, outcome, device>>

LoggerAnswers(r) ==
  /\ SomeFree /\ r \in delayed
  /\ delayed' = delayed \ {r}
  /\ Answered(r, "ok")
  /\ UNCHANGED <<config, sent, parsed, hand, queue, connected, redis, outcome, device>>

ConnectionChanges ==
  /\ connected' = ~connected
  /\ UNCHANGED <<config, sent, parsed, hand, queue, redis, delayed, answer, outcome, device>>

-----------------------------------------------------------------------------
(* The reply                                                                 *)

\* Mutant of HandleProcessData: a failure is not reported.
HandleProcessDataOk(l, ok) ==
  /\ outcome' = [outcome EXCEPT ![l] = Append(@, ok)]
  /\ IF ok = "ok" THEN buffer' = "1" /\ writes' = writes + 1 ELSE UNCHANGED <<buffer, writes>>
  /\ UNCHANGED replies

\* The translator's callback: one buffer, whatever is under way.
HandleProcessData(l, ok) ==
  /\ outcome' = [outcome EXCEPT ![l] = Append(@, ok)]
  /\ buffer' = IF ok = "ok" THEN "1" ELSE "-1"
  /\ writes' = writes + 1
  /\ UNCHANGED replies

\* Mutant of Concluded: the first answer is taken for all.
ConcludedSoon(l) == \E t \in 1..n : answer[l][t] # "none"

\* The last copy of the combiner's callback is gone: process_data has returned and
\* every dispatcher has answered.
Concluded(l) ==
  /\ \A t \in 1..n : answer[l][t] # "none"
  /\ \A w \in Workers : ~(hand[w][1] = "post" /\ hand[w][2] = l)

Conclude(l) ==
  /\ n > 0 /\ l <= parsed /\ outcome[l] = <<>> /\ Concluded(l)
  /\ HandleProcessData(l, Promise(l)!Verdict(answer[l]))
  /\ UNCHANGED <<config, sent, parsed, hand, queue, connected, redis, delayed, answer>>

RunFalse(w) ==
  /\ hand[w][1] = "run" /\ hand[w][3] = 0
  /\ HandleProcessData(hand[w][2], "failed")
  /\ hand' = [hand EXCEPT ![w] = Idle]
  /\ UNCHANGED <<config, sent, parsed, queue, connected, redis, delayed, answer>>

\* A write completes: the device gets what the buffer holds by now.
Transmit ==
  /\ writes > 0
  /\ writes' = writes - 1 /\ replies' = Append(replies, buffer)
  /\ UNCHANGED <<config, sent, parsed, hand, queue, connected, redis, delayed, answer, outcome,
                 buffer>>

-----------------------------------------------------------------------------
Work(w) ==
  Parse(w) \/ Post(w) \/ Return(w) \/ Take(w) \/ RunRedis(w) \/ RunLogger(w) \/ RunFalse(w)

Next ==
  \/ Send \/ ConnectionChanges \/ Transmit
  \/ \E w \in Workers : Work(w)
  \/ \E r \in Requests : LoggerAnswers(r) \/ \E a \in {"ok", "failed"} : RedisAnswers(r, a)
  \/ \E l \in Lines : Conclude(l)

Spec == Init /\ [][Next]_vars

\* The workers run, timers expire, writes complete, and redis_connection keeps the
\* promise of Ledger!FairSpec.  The device and the connection are free.
FairSpec ==
  /\ Spec
  /\ \A w \in Workers : WF_vars(Work(w))
  /\ \A r \in Requests :
       WF_vars(LoggerAnswers(r)) /\ WF_vars(\E a \in {"ok", "failed"} : RedisAnswers(r, a))
  /\ \A l \in Lines : WF_vars(Conclude(l))
  /\ WF_vars(Transmit)

-----------------------------------------------------------------------------
(* A device that waits for its replies can trust them: the reply to a line   *)
(* is "1" exactly if every dispatcher of the route answered true for that    *)
(* line (wialon_plugin.cpp:420-431 over request_router.cpp:112), although    *)
(* all replies share one buffer; and no line is answered twice.              *)
Acknowledged ==
  /\ Len(replies) + writes <= parsed
  /\ lockStep => \A l \in 1..Len(replies) :
       replies[l] = "1" <=> n > 0 /\ \A t \in 1..n : answer[l][t] = "ok"

(* The lines of a device reach redis in the order they were sent, if the     *)
(* device waits for its replies or there is one worker.  Two workers may     *)
(* take two handlers and publish in either order (request_router.cpp:113).   *)
InOrder ==
  lockStep \/ workers = 1 =>
    \A i, j \in 1..Len(published) : i < j => published[i][1] <= published[j][1]

(* Every line gets its reply, in whatever order the answers come and whether *)
(* or not redis is connected.                                                *)
EveryLineReplied == \A l \in Lines : (sent >= l) ~> (Len(replies) >= l)
==============================================================================
