---------------------------- MODULE DeliveryProofs ----------------------------
(***************************************************************************)
(* What a device can rely on, for any number of lines, dispatchers and     *)
(* workers.  Handlers are posted, taken and run once and in order (Order), *)
(* so a dispatcher is given a line once and answers once (Once), and the   *)
(* callback runs when all answers are there, and once (Concluding).  A     *)
(* device in lock step has one line under way (InStep), which is what the  *)
(* shared buffer and the order of the lines in redis rest on (Publishing). *)
(***************************************************************************)
EXTENDS Delivery, SequenceTheorems, FiniteSetTheorems, TLAPS

\* What a handler is posted for; target 0 is the callback itself.
Entries == Lines \X (0..MaxTargets)
Hands == {Idle} \cup ({"post"} \X Lines \X (1..MaxTargets + 1))
                \cup ({"run"} \X Lines \X (0..MaxTargets))
Said == {"", "1", "-1"}

\* The values of the variables.
Types ==
  /\ workers \in Workers /\ route \in Routes
  /\ sent \in 0..MaxLines /\ parsed \in 0..sent
  /\ hand \in [Workers -> Hands]
  /\ queue \in Seq(Entries)
  /\ asked \subseteq Requests /\ delayed \subseteq Requests /\ published \in Seq(Requests)
  /\ answers \in [Requests -> Seq({"ok", "failed"})]
  /\ answer \in [Lines -> [Targets -> {"none", "ok", "failed"}]]
  /\ outcome \in [Lines -> Seq({"ok", "failed"})]
  /\ buffer \in Said /\ writes \in Nat /\ replies \in Seq(Said)

\* The handler for a dispatcher, or the callback itself, was posted.
Posted(l, t) ==
  /\ l <= parsed
  /\ \A w \in Workers : hand[w][1] = "post" /\ hand[w][2] = l => t # 0 /\ t < hand[w][3]

\* The order of lines, and of the dispatchers of a line.
Before(q, r) == q[1] < r[1] \/ (q[1] = r[1] /\ q[2] < r[2])

Runs(w, r) == hand[w][1] = "run" /\ hand[w][2] = r[1] /\ hand[w][3] = r[2]

\* Handlers posted and not run.
Due(r) == (\E i \in 1..Len(queue) : queue[i] = r) \/ (\E w \in Workers : Runs(w, r))

\* One worker is in process_data, with the last line.
Posting ==
  \A w \in Workers : hand[w][1] = "post" =>
    /\ hand[w][2] = parsed /\ hand[w][3] <= n + 1
    /\ \A v \in Workers : hand[v][1] = "post" => v = w

\* Handlers are queued in order, and each is run by one worker before those behind it are taken.
Order ==
  /\ \A i, j \in 1..Len(queue) : i < j => Before(queue[i], queue[j])
  /\ \A r \in Entries, w \in Workers : Runs(w, r) =>
       /\ \A i \in 1..Len(queue) : Before(r, queue[i])
       /\ \A v \in Workers : Runs(v, r) => v = w
  /\ \A r \in Entries : Due(r) => Posted(r[1], r[2]) /\ r[2] <= n /\ (r[2] = 0 => n = 0)

\* Nobody has been given the request.
Fresh(r) == answer[r[1]][r[2]] = "none" /\ r \notin asked /\ r \notin delayed

\* A dispatcher is given a line once, and an answer is due from it until it answers.
Once ==
  /\ \A r \in Requests : Due(r) \/ ~Posted(r[1], r[2]) => Fresh(r)
  /\ \A r \in delayed : answer[r[1]][r[2]] = "none" /\ r \notin asked
  /\ \A r \in asked : answers[r] = <<>> => answer[r[1]][r[2]] = "none"

\* The lines whose callback has run.
Outcomes == {l \in Lines : outcome[l] # <<>>}

\* Each of them was answered by all its dispatchers, and stands for one reply.
Concluding ==
  /\ \A l \in Outcomes : l <= parsed /\ Concluded(l)
  /\ \A l \in Lines : Due(<<l, 0>>) => outcome[l] = <<>>
  /\ Cardinality(Outcomes) = Len(replies) + writes

\* What the reply to l should say.
Good(l) == n > 0 /\ \A t \in 1..n : answer[l][t] = "ok"

\* In lock step the replies are those to the first lines, and the buffer is for the next.
InStep ==
  lockStep =>
    /\ sent <= Len(replies) + 1
    /\ \A l \in Lines : l \in Outcomes <=> l <= Len(replies) + writes
    /\ \A l \in 1..Len(replies) : replies[l] = "1" <=> Good(l)
    /\ \A l \in Lines : writes > 0 /\ l = Len(replies) + 1 => (buffer = "1" <=> Good(l))

\* What is due is not older than what was published.
Publishing ==
  /\ \A w \in Workers : hand[w] # Idle => w <= workers
  /\ \A i \in 1..Len(published) : published[i][1] <= parsed
  /\ workers = 1 => \A i \in 1..Len(published), r \in Entries : Due(r) => published[i][1] <= r[1]
  /\ InOrder

-----------------------------------------------------------------------------
(* Handlers in the hands of workers and in the queue                         *)

\* The bounds are numbers, and a request is what a handler is posted for.
LEMMA Bounds ==
  /\ MaxTargets \in Nat /\ MaxLines \in Nat /\ MaxWorkers \in Nat
  /\ \A l \in Lines : l \in Nat
  /\ Requests \subseteq Entries
  BY DeliveryAssumption DEF Lines, Requests, Entries, Targets

\* The dispatchers of a route are within the bound.
LEMMA RouteLength ==
  ASSUME Types
  PROVE  /\ n \in 0..MaxTargets
         /\ \A t \in 1..n : t \in Targets /\ t \in 0..MaxTargets
<1>1. Len(route) \in Nat /\ Len(route) <= MaxTargets
  BY DeliveryAssumption, LenProperties DEF Types
<1> QED
  BY <1>1, Bounds DEF n, Targets

\* A pair and what a worker holds of it.
LEMMA Pairs ==
  ASSUME NEW r \in Entries
  PROVE  r = <<r[1], r[2]>> /\ r[1] \in Lines /\ r[2] \in 0..MaxTargets
  BY DEF Entries

\* What Take puts into the hand of a worker.
LEMMA RunsPair ==
  ASSUME NEW r \in Entries
  PROVE  <<"run">> \o r = <<"run", r[1], r[2]>>
<1>1. PICK l \in Lines, t \in 0..MaxTargets : r = <<l, t>>
  BY DEF Entries
<1> DEFINE S == {"run"} \cup Nat
<1>2. l \in Nat /\ t \in Nat
  BY Bounds
<1>3. <<"run">> \in Seq(S) /\ <<l, t>> \in Seq(S) /\ <<"run", l, t>> \in Seq(S)
  BY <1>2
<1>4. Len(<<"run">>) = 1 /\ Len(<<l, t>>) = 2 /\ Len(<<"run", l, t>>) = 3
  OBVIOUS
<1>5. Len(<<"run">> \o <<l, t>>) = 3 /\ <<"run">> \o <<l, t>> \in Seq(S)
  BY <1>3, <1>4, ConcatProperties
<1>6. \A i \in 1..3 : (<<"run">> \o <<l, t>>)[i] = <<"run", l, t>>[i]
  BY <1>3, <1>4, ConcatProperties
<1> QED
  BY <1>1, <1>3, <1>4, <1>5, <1>6, SeqEqual

\* A hand by its first component.
LEMMA HandShape ==
  ASSUME NEW h \in Hands
  PROVE  /\ h[1] = "post" => /\ h = <<"post", h[2], h[3]>>
                             /\ h[2] \in Lines /\ h[3] \in 1..MaxTargets + 1
         /\ h[1] = "run" => /\ h = <<"run", h[2], h[3]>>
                            /\ h[2] \in Lines /\ h[3] \in 0..MaxTargets
         /\ h = Idle <=> h[1] \notin {"post", "run"}
  BY DEF Hands, Idle

\* What a hand may hold.
LEMMA NewHands ==
  /\ Idle \in Hands /\ Idle[1] = "idle"
  /\ \A l \in Lines, k \in 1..MaxTargets + 1 : <<"post", l, k>> \in Hands
  /\ \A l \in Lines, t \in 0..MaxTargets : <<"run", l, t>> \in Hands
  BY DEF Hands, Idle

\* process_data posts the handler for a dispatcher.
LEMMA PostEffect ==
  ASSUME Types, NEW w \in Workers, Post(w)
  PROVE  \E l \in Lines, k \in 1..n :
           /\ hand[w] = <<"post", l, k>> /\ hand' = [hand EXCEPT ![w] = <<"post", l, k + 1>>]
           /\ queue' = Append(queue, <<l, k>>) /\ <<l, k>> \in Entries
<1> DEFINE l == hand[w][2]  k == hand[w][3]
<1>1. hand[w] = <<"post", l, k>> /\ l \in Lines /\ k \in 1..MaxTargets + 1 /\ k <= n
  BY HandShape DEF Post, Types
<1>2. k \in 1..n /\ <<l, k>> \in Entries
  BY <1>1, RouteLength, Bounds DEF Entries
<1>3. [hand[w] EXCEPT ![3] = @ + 1] = <<"post", l, k + 1>>
  BY <1>1, <1>2
<1>4. hand' = [hand EXCEPT ![w] = [hand[w] EXCEPT ![3] = @ + 1]]
  BY DEF Post
<1> QED
  BY <1>1, <1>2, <1>3, <1>4 DEF Post

\* A worker takes the handler that was posted first.
LEMMA TakeEffect ==
  ASSUME Types, NEW w \in Workers, Take(w)
  PROVE  /\ hand[w] = Idle /\ Len(queue) >= 1 /\ queue[1] \in Entries
         /\ hand' = [hand EXCEPT ![w] = <<"run", queue[1][1], queue[1][2]>>]
         /\ queue' \in Seq(Entries) /\ Len(queue') = Len(queue) - 1
         /\ \A i \in 1..Len(queue') : queue'[i] = queue[i + 1]
<1>1. queue \in Seq(Entries) /\ queue # <<>> /\ queue' = Tail(queue)
  BY DEF Take, Types
<1>2. /\ queue' \in Seq(Entries) /\ Len(queue') = Len(queue) - 1
      /\ \A i \in 1..Len(queue') : queue'[i] = queue[i + 1]
  BY <1>1, HeadTailProperties
<1>3. Head(queue) = queue[1] /\ Head(queue) \in Entries /\ Len(queue) >= 1
  BY <1>1, HeadTailProperties, EmptySeq, LenProperties
<1>4. hand' = [hand EXCEPT ![w] = <<"run", queue[1][1], queue[1][2]>>]
  BY <1>3, RunsPair DEF Take
<1> QED
  BY <1>2, <1>3, <1>4 DEF Take, Free

\* A worker runs the handler that it has taken.
LEMMA RunEffect ==
  ASSUME Types, NEW w \in Workers, hand[w][1] = "run"
  PROVE  \E r \in Entries :
           /\ r = Tail(hand[w]) /\ r[1] = hand[w][2] /\ r[2] = hand[w][3] /\ Runs(w, r)
           /\ r[2] # 0 => r \in Requests
<1> DEFINE l == hand[w][2]  t == hand[w][3]
<1>1. hand[w] = <<"run", l, t>> /\ l \in Lines /\ t \in 0..MaxTargets
  BY HandShape DEF Types
<1>2. Tail(<<"run", l, t>>) = <<l, t>>
  OBVIOUS
<1>3. <<l, t>> \in Entries /\ (t # 0 => <<l, t>> \in Requests)
  BY <1>1, Bounds DEF Entries, Requests, Targets
<1> QED
  BY <1>1, <1>2, <1>3 DEF Runs

\* An answer is added and no other one changes.
LEMMA OneAnswer ==
  ASSUME Types, NEW r \in Requests, NEW a \in {"ok", "failed"}, Answered(r, a)
  PROVE  /\ answer' \in [Lines -> [Targets -> {"none", "ok", "failed"}]]
         /\ answer'[r[1]][r[2]] = a
         /\ \A l \in Lines, t \in Targets : <<l, t>> # r => answer'[l][t] = answer[l][t]
         /\ \A q \in Requests : q # r => answer'[q[1]][q[2]] = answer[q[1]][q[2]]
<1>1. PICK m \in Lines, u \in Targets : r = <<m, u>>
  BY DEF Requests
<1>2. answer' = [answer EXCEPT ![m] = [answer[m] EXCEPT ![u] = a]]
  BY <1>1 DEF Answered
<1>3. \A l \in Lines, t \in Targets : <<l, t>> # r => answer'[l][t] = answer[l][t]
  BY <1>1, <1>2 DEF Types
<1>4. \A q \in Requests : q = <<q[1], q[2]>> /\ q[1] \in Lines /\ q[2] \in Targets
  BY DEF Requests
<1>5. answer' \in [Lines -> [Targets -> {"none", "ok", "failed"}]] /\ answer'[r[1]][r[2]] = a
  BY <1>1, <1>2 DEF Types
<1> QED
  BY <1>3, <1>4, <1>5

\* What the device can be told.
LEMMA Replies == "1" \in Said /\ "-1" \in Said
  BY ZenonT(10) DEF Said

\* The callback of the translator runs, with the conjunction of the answers.
LEMMA OneOutcome ==
  ASSUME Types, NEW l \in Lines, NEW ok \in {"ok", "failed"}, HandleProcessData(l, ok)
  PROVE  /\ outcome' \in [Lines -> Seq({"ok", "failed"})] /\ outcome'[l] # <<>>
         /\ \A m \in Lines \ {l} : outcome'[m] = outcome[m]
         /\ buffer' = (IF ok = "ok" THEN "1" ELSE "-1") /\ buffer' \in Said
         /\ writes' = writes + 1 /\ UNCHANGED replies
<1>1. outcome[l] \in Seq({"ok", "failed"})
  BY DEF Types
<1>2. Append(outcome[l], ok) \in Seq({"ok", "failed"}) /\ Append(outcome[l], ok) # <<>>
  BY <1>1, AppendProperties
<1>3. outcome' = [outcome EXCEPT ![l] = Append(outcome[l], ok)]
  BY DEF HandleProcessData
<1>4. buffer' \in Said
  BY Replies DEF HandleProcessData
<1> QED
  BY <1>2, <1>3, <1>4 DEF HandleProcessData, Types

\* The verdict is that no dispatcher answered false.
LEMMA VerdictIs ==
  ASSUME NEW l, NEW p
  PROVE  /\ Promise(l)!Verdict(p) \in {"ok", "failed"}
         /\ Promise(l)!Verdict(p) = "ok" <=> n # 0 /\ \A t \in 1..n : p[t] # "failed"
  BY DEF Promise!Verdict

LEMMA NextTypes == Types /\ [Next]_vars => Types'
<1> SUFFICES ASSUME Types, [Next]_vars PROVE Types'
  OBVIOUS
<1> USE DEF config, redis, device
<1>1. ASSUME Send PROVE Types'
  <2>1. sent' = sent + 1 /\ sent < MaxLines
    BY <1>1 DEF Send
  <2>2. sent' \in 0..MaxLines /\ parsed \in 0..sent'
    BY <2>1, Bounds DEF Types
  <2> QED
    BY <1>1, <2>2 DEF Send, Types
<1>2. ASSUME ConnectionChanges PROVE Types'
  BY <1>2 DEF ConnectionChanges, Types
<1>3. ASSUME Transmit PROVE Types'
  <2>1. replies' \in Seq(Said)
    BY <1>3, AppendProperties DEF Transmit, Types
  <2> QED
    BY <1>3, <2>1 DEF Transmit, Types
<1>4. ASSUME NEW w \in Workers, Parse(w) PROVE Types'
  <2>1. parsed + 1 \in Lines /\ parsed' = parsed + 1 /\ parsed' \in 0..sent
    BY <1>4, Bounds DEF Parse, Types, Lines
  <2>2. hand' \in [Workers -> Hands]
    BY <1>4, <2>1, NewHands, Bounds DEF Parse, Types
  <2> QED
    BY <1>4, <2>1, <2>2 DEF Parse, Types
<1>5. ASSUME NEW w \in Workers, Post(w) PROVE Types'
  <2>1. PICK l \in Lines, k \in 1..n :
          /\ hand' = [hand EXCEPT ![w] = <<"post", l, k + 1>>]
          /\ queue' = Append(queue, <<l, k>>) /\ <<l, k>> \in Entries
    BY <1>5, PostEffect
  <2>2. k + 1 \in 1..MaxTargets + 1
    BY RouteLength, Bounds
  <2>3. hand' \in [Workers -> Hands]
    BY <2>1, <2>2, NewHands DEF Types
  <2>4. queue' \in Seq(Entries)
    BY <2>1, AppendProperties DEF Types
  <2> QED
    BY <1>5, <2>3, <2>4 DEF Post, Types
<1>6. ASSUME NEW w \in Workers, Return(w) PROVE Types'
  <2>1. hand' \in [Workers -> Hands]
    BY <1>6, NewHands DEF Return, Types
  <2>2. <<hand[w][2], 0>> \in Entries
    BY <1>6, HandShape, Bounds DEF Return, Types, Entries
  <2>3. queue' \in Seq(Entries)
    BY <1>6, <2>2, AppendProperties DEF Return, Types
  <2> QED
    BY <1>6, <2>1, <2>3 DEF Return, Types
<1>7. ASSUME NEW w \in Workers, Take(w) PROVE Types'
  <2>1. /\ queue[1] \in Entries /\ queue' \in Seq(Entries)
        /\ hand' = [hand EXCEPT ![w] = <<"run", queue[1][1], queue[1][2]>>]
    BY <1>7, TakeEffect
  <2>2. hand' \in [Workers -> Hands]
    BY <2>1, Pairs, NewHands DEF Types
  <2> QED
    BY <1>7, <2>1, <2>2 DEF Take, Types
<1>8. ASSUME NEW w \in Workers, RunRedis(w) PROVE Types'
  <2>1. PICK r \in Requests : r = Tail(hand[w])
    BY <1>8, RunEffect DEF RunRedis, Running
  <2>2. hand' \in [Workers -> Hands]
    BY <1>8, NewHands DEF RunRedis, Types
  <2>3. CASE Ledger!Refuse(r) /\ Answered(r, "failed") /\ UNCHANGED published
    <3>1. answer' \in [Lines -> [Targets -> {"none", "ok", "failed"}]]
      BY <2>3, OneAnswer
    <3>2. asked' \subseteq Requests /\ answers' \in [Requests -> Seq({"ok", "failed"})]
      BY <2>3 DEF Ledger!Refuse, Types
    <3> QED
      BY <1>8, <2>2, <2>3, <3>1, <3>2 DEF RunRedis, Types
  <2>4. CASE Ledger!Accept(r) /\ published' = Append(published, r) /\ UNCHANGED answer
    <3>1. published' \in Seq(Requests)
      BY <2>4, AppendProperties DEF Types
    <3>2. asked' \subseteq Requests /\ UNCHANGED answers
      BY <2>4 DEF Ledger!Accept, Types
    <3> QED
      BY <1>8, <2>2, <2>4, <3>1, <3>2 DEF RunRedis, Types
  <2> QED
    BY <1>8, <2>1, <2>3, <2>4 DEF RunRedis
<1>9. ASSUME NEW w \in Workers, RunLogger(w) PROVE Types'
  <2>1. PICK r \in Requests : r = Tail(hand[w])
    BY <1>9, RunEffect DEF RunLogger, Running
  <2>2. hand' \in [Workers -> Hands]
    BY <1>9, NewHands DEF RunLogger, Types
  <2>3. answer' \in [Lines -> [Targets -> {"none", "ok", "failed"}]]
    BY <1>9, <2>1, OneAnswer DEF RunLogger, Types
  <2>4. delayed' \subseteq Requests
    BY <1>9, <2>1 DEF RunLogger, Types
  <2> QED
    BY <1>9, <2>2, <2>3, <2>4 DEF RunLogger, Types
<1>10. ASSUME NEW w \in Workers, RunFalse(w) PROVE Types'
  <2>1. hand' \in [Workers -> Hands]
    BY <1>10, NewHands DEF RunFalse, Types
  <2>2. hand[w][2] \in Lines
    BY <1>10, HandShape DEF RunFalse, Types
  <2>3. outcome' \in [Lines -> Seq({"ok", "failed"})] /\ buffer' \in Said
    BY <1>10, <2>2, OneOutcome DEF RunFalse
  <2>4. writes' \in Nat /\ UNCHANGED replies
    BY <1>10 DEF RunFalse, HandleProcessData, Types
  <2> QED
    BY <1>10, <2>1, <2>3, <2>4 DEF RunFalse, Types
<1>11. ASSUME NEW r \in Requests, LoggerAnswers(r) PROVE Types'
  <2>1. answer' \in [Lines -> [Targets -> {"none", "ok", "failed"}]]
    BY <1>11, OneAnswer DEF LoggerAnswers
  <2> QED
    BY <1>11, <2>1 DEF LoggerAnswers, Types
<1>12. ASSUME NEW r \in Requests, NEW a \in {"ok", "failed"}, RedisAnswers(r, a) PROVE Types'
  <2>1. answer' \in [Lines -> [Targets -> {"none", "ok", "failed"}]]
    BY <1>12, OneAnswer DEF RedisAnswers
  <2>2. answers' \in [Requests -> Seq({"ok", "failed"})] /\ UNCHANGED asked
    BY <1>12 DEF RedisAnswers, Ledger!Answer, Types
  <2> QED
    BY <1>12, <2>1, <2>2 DEF RedisAnswers, Types
<1>13. ASSUME NEW l \in Lines, Conclude(l) PROVE Types'
  <2>1. /\ outcome' \in [Lines -> Seq({"ok", "failed"})] /\ buffer' \in Said
        /\ writes' = writes + 1 /\ UNCHANGED replies
    BY <1>13, VerdictIs, OneOutcome DEF Conclude
  <2> QED
    BY <1>13, <2>1 DEF Conclude, Types
<1>14. CASE UNCHANGED vars
  BY <1>14 DEF vars, Types
<1> QED
  BY <1>1, <1>2, <1>3, <1>4, <1>5, <1>6, <1>7, <1>8, <1>9, <1>10, <1>11, <1>12,
     <1>13, <1>14 DEF Next, Work

work == <<config, parsed, hand, queue>>

\* The steps that leave the handlers alone.
OffWork ==
  \/ Send \/ ConnectionChanges \/ Transmit
  \/ \E r \in Requests : LoggerAnswers(r) \/ \E a \in {"ok", "failed"} : RedisAnswers(r, a)
  \/ \E l \in Lines : Conclude(l)
  \/ UNCHANGED vars

\* They do not change what is posted.
LEMMA OffWorkFrame == OffWork => UNCHANGED work
<1>1. CASE Send \/ ConnectionChanges \/ Transmit
  BY <1>1 DEF Send, ConnectionChanges, Transmit, work
<1>2. ASSUME NEW r \in Requests, LoggerAnswers(r) PROVE UNCHANGED work
  BY <1>2 DEF LoggerAnswers, work
<1>3. ASSUME NEW r \in Requests, NEW a \in {"ok", "failed"}, RedisAnswers(r, a) PROVE UNCHANGED work
  BY <1>3 DEF RedisAnswers, work
<1>4. ASSUME NEW l \in Lines, Conclude(l) PROVE UNCHANGED work
  BY <1>4 DEF Conclude, work
<1>5. CASE UNCHANGED vars
  BY <1>5 DEF vars, work
<1> QED
  BY <1>1, <1>2, <1>3, <1>4, <1>5 DEF OffWork

LEMMA NextConfig == [Next]_vars => UNCHANGED config
<1> SUFFICES ASSUME [Next]_vars PROVE UNCHANGED config
  OBVIOUS
<1>1. CASE OffWork
  BY <1>1, OffWorkFrame DEF work
<1>2. ASSUME NEW w \in Workers, Work(w) PROVE UNCHANGED config
  BY <1>2 DEF Work, Parse, Post, Return, Take, RunRedis, RunLogger, RunFalse
<1> QED
  BY <1>1, <1>2 DEF Next, OffWork

LEMMA NextPosting == Types /\ Posting /\ [Next]_vars => Posting'
<1> SUFFICES ASSUME Types, Posting, [Next]_vars PROVE Posting'
  OBVIOUS
<1>1. CASE OffWork
  BY <1>1, OffWorkFrame DEF work, config, n, Posting
<1>2. ASSUME NEW w \in Workers, Parse(w) PROVE Posting'
  <2>1. /\ hand' = [hand EXCEPT ![w] = <<"post", parsed + 1, 1>>] /\ parsed' = parsed + 1
        /\ UNCHANGED config /\ \A v \in Workers : hand[v][1] # "post"
    BY <1>2 DEF Parse
  <2>2. n \in Nat
    BY RouteLength, Bounds
  <2> QED
    BY <2>1, <2>2 DEF Posting, Types, config, n
<1>3. ASSUME NEW w \in Workers, Post(w) PROVE Posting'
  <2>1. PICK l \in Lines, k \in 1..n :
          hand[w] = <<"post", l, k>> /\ hand' = [hand EXCEPT ![w] = <<"post", l, k + 1>>]
    BY <1>3, PostEffect
  <2>2. n \in Nat /\ UNCHANGED <<config, parsed>>
    BY <1>3, RouteLength, Bounds DEF Post
  <2> QED
    BY <2>1, <2>2 DEF Posting, Types, config, n
<1>4. ASSUME NEW w \in Workers, Return(w) PROVE Posting'
  <2>1. hand' = [hand EXCEPT ![w] = Idle] /\ UNCHANGED <<config, parsed>>
    BY <1>4 DEF Return
  <2> QED
    BY <2>1, NewHands DEF Posting, Types, config, n
<1>5. ASSUME NEW w \in Workers, Take(w) PROVE Posting'
  <2>1. PICK l \in Lines, t \in 0..MaxTargets : hand' = [hand EXCEPT ![w] = <<"run", l, t>>]
    BY <1>5, TakeEffect, Pairs
  <2>2. UNCHANGED <<config, parsed>>
    BY <1>5 DEF Take
  <2> QED
    BY <2>1, <2>2 DEF Posting, Types, config, n
<1>6. ASSUME NEW w \in Workers, RunRedis(w) PROVE Posting'
  <2>1. hand' = [hand EXCEPT ![w] = Idle] /\ UNCHANGED <<config, parsed>>
    BY <1>6 DEF RunRedis
  <2> QED
    BY <2>1, NewHands DEF Posting, Types, config, n
<1>7. ASSUME NEW w \in Workers, RunLogger(w) PROVE Posting'
  <2>1. hand' = [hand EXCEPT ![w] = Idle] /\ UNCHANGED <<config, parsed>>
    BY <1>7 DEF RunLogger
  <2> QED
    BY <2>1, NewHands DEF Posting, Types, config, n
<1>8. ASSUME NEW w \in Workers, RunFalse(w) PROVE Posting'
  <2>1. hand' = [hand EXCEPT ![w] = Idle] /\ UNCHANGED <<config, parsed>>
    BY <1>8 DEF RunFalse
  <2> QED
    BY <2>1, NewHands DEF Posting, Types, config, n
<1> QED
  BY <1>1, <1>2, <1>3, <1>4, <1>5, <1>6, <1>7, <1>8 DEF Next, Work, OffWork

\* A handler is posted behind all others.
LEMMA Pushed ==
  ASSUME Types, Order, NEW e \in Entries, queue' = Append(queue, e),
         \A r \in Entries : Due(r) => Before(r, e),
         \A r \in Entries, w \in Workers : Runs(w, r)' <=> Runs(w, r)
  PROVE  /\ \A r \in Entries : Due(r)' <=> Due(r) \/ r = e
         /\ \A i, j \in 1..Len(queue)' : i < j => Before(queue'[i], queue'[j])
         /\ \A r \in Entries, w \in Workers : Runs(w, r)' =>
              /\ \A i \in 1..Len(queue)' : Before(r, queue'[i])
              /\ \A v \in Workers : Runs(v, r)' => v = w
<1>1. /\ Len(queue) \in Nat /\ Len(queue)' = Len(queue) + 1
      /\ \A i \in 1..Len(queue) : queue'[i] = queue[i] /\ queue[i] \in Entries
      /\ queue'[Len(queue) + 1] = e
  BY AppendProperties, ElementOfSeq, LenProperties DEF Types
<1>2. \A i \in 1..Len(queue)' : i \in 1..Len(queue) \/ i = Len(queue) + 1
  BY <1>1
<1>3. \A i \in 1..Len(queue) : Due(queue[i]) /\ Before(queue[i], e)
  BY <1>1 DEF Due
<1>4. \A r \in Entries : Due(r)' <=> Due(r) \/ r = e
  BY <1>1, <1>2 DEF Due
<1>5. \A i, j \in 1..Len(queue)' : i < j => Before(queue'[i], queue'[j])
  BY <1>1, <1>2, <1>3 DEF Order
<1>6. ASSUME NEW r \in Entries, NEW w \in Workers, Runs(w, r)'
      PROVE  /\ \A i \in 1..Len(queue)' : Before(r, queue'[i])
             /\ \A v \in Workers : Runs(v, r)' => v = w
  <2>1. Runs(w, r) /\ Before(r, e)
    BY <1>6 DEF Due
  <2> QED
    BY <1>1, <1>2, <2>1 DEF Order
<1> QED
  BY <1>4, <1>5, <1>6

\* A handler that is run is due no more; no other one changes.
LEMMA Ran ==
  ASSUME Types, Order, NEW w \in Workers, NEW r \in Entries, Runs(w, r),
         hand' = [hand EXCEPT ![w] = Idle], UNCHANGED queue
  PROVE  /\ \A q \in Entries : Due(q)' <=> Due(q) /\ q # r
         /\ \A q \in Entries, v \in Workers : Runs(v, q)' <=> Runs(v, q) /\ v # w
<1>1. \A q \in Entries, v \in Workers : Runs(v, q)' <=> Runs(v, q) /\ v # w
  BY NewHands DEF Runs, Types
<1>2. \A i \in 1..Len(queue) : queue[i] # r
  <2>1. \A i \in 1..Len(queue) : Before(r, queue[i])
    BY DEF Order
  <2>2. ~Before(r, r)
    BY Pairs, Bounds DEF Before
  <2> QED
    BY <2>1, <2>2
<1>3. \A q \in Entries : Runs(w, q) => q = r
  BY Pairs DEF Runs
<1> QED
  BY <1>1, <1>2, <1>3 DEF Due, Order

\* A handler that is taken is due as before.
LEMMA TakeSame ==
  ASSUME NEW w \in Workers, NEW q \in Entries, q = queue[1], Len(queue) \in Nat, Len(queue) >= 1,
         hand[w] = Idle, Len(queue') = Len(queue) - 1,
         \A i \in 1..Len(queue') : queue'[i] = queue[i + 1],
         \A r \in Entries, v \in Workers :
            Runs(v, r)' <=> (v # w /\ Runs(v, r)) \/ (v = w /\ r = q)
  PROVE  \A r \in Entries : Due(r)' <=> Due(r)
<1>1. \A r \in Entries : ~Runs(w, r)
  BY NewHands DEF Runs
<1>2. \A i \in 1..Len(queue') : i + 1 \in 1..Len(queue)
  OBVIOUS
<1>3. \A i \in 1..Len(queue) : i = 1 \/ (i - 1 \in 1..Len(queue') /\ queue'[i - 1] = queue[i])
  OBVIOUS
<1>4. 1 \in 1..Len(queue)
  OBVIOUS
<1>5. ASSUME NEW r \in Entries, Due(r)' PROVE Due(r)
  BY <1>2, <1>4, <1>5 DEF Due
<1>6. ASSUME NEW r \in Entries, Due(r) PROVE Due(r)'
  BY <1>1, <1>3, <1>6 DEF Due
<1> QED
  BY <1>5, <1>6

\* What a worker adds to the handlers that are due was not posted before.
Flow ==
  \A r \in Entries :
    /\ Posted(r[1], r[2]) => Posted(r[1], r[2])'
    /\ Due(r)' => Due(r) \/ (r[1] = parsed /\ ~Posted(r[1], r[2]))

\* A worker posts, takes, or begins or ends process_data.
LEMMA Moves ==
  ASSUME Types, Posting, Order, NEW w \in Workers, Parse(w) \/ Post(w) \/ Return(w) \/ Take(w)
  PROVE  Order' /\ Flow
<1>1. CASE Parse(w)
  <2>1. /\ hand' = [hand EXCEPT ![w] = <<"post", parsed + 1, 1>>] /\ parsed' = parsed + 1
        /\ UNCHANGED <<config, queue>> /\ hand[w] = Idle /\ parsed \in Nat
        /\ \A v \in Workers : hand[v][1] # "post"
    BY <1>1, Bounds DEF Parse, Free, Types
  <2>2. \A r \in Entries, v \in Workers : Runs(v, r)' <=> Runs(v, r)
    BY <2>1, NewHands DEF Runs, Types
  <2>3. \A r \in Entries : Due(r)' <=> Due(r)
    BY <2>1, <2>2 DEF Due
  <2>4. ASSUME NEW r \in Entries, Posted(r[1], r[2]) PROVE Posted(r[1], r[2])'
    <3>1. r[1] <= parsed /\ r[1] # parsed + 1 /\ r[1] <= parsed + 1
      BY <2>1, <2>4, Pairs, Bounds DEF Posted
    <3> QED
      BY <2>1, <3>1 DEF Posted, Types
  <2>5. Order'
    BY <2>1, <2>2, <2>3, <2>4 DEF Order, config, n
  <2>6. Flow
    BY <2>3, <2>4 DEF Flow
  <2> QED
    BY <2>5, <2>6
<1>2. CASE Post(w)
  <2>1. PICK l \in Lines, k \in 1..n :
          /\ hand[w] = <<"post", l, k>> /\ hand' = [hand EXCEPT ![w] = <<"post", l, k + 1>>]
          /\ queue' = Append(queue, <<l, k>>) /\ <<l, k>> \in Entries
    BY <1>2, PostEffect
  <2>2. /\ l = parsed /\ n \in Nat /\ parsed \in Nat /\ UNCHANGED <<config, parsed>>
        /\ \A v \in Workers : hand[v][1] = "post" => v = w
    BY <1>2, <2>1, RouteLength, Bounds DEF Post, Posting, Types
  <2>3. \A r \in Entries, v \in Workers : Runs(v, r)' <=> Runs(v, r)
    BY <2>1 DEF Runs, Types
  <2>4. ASSUME NEW r \in Entries, Due(r) PROVE Before(r, <<l, k>>)
    <3>1. Posted(r[1], r[2])
      BY <2>4 DEF Order
    <3> QED
      BY <2>1, <2>2, <3>1, Pairs, Bounds DEF Posted, Before
  <2>5. ASSUME NEW r \in Entries, Posted(r[1], r[2]) PROVE Posted(r[1], r[2])'
    <3>1. r[1] <= parsed /\ r[2] \in Nat /\ (r[1] = l => r[2] # 0 /\ r[2] < k)
      BY <2>1, <2>5, Pairs, Bounds DEF Posted
    <3>2. \A v \in Workers : hand'[v][1] = "post" => hand'[v] = <<"post", l, k + 1>>
      BY <2>1, <2>2 DEF Types
    <3>3. r[1] = l => r[2] < k + 1
      BY <3>1
    <3> QED
      BY <2>2, <3>1, <3>2, <3>3 DEF Posted
  <2>6. Posted(l, k)'
    BY <2>1, <2>2 DEF Posted, Types
  <2> HIDE DEF Order
  <2>7. \A r \in Entries : Due(r)' <=> Due(r) \/ r = <<l, k>>
    BY <2>1, <2>3, <2>4, Pushed
  <2>8. \A r \in Entries : Due(r)' => Posted(r[1], r[2])' /\ r[2] <= n' /\ (r[2] = 0 => n' = 0)
    BY <2>1, <2>2, <2>5, <2>6, <2>7 DEF Order, config, n
  <2>9. Order'
    BY <2>1, <2>3, <2>4, <2>8, Pushed DEF Order
  <2>10. Flow
    <3>1. ~Posted(l, k)
      BY <2>1 DEF Posted
    <3> QED
      BY <2>1, <2>2, <2>5, <2>7, <3>1 DEF Flow
  <2> QED
    BY <2>9, <2>10
<1>3. CASE Return(w)
  <2>1. /\ hand[w][1] = "post" /\ hand' = [hand EXCEPT ![w] = Idle] /\ UNCHANGED <<config, parsed>>
        /\ hand[w][2] = parsed /\ parsed \in Nat /\ <<parsed, 0>> \in Entries
        /\ \A v \in Workers : hand[v][1] = "post" => v = w
        /\ queue' = IF n = 0 THEN Append(queue, <<parsed, 0>>) ELSE queue
    <3>1. hand[w][2] = parsed /\ parsed \in Lines /\ \A v \in Workers : hand[v][1] = "post" => v = w
      BY <1>3, HandShape DEF Return, Posting, Types
    <3>2. parsed \in Nat /\ <<parsed, 0>> \in Entries
      BY <3>1, Bounds DEF Entries
    <3> QED
      BY <1>3, <3>1, <3>2 DEF Return
  <2>2. \A r \in Entries, v \in Workers : Runs(v, r)' <=> Runs(v, r)
    BY <2>1, NewHands DEF Runs, Types
  <2>3. \A r \in Entries : Posted(r[1], r[2]) => Posted(r[1], r[2])'
    BY <2>1, NewHands DEF Posted, Types
  <2>4. CASE n # 0
    <3>1. queue' = queue
      BY <2>1, <2>4
    <3>2. Order'
      BY <2>1, <2>2, <2>3, <3>1 DEF Order, Due, config, n
    <3>3. Flow
      BY <2>2, <2>3, <3>1 DEF Due, Flow
    <3> QED
      BY <3>2, <3>3
  <2>5. CASE n = 0
    <3>1. queue' = Append(queue, <<parsed, 0>>)
      BY <2>1, <2>5
    <3>2. ASSUME NEW r \in Entries, Due(r) PROVE Before(r, <<parsed, 0>>)
      <4>1. Posted(r[1], r[2]) /\ r[2] = 0
        BY <2>5, <3>2, Pairs, Bounds DEF Order
      <4> QED
        BY <2>1, <4>1, Pairs, Bounds DEF Posted, Before
    <3>3. Posted(parsed, 0)'
      BY <2>1, NewHands DEF Posted, Types
    <3>4. \A r \in Entries : Due(r)' <=> Due(r) \/ r = <<parsed, 0>>
      BY <2>1, <2>2, <3>1, <3>2, Pushed
    <3>5. \A r \in Entries : Due(r)' => Posted(r[1], r[2])' /\ r[2] <= n' /\ (r[2] = 0 => n' = 0)
      BY <2>1, <2>3, <2>5, <3>3, <3>4 DEF Order, config, n
    <3>6. Order'
      BY <2>1, <2>2, <3>1, <3>2, <3>5, Pushed DEF Order
    <3>7. ~Posted(parsed, 0)
      BY <2>1 DEF Posted
    <3>8. Flow
      BY <2>1, <2>3, <3>4, <3>7 DEF Flow
    <3> QED
      BY <3>6, <3>8
  <2> QED
    BY <2>4, <2>5
<1>4. CASE Take(w)
  <2>1. /\ hand[w] = Idle /\ Len(queue) >= 1 /\ queue[1] \in Entries
        /\ hand' = [hand EXCEPT ![w] = <<"run", queue[1][1], queue[1][2]>>]
        /\ Len(queue') = Len(queue) - 1
        /\ \A i \in 1..Len(queue') : queue'[i] = queue[i + 1]
        /\ UNCHANGED <<config, parsed>>
    BY <1>4, TakeEffect DEF Take
  <2>2. Len(queue) \in Nat /\ \A i \in 1..Len(queue') : i + 1 \in 1..Len(queue) /\ 1 < i + 1
    BY <2>1, LenProperties DEF Types
  <2>3. PICK q \in Entries : q = queue[1]
    BY <2>1
  <2>4. \A r \in Entries, v \in Workers : Runs(v, r)' <=> (v # w /\ Runs(v, r)) \/ (v = w /\ r = q)
    BY <2>1, <2>3, Pairs, NewHands DEF Runs, Types
  <2>5. \A v \in Workers : ~Runs(v, q)
    <3>1. ~Before(q, q)
      BY Pairs, Bounds DEF Before
    <3> QED
      BY <2>1, <2>2, <2>3, <3>1 DEF Order
  <2>6. \A r \in Entries : Due(r)' <=> Due(r)
    BY <2>1, <2>2, <2>3, <2>4, TakeSame
  <2>7. \A r \in Entries : Posted(r[1], r[2])' <=> Posted(r[1], r[2])
    BY <2>1, NewHands DEF Posted, Types
  <2>8. \A i, j \in 1..Len(queue') : i < j => Before(queue'[i], queue'[j])
    BY <2>1, <2>2 DEF Order
  <2>9. ASSUME NEW r \in Entries, NEW v \in Workers, Runs(v, r)'
        PROVE  /\ \A i \in 1..Len(queue') : Before(r, queue'[i])
               /\ \A u \in Workers : Runs(u, r)' => u = v
    BY <2>1, <2>2, <2>3, <2>4, <2>5, <2>9 DEF Order
  <2>10. Order'
    BY <2>1, <2>6, <2>7, <2>8, <2>9 DEF Order, config, n
  <2>11. Flow
    BY <2>6, <2>7 DEF Flow
  <2> QED
    BY <2>10, <2>11
<1> QED
  BY <1>1, <1>2, <1>3, <1>4

\* A worker runs a handler: it is due no more.
LEMMA Runnings ==
  ASSUME Types, Order, NEW w \in Workers, RunRedis(w) \/ RunLogger(w) \/ RunFalse(w)
  PROVE  \E r \in Entries :
           /\ r = Tail(hand[w]) /\ Runs(w, r) /\ Due(r) /\ (r[2] # 0 => r \in Requests)
           /\ \A q \in Entries : Due(q)' <=> Due(q) /\ q # r
           /\ \A q \in Entries : Posted(q[1], q[2]) => Posted(q[1], q[2])'
           /\ Order'
<1>1. hand[w][1] = "run" /\ hand' = [hand EXCEPT ![w] = Idle] /\ UNCHANGED <<config, parsed, queue>>
  BY DEF RunRedis, RunLogger, RunFalse, Running
<1>2. PICK r \in Entries : r = Tail(hand[w]) /\ Runs(w, r) /\ (r[2] # 0 => r \in Requests)
  BY <1>1, RunEffect
<1>3. /\ \A q \in Entries : Due(q)' <=> Due(q) /\ q # r
      /\ \A q \in Entries, v \in Workers : Runs(v, q)' <=> Runs(v, q) /\ v # w
  BY <1>1, <1>2, Ran
<1>4. \A q \in Entries : Posted(q[1], q[2]) => Posted(q[1], q[2])'
  BY <1>1, NewHands DEF Posted, Types
<1>5. Order'
  BY <1>1, <1>3, <1>4 DEF Order, config, n
<1> QED
  BY <1>2, <1>3, <1>4, <1>5 DEF Due

\* The other steps leave what is due as it is.
LEMMA OffWorkSame ==
  ASSUME OffWork
  PROVE  /\ \A r \in Entries : (Due(r)' <=> Due(r)) /\ (Posted(r[1], r[2])' <=> Posted(r[1], r[2]))
         /\ Order' <=> Order
<1>1. UNCHANGED work
  BY OffWorkFrame
<1>2. \A r \in Entries : (Due(r)' <=> Due(r)) /\ (Posted(r[1], r[2])' <=> Posted(r[1], r[2]))
  BY <1>1 DEF work, Due, Posted, Runs
<1> QED
  BY <1>1, <1>2 DEF work, config, n, Order, Runs

LEMMA NextOrder == Types /\ Posting /\ Order /\ [Next]_vars => Order'
<1> SUFFICES ASSUME Types, Posting, Order, [Next]_vars PROVE Order'
  OBVIOUS
<1>1. CASE OffWork
  BY <1>1, OffWorkSame
<1>2. ASSUME NEW w \in Workers, Work(w) PROVE Order'
  BY <1>2, Moves, Runnings DEF Work
<1> QED
  BY <1>1, <1>2 DEF Next, OffWork

-----------------------------------------------------------------------------
(* Answers                                                                   *)

LEMMA NextOnce == Types /\ Posting /\ Order /\ Once /\ [Next]_vars => Once'
<1> SUFFICES ASSUME Types, Posting, Order, Once, [Next]_vars PROVE Once'
  OBVIOUS
<1> USE DEF redis
<1>1. Requests \subseteq Entries /\ \A r \in Requests : r[2] # 0
  BY Bounds DEF Requests, Targets
<1>2. CASE Send \/ ConnectionChanges \/ Transmit \/ UNCHANGED vars \/ \E l \in Lines : Conclude(l)
  <2>1. OffWork /\ UNCHANGED <<asked, answers, delayed, answer>>
    BY <1>2 DEF OffWork, Send, ConnectionChanges, Transmit, Conclude, vars
  <2> QED
    BY <1>1, <2>1, OffWorkSame DEF Once, Fresh
<1>3. ASSUME NEW r \in Requests, LoggerAnswers(r) PROVE Once'
  <2>1. /\ OffWork /\ UNCHANGED <<asked, answers>> /\ r \in delayed /\ delayed' = delayed \ {r}
        /\ \A q \in Requests : q # r => answer'[q[1]][q[2]] = answer[q[1]][q[2]]
    BY <1>3, OneAnswer DEF OffWork, LoggerAnswers
  <2> QED
    BY <1>1, <2>1, OffWorkSame DEF Once, Fresh, Types
<1>4. ASSUME NEW r \in Requests, NEW a \in {"ok", "failed"}, RedisAnswers(r, a) PROVE Once'
  <2>1. /\ OffWork /\ UNCHANGED <<asked, delayed>> /\ r \in asked
        /\ answers' = [answers EXCEPT ![r] = <<a>>]
        /\ \A q \in Requests : q # r => answer'[q[1]][q[2]] = answer[q[1]][q[2]]
    BY <1>4, OneAnswer DEF OffWork, RedisAnswers, Ledger!Answer
  <2>2. answers'[r] # <<>> /\ \A q \in Requests : q # r => answers'[q] = answers[q]
    BY <2>1 DEF Types
  <2> QED
    BY <1>1, <2>1, <2>2, OffWorkSame DEF Once, Fresh, Types
<1>5. ASSUME NEW w \in Workers, Parse(w) \/ Post(w) \/ Return(w) \/ Take(w) PROVE Once'
  <2>1. UNCHANGED <<asked, answers, delayed, answer>>
    BY <1>5 DEF Parse, Post, Return, Take
  <2>2. Flow
    BY <1>5, Moves
  <2>3. \A r \in Requests : Due(r)' \/ ~Posted(r[1], r[2])' => Due(r) \/ ~Posted(r[1], r[2])
    BY <1>1, <2>2 DEF Flow
  <2> QED
    BY <2>1, <2>3 DEF Once, Fresh
<1>6. ASSUME NEW w \in Workers, RunRedis(w) \/ RunLogger(w) \/ RunFalse(w) PROVE Once'
  <2>1. PICK r \in Entries :
          /\ r = Tail(hand[w]) /\ Runs(w, r) /\ Due(r) /\ (r[2] # 0 => r \in Requests)
          /\ \A q \in Entries : Due(q)' <=> Due(q) /\ q # r
          /\ \A q \in Entries : Posted(q[1], q[2]) => Posted(q[1], q[2])'
    BY <1>6, Runnings
  <2>2. \A q \in Requests : Due(q)' \/ ~Posted(q[1], q[2])' => Fresh(q) /\ q # r
    BY <1>1, <2>1 DEF Once, Order
  <2>3. CASE UNCHANGED <<asked, answers, delayed, answer>>
    BY <2>2, <2>3 DEF Once, Fresh
  <2>4. ASSUME r \in Requests, NEW a \in {"ok", "failed"}, Answered(r, a),
               \/ Ledger!Refuse(r) /\ UNCHANGED delayed
               \/ UNCHANGED <<asked, answers, delayed>>
        PROVE  Once'
    <3>1. Fresh(r) /\ \A q \in Requests : q # r => answer'[q[1]][q[2]] = answer[q[1]][q[2]]
      BY <2>1, <2>4, OneAnswer DEF Once
    <3>2. CASE Ledger!Refuse(r) /\ UNCHANGED delayed
      <4>1. asked' = asked \cup {r} /\ answers'[r] # <<>>
            /\ \A q \in Requests : q # r => answers'[q] = answers[q]
        BY <2>4, <3>2 DEF Ledger!Refuse, Types
      <4> QED
        BY <2>2, <3>1, <3>2, <4>1 DEF Once, Fresh, Types
    <3>3. CASE UNCHANGED <<asked, answers, delayed>>
      BY <2>2, <3>1, <3>3 DEF Once, Fresh, Types
    <3> QED
      BY <2>4, <3>2, <3>3
  <2>5. CASE r \in Requests /\ Ledger!Accept(r) /\ UNCHANGED <<answer, delayed>>
    <3>1. Fresh(r) /\ asked' = asked \cup {r} /\ UNCHANGED answers
      BY <2>1, <2>5 DEF Once, Ledger!Accept
    <3> QED
      BY <2>2, <2>5, <3>1 DEF Once, Fresh, Types
  <2>6. CASE r \in Requests /\ delayed' = delayed \cup {r} /\ UNCHANGED <<asked, answers, answer>>
    <3>1. Fresh(r)
      BY <2>1, <2>6 DEF Once
    <3> QED
      BY <2>2, <2>6, <3>1 DEF Once, Fresh, Types
  <2>7. CASE RunRedis(w)
    <3>1. r \in Requests /\ UNCHANGED delayed
      BY <2>1, <2>7 DEF RunRedis, Running, Runs
    <3> QED
      BY <2>1, <2>4, <2>5, <2>7, <3>1 DEF RunRedis
  <2>8. CASE RunLogger(w)
    <3>1. r \in Requests /\ UNCHANGED <<asked, answers>>
      BY <2>1, <2>8 DEF RunLogger, Running, Runs
    <3> QED
      BY <2>1, <2>4, <2>6, <2>8, <3>1 DEF RunLogger
  <2>9. CASE RunFalse(w)
    BY <2>3, <2>9 DEF RunFalse
  <2> QED
    BY <1>6, <2>7, <2>8, <2>9
<1> QED
  BY <1>2, <1>3, <1>4, <1>5, <1>6 DEF Next, Work

\* An answer is given where there was none.
LEMMA AnswersChange ==
  ASSUME Types, Order, Once, [Next]_vars
  PROVE  \/ UNCHANGED answer
         \/ \E r \in Requests, a \in {"ok", "failed"} :
              answer[r[1]][r[2]] = "none" /\ Answered(r, a)
<1>1. CASE Send \/ ConnectionChanges \/ Transmit \/ UNCHANGED vars
  BY <1>1 DEF Send, ConnectionChanges, Transmit, vars
<1>2. ASSUME NEW l \in Lines, Conclude(l) PROVE UNCHANGED answer
  BY <1>2 DEF Conclude
<1>3. ASSUME NEW r \in Requests, LoggerAnswers(r)
      PROVE  answer[r[1]][r[2]] = "none" /\ Answered(r, "ok")
  BY <1>3 DEF LoggerAnswers, Once
<1>4. ASSUME NEW r \in Requests, NEW a \in {"ok", "failed"}, RedisAnswers(r, a)
      PROVE  answer[r[1]][r[2]] = "none" /\ Answered(r, a)
  BY <1>4 DEF RedisAnswers, Ledger!Answer, Once
<1>5. ASSUME NEW w \in Workers, Parse(w) \/ Post(w) \/ Return(w) \/ Take(w) \/ RunFalse(w)
      PROVE  UNCHANGED answer
  BY <1>5 DEF Parse, Post, Return, Take, RunFalse
<1>6. ASSUME NEW w \in Workers, RunRedis(w) \/ RunLogger(w)
      PROVE  \/ UNCHANGED answer
             \/ \E r \in Requests, a \in {"ok", "failed"} :
                  answer[r[1]][r[2]] = "none" /\ Answered(r, a)
  <2>1. PICK r \in Entries :
          r = Tail(hand[w]) /\ Runs(w, r) /\ Due(r) /\ (r[2] # 0 => r \in Requests)
    BY <1>6, Runnings
  <2>2. r \in Requests
    BY <1>6, <2>1 DEF RunRedis, RunLogger, Running, Runs
  <2>3. answer[r[1]][r[2]] = "none"
    BY <2>1, <2>2 DEF Once, Fresh
  <2> QED
    BY <1>6, <2>1, <2>2, <2>3 DEF RunRedis, RunLogger
<1> QED
  BY <1>1, <1>2, <1>3, <1>4, <1>5, <1>6 DEF Next, Work

\* What the reply to a line was made of does not change after it.
LEMMA OutcomesStay ==
  ASSUME Types, Posting, Order, Once, Concluding, [Next]_vars, NEW l \in Outcomes
  PROVE  Concluded(l)' /\ (Good(l)' <=> Good(l))
<1>1. l \in Lines /\ l <= parsed /\ Concluded(l) /\ UNCHANGED n
  BY NextConfig DEF Concluding, Outcomes, config, n
<1>2. \A t \in 1..n : answer'[l][t] = answer[l][t]
  <2>1. ASSUME NEW r \in Requests, NEW a \in {"ok", "failed"},
               answer[r[1]][r[2]] = "none", Answered(r, a)
        PROVE  \A t \in 1..n : answer'[l][t] = answer[l][t]
    <3>1. \A t \in 1..n : t \in Targets /\ <<l, t>> # r
      BY <1>1, <2>1, RouteLength DEF Concluded
    <3> QED
      BY <1>1, <2>1, <3>1, OneAnswer
  <2> QED
    BY <2>1, AnswersChange
<1>3. \A v \in Workers : ~(hand'[v][1] = "post" /\ hand'[v][2] = l)
  <2>1. CASE OffWork
    BY <1>1, <2>1, OffWorkFrame DEF work, Concluded
  <2>2. ASSUME NEW w \in Workers, Parse(w)
        PROVE  \A v \in Workers : ~(hand'[v][1] = "post" /\ hand'[v][2] = l)
    <3>1. hand' = [hand EXCEPT ![w] = <<"post", parsed + 1, 1>>] /\ l # parsed + 1
      BY <1>1, <2>2, Bounds DEF Parse, Types
    <3> QED
      BY <1>1, <3>1 DEF Concluded, Types
  <2>3. ASSUME NEW w \in Workers, Post(w)
        PROVE  \A v \in Workers : ~(hand'[v][1] = "post" /\ hand'[v][2] = l)
    <3>1. PICK m \in Lines, k \in 1..n :
            hand[w] = <<"post", m, k>> /\ hand' = [hand EXCEPT ![w] = <<"post", m, k + 1>>]
      BY <2>3, PostEffect
    <3> QED
      BY <1>1, <3>1 DEF Concluded, Types
  <2>4. ASSUME NEW w \in Workers, Return(w) \/ RunRedis(w) \/ RunLogger(w) \/ RunFalse(w)
        PROVE  \A v \in Workers : ~(hand'[v][1] = "post" /\ hand'[v][2] = l)
    <3>1. hand' = [hand EXCEPT ![w] = Idle]
      BY <2>4 DEF Return, RunRedis, RunLogger, RunFalse
    <3> QED
      BY <1>1, <3>1, NewHands DEF Concluded, Types
  <2>5. ASSUME NEW w \in Workers, Take(w)
        PROVE  \A v \in Workers : ~(hand'[v][1] = "post" /\ hand'[v][2] = l)
    <3>1. PICK m, t : hand' = [hand EXCEPT ![w] = <<"run", m, t>>]
      BY <2>5, TakeEffect
    <3> QED
      BY <1>1, <3>1 DEF Concluded, Types
  <2> QED
    BY <2>1, <2>2, <2>3, <2>4, <2>5 DEF Next, Work, OffWork
<1> QED
  BY <1>1, <1>2, <1>3 DEF Concluded, Good

-----------------------------------------------------------------------------
(* Replies                                                                   *)

LEMMA FiniteOutcomes == IsFiniteSet(Outcomes) /\ Cardinality(Outcomes) \in Nat
<1>1. Outcomes \subseteq 1..MaxLines /\ IsFiniteSet(1..MaxLines)
  BY FS_Interval, Bounds DEF Outcomes, Lines
<1>2. IsFiniteSet(Outcomes)
  BY <1>1, FS_Subset
<1> QED
  BY <1>2, FS_CardinalityType

\* One reply for a line, no line more than once: no more replies than lines.
LEMMA Trust == Types /\ Concluding => Len(replies) + writes <= parsed
<1> SUFFICES ASSUME Types, Concluding PROVE Len(replies) + writes <= parsed
  OBVIOUS
<1>1. parsed \in Nat
  BY Bounds DEF Types
<1>2. Outcomes \subseteq 1..parsed
  BY <1>1, Bounds DEF Concluding, Outcomes, Lines
<1>3. IsFiniteSet(1..parsed) /\ Cardinality(1..parsed) = parsed
  BY <1>1, FS_Interval
<1>4. Cardinality(Outcomes) <= parsed
  BY <1>2, <1>3, FS_Subset
<1> QED
  BY <1>4 DEF Concluding

Ends(l) == Conclude(l) \/ \E w \in Workers : RunFalse(w) /\ hand[w][2] = l

\* The callback runs for a line all of whose answers are there, for the first time,
\* and says whether they are all true.
LEMMA Ending ==
  ASSUME Types, Posting, Order, Once, Concluding, NEW l \in Lines, Ends(l)
  PROVE  /\ l <= parsed /\ outcome[l] = <<>> /\ Concluded(l)
         /\ Outcomes' = Outcomes \cup {l} /\ l \notin Outcomes
         /\ writes' = writes + 1 /\ (buffer' = "1" <=> Good(l))
         /\ UNCHANGED <<config, sent, parsed, replies, answer, published, queue>>
<1>1. CASE Conclude(l)
  <2>1. PICK ok \in {"ok", "failed"} :
          /\ HandleProcessData(l, ok)
          /\ ok = "ok" <=> n # 0 /\ \A t \in 1..n : answer[l][t] # "failed"
    BY <1>1, VerdictIs DEF Conclude
  <2>2. /\ outcome'[l] # <<>> /\ \A m \in Lines \ {l} : outcome'[m] = outcome[m]
        /\ buffer' = (IF ok = "ok" THEN "1" ELSE "-1") /\ writes' = writes + 1 /\ UNCHANGED replies
    BY <2>1, OneOutcome
  <2>3. n > 0 /\ l <= parsed /\ outcome[l] = <<>> /\ Concluded(l)
        /\ UNCHANGED <<config, sent, parsed, answer, published, queue>>
    BY <1>1 DEF Conclude, redis
  <2>4. ok = "ok" <=> Good(l)
    <3>1. \A t \in 1..n : answer[l][t] \in {"ok", "failed"}
      BY <2>3, RouteLength DEF Concluded, Types
    <3> QED
      BY <2>1, <2>3, <3>1, RouteLength DEF Good
  <2>5. buffer' = "1" <=> Good(l)
    BY <2>2, <2>4
  <2>6. Outcomes' = Outcomes \cup {l} /\ l \notin Outcomes
    BY <2>2, <2>3 DEF Outcomes
  <2> QED
    BY <2>2, <2>3, <2>5, <2>6
<1>2. ASSUME NEW w \in Workers, RunFalse(w), hand[w][2] = l
      PROVE  /\ l <= parsed /\ outcome[l] = <<>> /\ Concluded(l)
             /\ Outcomes' = Outcomes \cup {l} /\ l \notin Outcomes
             /\ writes' = writes + 1 /\ (buffer' = "1" <=> Good(l))
             /\ UNCHANGED <<config, sent, parsed, replies, answer, published, queue>>
  <2>1. HandleProcessData(l, "failed") /\ Runs(w, <<l, 0>>) /\ <<l, 0>> \in Entries
    BY <1>2, Bounds DEF RunFalse, Runs, Entries
  <2>2. /\ outcome'[l] # <<>> /\ \A m \in Lines \ {l} : outcome'[m] = outcome[m]
        /\ buffer' = "-1" /\ writes' = writes + 1 /\ UNCHANGED replies
    BY <2>1, OneOutcome
  <2>3. Posted(l, 0) /\ n = 0 /\ outcome[l] = <<>>
    BY <2>1 DEF Due, Order, Concluding
  <2>4. l <= parsed /\ Concluded(l) /\ ~Good(l)
    BY <2>3 DEF Posted, Concluded, Good
  <2>5. Outcomes' = Outcomes \cup {l} /\ l \notin Outcomes
    BY <2>2, <2>3 DEF Outcomes
  <2>6. UNCHANGED <<config, sent, parsed, answer, published, queue>>
    BY <1>2 DEF RunFalse, redis
  <2> QED
    BY <2>2, <2>3, <2>4, <2>5, <2>6
<1> QED
  BY <1>1, <1>2 DEF Ends

\* A step is the end of a line or leaves the outcomes as they are.
LEMMA EndOrNot ==
  ASSUME Types, [Next]_vars
  PROVE  \/ \E l \in Lines : Ends(l)
         \/ UNCHANGED <<Outcomes, outcome>> /\ (UNCHANGED device \/ Transmit)
<1> USE DEF redis
<1>1. CASE Send \/ ConnectionChanges \/ Transmit \/ UNCHANGED vars
  BY <1>1 DEF Send, ConnectionChanges, Transmit, vars, Outcomes
<1>2. ASSUME NEW l \in Lines, Conclude(l) PROVE Ends(l)
  BY <1>2 DEF Ends
<1>3. ASSUME NEW r \in Requests, LoggerAnswers(r) \/ \E a \in {"ok", "failed"} : RedisAnswers(r, a)
      PROVE  UNCHANGED <<Outcomes, outcome, device>>
  BY <1>3 DEF LoggerAnswers, RedisAnswers, Outcomes
<1>4. ASSUME NEW w \in Workers,
             Parse(w) \/ Post(w) \/ Return(w) \/ Take(w) \/ RunRedis(w) \/ RunLogger(w)
      PROVE  UNCHANGED <<Outcomes, outcome, device>>
  BY <1>4 DEF Parse, Post, Return, Take, RunRedis, RunLogger, Outcomes
<1>5. ASSUME NEW w \in Workers, RunFalse(w) PROVE \E l \in Lines : Ends(l)
  <2>1. hand[w][2] \in Lines
    BY <1>5, HandShape DEF RunFalse, Types
  <2> QED
    BY <1>5, <2>1 DEF Ends
<1> QED
  BY <1>1, <1>2, <1>3, <1>4, <1>5 DEF Next, Work

\* The lines and the number of them that the strand has taken only grow.
LEMMA LinesGrow ==
  ASSUME Types, [Next]_vars
  PROVE  parsed' \in {parsed, parsed + 1} /\ parsed \in Nat /\ parsed <= parsed'
<1>1. parsed \in Nat
  BY Bounds DEF Types
<1>2. parsed' \in {parsed, parsed + 1}
  <2>1. CASE OffWork
    BY <2>1, OffWorkFrame DEF work
  <2>2. ASSUME NEW w \in Workers, Work(w) PROVE parsed' \in {parsed, parsed + 1}
    BY <2>2 DEF Work, Parse, Post, Return, Take, RunRedis, RunLogger, RunFalse
  <2> QED
    BY <2>1, <2>2 DEF Next, OffWork
<1> QED
  BY <1>1, <1>2

\* Without a dispatcher the callback is due only before it has run.
LEMMA NotTwice ==
  ASSUME Types, Posting, Order, Once, Concluding, [Next]_vars, NEW l \in Lines, Due(<<l, 0>>)'
  PROVE  outcome'[l] = <<>>
<1>1. <<l, 0>> \in Entries
  BY Bounds DEF Entries
<1>2. CASE Send \/ ConnectionChanges \/ Transmit \/ UNCHANGED vars
           \/ \E r \in Requests : LoggerAnswers(r) \/ \E a \in {"ok", "failed"} : RedisAnswers(r, a)
  <2>1. OffWork /\ UNCHANGED outcome
    BY <1>2 DEF OffWork, Send, ConnectionChanges, Transmit, LoggerAnswers, RedisAnswers, vars
  <2> QED
    BY <1>1, <2>1, OffWorkSame DEF Concluding
<1>3. ASSUME NEW m \in Lines, Conclude(m) PROVE FALSE
  <2>1. Due(<<l, 0>>) /\ n > 0
    BY <1>1, <1>3, OffWorkSame DEF OffWork, Conclude
  <2> QED
    BY <1>1, <2>1 DEF Order
<1>4. ASSUME NEW w \in Workers, Parse(w) \/ Post(w) \/ Return(w) \/ Take(w)
      PROVE  outcome'[l] = <<>>
  <2>1. Due(<<l, 0>>) \/ (l = parsed /\ ~Posted(l, 0))
    BY <1>1, <1>4, Moves DEF Flow
  <2>2. UNCHANGED outcome
    BY <1>4 DEF Parse, Post, Return, Take
  <2>3. ASSUME l = parsed, ~Posted(l, 0) PROVE ~Concluded(l)
    BY <2>3, Bounds DEF Posted, Concluded
  <2> QED
    BY <2>1, <2>2, <2>3 DEF Concluding, Outcomes
<1>5. ASSUME NEW w \in Workers, RunRedis(w) \/ RunLogger(w) \/ RunFalse(w)
      PROVE  outcome'[l] = <<>>
  <2>1. PICK r \in Entries :
          Runs(w, r) /\ \A q \in Entries : Due(q)' <=> Due(q) /\ q # r
    BY <1>5, Runnings
  <2>2. outcome[l] = <<>> /\ <<l, 0>> # r
    BY <1>1, <2>1 DEF Concluding
  <2>3. CASE RunRedis(w) \/ RunLogger(w)
    BY <2>2, <2>3 DEF RunRedis, RunLogger
  <2>4. CASE RunFalse(w)
    <3>1. hand[w][3] = 0 /\ HandleProcessData(hand[w][2], "failed") /\ hand[w][2] \in Lines
      BY <2>4, HandShape DEF RunFalse, Types
    <3>2. hand[w][2] # l
      BY <2>1, <2>2, <3>1, Pairs DEF Runs
    <3> QED
      BY <2>2, <3>1, <3>2, OneOutcome
  <2> QED
    BY <1>5, <2>3, <2>4
<1> QED
  BY <1>2, <1>3, <1>4, <1>5 DEF Next, Work

LEMMA NextConcluding ==
  Types /\ Posting /\ Order /\ Once /\ Concluding /\ [Next]_vars => Concluding'
<1> SUFFICES ASSUME Types, Posting, Order, Once, Concluding, [Next]_vars PROVE Concluding'
  OBVIOUS
<1>1. \A l \in Outcomes : l <= parsed' /\ Concluded(l)'
  <2>1. \A l \in Outcomes : l \in Nat /\ l <= parsed
    BY Bounds DEF Outcomes, Concluding
  <2> QED
    BY <2>1, LinesGrow, OutcomesStay
<1>2. \A l \in Lines : Due(<<l, 0>>)' => outcome'[l] = <<>>
  BY NotTwice
<1>3. ASSUME NEW l \in Lines, Ends(l) PROVE Concluding'
  <2>1. /\ l <= parsed' /\ Outcomes' = Outcomes \cup {l} /\ l \notin Outcomes
        /\ writes' = writes + 1 /\ UNCHANGED <<config, replies, answer>> /\ Concluded(l)
    BY <1>3, Ending
  <2>2. Concluded(l)'
    <3>1. CASE Conclude(l)
      BY <2>1, <3>1 DEF Conclude, Concluded, config, n
    <3>2. ASSUME NEW w \in Workers, RunFalse(w) PROVE Concluded(l)'
      <4>1. hand' = [hand EXCEPT ![w] = Idle]
        BY <3>2 DEF RunFalse
      <4> QED
        BY <2>1, <4>1, NewHands DEF Types, Concluded, config, n
    <3> QED
      BY <1>3, <3>1, <3>2 DEF Ends
  <2>3. Cardinality(Outcomes') = Cardinality(Outcomes) + 1
    BY <2>1, FiniteOutcomes, FS_AddElement
  <2>4. Len(replies) \in Nat /\ writes \in Nat
    BY LenProperties DEF Types
  <2>5. Cardinality(Outcomes') = Len(replies') + writes'
    BY <2>1, <2>3, <2>4 DEF Concluding
  <2>6. \A m \in Outcomes' : m <= parsed' /\ Concluded(m)'
    BY <1>1, <2>1, <2>2
  <2> QED
    BY <1>2, <2>5, <2>6 DEF Concluding
<1>4. CASE UNCHANGED Outcomes /\ UNCHANGED device
  BY <1>1, <1>2, <1>4 DEF Concluding, device
<1>5. CASE UNCHANGED Outcomes /\ Transmit
  <2>1. Len(replies') = Len(replies) + 1 /\ writes' = writes - 1
    BY <1>5, AppendProperties DEF Transmit, Types
  <2>2. Len(replies') + writes' = Len(replies) + writes
    BY <2>1, LenProperties DEF Types
  <2> QED
    BY <1>1, <1>2, <1>5, <2>2 DEF Concluding
<1> QED
  BY <1>3, <1>4, <1>5, EndOrNot

-----------------------------------------------------------------------------
(* One line at a time                                                        *)

\* Only the device sends.
LEMMA SentGrows == [Next]_vars => UNCHANGED sent \/ Send
<1> SUFFICES ASSUME [Next]_vars, ~Send PROVE UNCHANGED sent
  OBVIOUS
<1>1. CASE ConnectionChanges \/ Transmit \/ UNCHANGED vars
  BY <1>1 DEF ConnectionChanges, Transmit, vars
<1>2. ASSUME NEW w \in Workers, Work(w) PROVE UNCHANGED sent
  BY <1>2 DEF Work, Parse, Post, Return, Take, RunRedis, RunLogger, RunFalse
<1>3. ASSUME NEW r \in Requests, LoggerAnswers(r) \/ \E a \in {"ok", "failed"} : RedisAnswers(r, a)
      PROVE  UNCHANGED sent
  BY <1>3 DEF LoggerAnswers, RedisAnswers
<1>4. ASSUME NEW l \in Lines, Conclude(l) PROVE UNCHANGED sent
  BY <1>4 DEF Conclude
<1> QED
  BY <1>1, <1>2, <1>3, <1>4 DEF Next

\* A device in lock step has at most one line without a reply.
LEMMA LockStep ==
  ASSUME Types, Concluding, InStep, lockStep
  PROVE  /\ Len(replies) \in Nat /\ writes \in 0..1 /\ parsed \in Nat /\ parsed <= MaxLines
         /\ Len(replies) + writes <= parsed /\ parsed <= Len(replies) + 1
         /\ \A l \in 1..Len(replies) + writes : l \in Outcomes
         /\ \A l \in Lines : l <= parsed /\ l \notin Outcomes =>
              l = parsed /\ l = Len(replies) + 1 /\ writes = 0
<1>1. /\ Len(replies) \in Nat /\ writes \in Nat /\ parsed \in Nat /\ parsed <= sent /\ parsed <= MaxLines
      /\ sent \in Nat
  BY LenProperties, Bounds DEF Types
<1>2. Len(replies) + writes <= parsed /\ sent <= Len(replies) + 1
  BY Trust DEF InStep
<1>3. \A l \in 1..Len(replies) + writes : l \in Lines
  BY <1>1, <1>2, Bounds DEF Lines
<1>4. \A l \in 1..Len(replies) + writes : l \in Outcomes
  BY <1>1, <1>3 DEF InStep
<1>5. \A l \in Lines : l \notin Outcomes => ~(l <= Len(replies) + writes)
  BY DEF InStep
<1> QED
  BY <1>1, <1>2, <1>4, <1>5, Bounds

LEMMA NextInStep ==
  Types /\ Posting /\ Order /\ Once /\ Concluding /\ InStep /\ [Next]_vars => InStep'
<1> SUFFICES ASSUME Types, Posting, Order, Once, Concluding, InStep, [Next]_vars, lockStep
             PROVE  InStep'
  BY NextConfig DEF InStep, config
<1>1. /\ Len(replies) \in Nat /\ writes \in 0..1 /\ parsed \in Nat
      /\ parsed <= Len(replies) + 1 /\ sent <= Len(replies) + 1
      /\ \A l \in 1..Len(replies) + writes : l \in Outcomes
  BY LockStep DEF InStep
<1>2. \A l \in 1..Len(replies) + writes : Good(l)' <=> Good(l)
  BY <1>1, OutcomesStay
<1>3. ASSUME NEW l \in Lines, Ends(l) PROVE InStep'
  <2>1. /\ l <= parsed /\ Outcomes' = Outcomes \cup {l} /\ l \notin Outcomes
        /\ writes' = writes + 1 /\ (buffer' = "1" <=> Good(l))
        /\ UNCHANGED <<config, sent, parsed, replies, answer>>
    BY <1>3, Ending
  <2>2. l = Len(replies) + 1 /\ writes = 0 /\ writes' = 1
    BY <2>1, LockStep
  <2>3. Good(l)' <=> Good(l)
    BY <2>1 DEF Good, config, n
  <2>4. \A m \in Lines : m \in Outcomes' <=> m <= Len(replies') + writes'
    BY <1>1, <2>1, <2>2, Bounds DEF InStep
  <2>5. \A m \in 1..Len(replies') : replies'[m] = "1" <=> Good(m)'
    BY <1>1, <1>2, <2>1, <2>2 DEF InStep
  <2>6. \A m \in Lines : writes' > 0 /\ m = Len(replies') + 1 => (buffer' = "1" <=> Good(m)')
    BY <2>1, <2>2, <2>3
  <2> QED
    BY <1>1, <2>1, <2>4, <2>5, <2>6 DEF InStep
<1>4. CASE UNCHANGED Outcomes /\ UNCHANGED device
  <2>1. UNCHANGED <<replies, writes, buffer>> /\ sent' <= Len(replies) + 1
    BY <1>1, <1>4, SentGrows DEF Send, device
  <2>2. \A m \in 1..Len(replies') : replies'[m] = "1" <=> Good(m)'
    BY <1>1, <1>2, <2>1 DEF InStep
  <2>3. \A m \in Lines : writes' > 0 /\ m = Len(replies') + 1 => (buffer' = "1" <=> Good(m)')
    <3>1. writes > 0 => Len(replies) + 1 \in 1..Len(replies) + writes
      BY <1>1
    <3> QED
      BY <1>2, <2>1, <3>1 DEF InStep
  <2> QED
    BY <1>4, <2>1, <2>2, <2>3 DEF InStep
<1>5. CASE UNCHANGED Outcomes /\ Transmit
  <2>1. /\ writes = 1 /\ writes' = 0 /\ replies' = Append(replies, buffer)
        /\ replies \in Seq(Said) /\ buffer \in Said /\ UNCHANGED sent
    BY <1>1, <1>5 DEF Transmit, Types
  <2>2. Len(replies') = Len(replies) + 1 /\ replies'[Len(replies) + 1] = buffer
        /\ \A m \in 1..Len(replies) : replies'[m] = replies[m]
    BY <2>1, AppendProperties
  <2>3. ASSUME NEW m \in 1..Len(replies) + 1 PROVE replies'[m] = "1" <=> Good(m)'
    <3>1. Good(m)' <=> Good(m)
      BY <1>2, <2>1
    <3>2. CASE m = Len(replies) + 1
      <4>1. m \in Lines
        BY <1>1, <2>1 DEF Outcomes
      <4> QED
        BY <2>1, <2>2, <3>1, <3>2, <4>1 DEF InStep
    <3>3. CASE m \in 1..Len(replies)
      BY <2>2, <3>1, <3>3 DEF InStep
    <3> QED
      BY <1>1, <3>2, <3>3
  <2>4. \A m \in 1..Len(replies') : replies'[m] = "1" <=> Good(m)'
    BY <2>2, <2>3
  <2>5. \A m \in Lines : m \in Outcomes' <=> m <= Len(replies') + writes'
    BY <1>1, <1>5, <2>1, <2>2, Bounds DEF InStep
  <2>6. sent' <= Len(replies') + 1
    <3>1. sent \in Nat
      BY Bounds DEF Types
    <3> QED
      BY <1>1, <2>1, <2>2, <3>1
  <2> QED
    BY <2>1, <2>4, <2>5, <2>6 DEF InStep
<1> QED
  BY <1>3, <1>4, <1>5, EndOrNot

-----------------------------------------------------------------------------
(* The order in which lines reach redis                                      *)

\* Only the workers there are have something in hand.
LEMMA NextHands ==
  ASSUME Types, Publishing, [Next]_vars
  PROVE  \A w \in Workers : hand'[w] # Idle => w <= workers'
<1> DEFINE Goal == \A w \in Workers : hand'[w] # Idle => w <= workers'
<1>1. UNCHANGED workers
  BY NextConfig DEF config
<1>2. CASE OffWork
  BY <1>1, <1>2, OffWorkFrame DEF work, Publishing
<1>3. ASSUME NEW w \in Workers, Parse(w) \/ Take(w) PROVE Goal
  <2>1. w <= workers /\ \A v \in Workers \ {w} : hand'[v] = hand[v]
    BY <1>3 DEF Parse, Take, Free, Types
  <2> QED
    BY <1>1, <2>1 DEF Publishing
<1>4. ASSUME NEW w \in Workers, Post(w) PROVE Goal
  <2>1. hand[w] # Idle /\ \A v \in Workers \ {w} : hand'[v] = hand[v]
    BY <1>4, NewHands DEF Post, Types
  <2> QED
    BY <1>1, <2>1 DEF Publishing
<1>5. ASSUME NEW w \in Workers, Return(w) \/ RunRedis(w) \/ RunLogger(w) \/ RunFalse(w) PROVE Goal
  <2>1. hand'[w] = Idle /\ \A v \in Workers \ {w} : hand'[v] = hand[v]
    BY <1>5 DEF Return, RunRedis, RunLogger, RunFalse, Types
  <2> QED
    BY <1>1, <2>1 DEF Publishing
<1> QED
  BY <1>2, <1>3, <1>4, <1>5 DEF Next, Work, OffWork

\* Only a handler for redis publishes.
LEMMA PublishedStays ==
  [Next]_vars => UNCHANGED published \/ \E w \in Workers : RunRedis(w)
<1> SUFFICES ASSUME [Next]_vars, ~\E w \in Workers : RunRedis(w) PROVE UNCHANGED published
  OBVIOUS
<1> USE DEF redis
<1>1. CASE Send \/ ConnectionChanges \/ Transmit \/ UNCHANGED vars
  BY <1>1 DEF Send, ConnectionChanges, Transmit, vars
<1>2. ASSUME NEW w \in Workers, Work(w) PROVE UNCHANGED published
  BY <1>2 DEF Work, Parse, Post, Return, Take, RunLogger, RunFalse
<1>3. ASSUME NEW r \in Requests, LoggerAnswers(r) \/ \E a \in {"ok", "failed"} : RedisAnswers(r, a)
      PROVE  UNCHANGED published
  BY <1>3 DEF LoggerAnswers, RedisAnswers
<1>4. ASSUME NEW l \in Lines, Conclude(l) PROVE UNCHANGED published
  BY <1>4 DEF Conclude
<1> QED
  BY <1>1, <1>2, <1>3, <1>4 DEF Next

\* What becomes due is of a line not older than what is published, if one worker runs.
LEMMA DueLater ==
  ASSUME Types, Posting, Order, Publishing, [Next]_vars, workers = 1,
         NEW i \in 1..Len(published), NEW q \in Entries, Due(q)'
  PROVE  published[i][1] <= q[1]
<1>1. Due(q) \/ q[1] = parsed
  <2>1. CASE OffWork
    BY <2>1, OffWorkSame
  <2>2. ASSUME NEW w \in Workers, Parse(w) \/ Post(w) \/ Return(w) \/ Take(w)
        PROVE  Due(q) \/ q[1] = parsed
    BY <2>2, Moves DEF Flow
  <2>3. ASSUME NEW w \in Workers, RunRedis(w) \/ RunLogger(w) \/ RunFalse(w) PROVE Due(q)
    BY <2>3, Runnings
  <2> QED
    BY <2>1, <2>2, <2>3 DEF Next, Work, OffWork
<1> QED
  BY <1>1 DEF Publishing

\* The line that a worker publishes for is the last so far, in lock step or with one worker.
LEMMA PublishesLast ==
  ASSUME Types, Order, Once, Concluding, InStep, Publishing, lockStep \/ workers = 1,
         NEW r \in Requests, Due(r), NEW i \in 1..Len(published)
  PROVE  published[i][1] <= r[1]
<1>1. r \in Entries /\ r[1] \in Lines /\ r[2] \in Targets
  BY Bounds DEF Requests
<1>2. CASE workers = 1
  BY <1>1, <1>2 DEF Publishing
<1>3. CASE lockStep
  <2>1. answer[r[1]][r[2]] = "none"
    BY DEF Once, Fresh
  <2>2. r[1] <= parsed /\ r[2] \in 1..n
    BY <1>1, RouteLength, Bounds DEF Order, Posted, Targets
  <2>3. r[1] \notin Outcomes
    BY <2>1, <2>2 DEF Concluding, Concluded
  <2>4. r[1] = parsed
    BY <1>1, <1>3, <2>2, <2>3, LockStep
  <2> QED
    BY <2>4 DEF Publishing
<1> QED
  BY <1>2, <1>3

LEMMA NextPublishing ==
  Types /\ Posting /\ Order /\ Once /\ Concluding /\ InStep /\ Publishing /\ [Next]_vars
    => Publishing'
<1> SUFFICES ASSUME Types, Posting, Order, Once, Concluding, InStep, Publishing, [Next]_vars
             PROVE  Publishing'
  OBVIOUS
<1>1. UNCHANGED <<workers, lockStep>> /\ \A w \in Workers : hand'[w] # Idle => w <= workers'
  BY NextConfig, NextHands DEF config
<1>2. Len(published) \in Nat /\ \A i \in 1..Len(published) : published[i] \in Requests
  BY LenProperties, ElementOfSeq DEF Types
<1>3. \A i \in 1..Len(published) : published[i][1] \in Nat /\ published[i][1] <= parsed'
  BY <1>2, LinesGrow, Bounds DEF Publishing, Requests
<1>4. CASE UNCHANGED published
  BY <1>1, <1>3, <1>4, DueLater DEF Publishing, InOrder
<1>5. ASSUME NEW w \in Workers, RunRedis(w), published' # published PROVE Publishing'
  <2>1. PICK r \in Entries :
          /\ r = Tail(hand[w]) /\ Runs(w, r) /\ Due(r) /\ (r[2] # 0 => r \in Requests)
          /\ \A q \in Entries : Due(q)' <=> Due(q) /\ q # r
    BY <1>5, Runnings
  <2>2. r \in Requests /\ published' = Append(published, r)
    BY <1>5, <2>1 DEF RunRedis, Running, Runs
  <2>3. /\ Len(published') = Len(published) + 1 /\ published'[Len(published) + 1] = r
        /\ \A i \in 1..Len(published) : published'[i] = published[i]
    BY <2>2, AppendProperties DEF Types
  <2>4. \A i \in 1..Len(published') : i \in 1..Len(published) \/ i = Len(published) + 1
    BY <1>2, <2>3
  <2>5. r[1] <= parsed' /\ r[1] \in Nat
    <3>1. r[1] <= parsed /\ r[1] \in Nat
      BY <2>1, Pairs, Bounds DEF Order, Posted
    <3> QED
      BY <3>1, LinesGrow
  <2>6. ASSUME workers = 1, NEW q \in Entries, Due(q)' PROVE r[1] <= q[1]
    <3>1. Due(q) /\ q # r
      BY <2>1, <2>6
    <3>2. ASSUME NEW v \in Workers, Runs(v, q) PROVE FALSE
      <4>1. v = w
        BY <2>1, <2>6, <3>2, NewHands DEF Runs, Publishing, Workers
      <4> QED
        BY <2>1, <3>1, <3>2, <4>1, Pairs DEF Runs
    <3>3. Before(r, q)
      BY <2>1, <3>1, <3>2 DEF Due, Order
    <3> QED
      BY <2>5, <3>3, Pairs, Bounds DEF Before
  <2>7. ASSUME lockStep \/ workers = 1, NEW i \in 1..Len(published) PROVE published[i][1] <= r[1]
    BY <2>1, <2>2, <2>7, PublishesLast
  <2>8. \A i \in 1..Len(published') : published'[i][1] <= parsed'
    BY <1>3, <2>3, <2>4, <2>5
  <2>9. workers' = 1 =>
          \A i \in 1..Len(published'), q \in Entries : Due(q)' => published'[i][1] <= q[1]
    BY <1>1, <2>3, <2>4, <2>6, DueLater
  <2>10. InOrder'
    <3> SUFFICES ASSUME lockStep \/ workers = 1, NEW i \in 1..Len(published'),
                        NEW j \in 1..Len(published'), i < j
                 PROVE  published'[i][1] <= published'[j][1]
      BY <1>1 DEF InOrder
    <3>1. i \in 1..Len(published)
      BY <1>2, <2>3
    <3>2. CASE j \in 1..Len(published)
      BY <2>3, <3>1, <3>2 DEF Publishing, InOrder
    <3>3. CASE j = Len(published) + 1
      BY <2>3, <2>7, <3>1, <3>3
    <3> QED
      BY <2>4, <3>2, <3>3
  <2> QED
    BY <1>1, <2>8, <2>9, <2>10 DEF Publishing
<1> QED
  BY <1>4, <1>5, PublishedStays

-----------------------------------------------------------------------------
DeliveryInv == Types /\ Posting /\ Order /\ Once /\ Concluding /\ InStep /\ Publishing

LEMMA InitDelivery == Init => DeliveryInv
<1> SUFFICES ASSUME Init PROVE DeliveryInv
  OBVIOUS
<1>1. /\ hand = [w \in Workers |-> Idle] /\ queue = <<>> /\ sent = 0 /\ parsed = 0
      /\ asked = {} /\ answers = [r \in Requests |-> <<>>] /\ delayed = {} /\ published = <<>>
      /\ writes = 0 /\ replies = <<>>
      /\ answer = [l \in Lines |-> [t \in Targets |-> "none"]] /\ outcome = [l \in Lines |-> <<>>]
  BY DEF Init, Ledger!Init
<1>2. Len(queue) = 0 /\ Len(published) = 0 /\ Len(replies) = 0
  BY <1>1
<1>3. \A w \in Workers : hand[w] = Idle /\ hand[w][1] = "idle"
  BY <1>1, NewHands
<1>4. \A r \in Entries : ~Due(r)
  BY <1>2, <1>3 DEF Due, Runs
<1>5. Types
  <2>1. buffer \in Said
    BY ZenonT(10) DEF Init, Said
  <2>2. hand \in [Workers -> Hands]
    BY <1>1, NewHands
  <2>3. /\ queue \in Seq(Entries) /\ published \in Seq(Requests) /\ replies \in Seq(Said)
        /\ answers \in [Requests -> Seq({"ok", "failed"})]
        /\ outcome \in [Lines -> Seq({"ok", "failed"})]
    BY <1>1
  <2>4. answer \in [Lines -> [Targets -> {"none", "ok", "failed"}]]
    BY <1>1
  <2>5. sent \in 0..MaxLines /\ parsed \in 0..sent /\ writes \in Nat
        /\ asked \subseteq Requests /\ delayed \subseteq Requests
    BY <1>1, Bounds
  <2>6. workers \in Workers /\ route \in Routes
    BY DEF Init
  <2> QED
    BY <2>1, <2>2, <2>3, <2>4, <2>5, <2>6 DEF Types
<1>6. Posting
  BY <1>3 DEF Posting
<1>7. Order
  BY <1>2, <1>3, <1>4 DEF Order, Runs
<1>8. Once
  BY <1>1 DEF Once, Fresh, Requests
<1>9. Outcomes = {}
  BY <1>1 DEF Outcomes
<1>10. Concluding
  <2>1. \A l \in Lines : ~Due(<<l, 0>>)
    BY <1>4, Bounds DEF Entries
  <2> QED
    BY <1>1, <1>2, <1>9, <2>1, FS_EmptySet DEF Concluding
<1>11. InStep
  BY <1>1, <1>2, <1>9 DEF InStep, Lines
<1>12. Publishing
  BY <1>2, <1>3 DEF Publishing, InOrder
<1> QED
  BY <1>5, <1>6, <1>7, <1>8, <1>10, <1>11, <1>12 DEF DeliveryInv

LEMMA DeliveryInvariant == Spec => []DeliveryInv
<1>1. DeliveryInv /\ [Next]_vars => DeliveryInv'
  BY NextTypes, NextPosting, NextOrder, NextOnce, NextConcluding, NextInStep, NextPublishing
     DEF DeliveryInv
<1> QED
  BY <1>1, InitDelivery, PTL DEF Spec

\* A device is never sent more replies than the lines it sent, and one that waits for each reply
\* can trust it: "1" means that every dispatcher of the route answered true for that line
\* (wialon_plugin.cpp:420-431 over request_router.cpp:112), although one buffer serves all replies.
THEOREM RepliesAreTrue == Spec => []Acknowledged
<1>1. ASSUME DeliveryInv PROVE Acknowledged
  <2>1. Len(replies) + writes <= parsed
    BY <1>1, Trust DEF DeliveryInv
  <2> QED
    BY <1>1, <2>1 DEF DeliveryInv, InStep, Good, Acknowledged
<1> QED
  BY <1>1, DeliveryInvariant, PTL

\* The lines of one device are published to redis in the order they were sent, if the device waits
\* for its replies or one worker runs the io_service (request_router.cpp:113 posts them in order).
THEOREM LinesInOrder == Spec => []InOrder
<1>1. DeliveryInv => InOrder
  BY DEF DeliveryInv, Publishing
<1> QED
  BY <1>1, DeliveryInvariant, PTL

==============================================================================
