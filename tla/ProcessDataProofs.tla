--------------------------- MODULE ProcessDataProofs ---------------------------
(***************************************************************************)
(* Theorems about ProcessData, for any number of dispatchers: the combiner *)
(* outlives what needs it, a false answer is kept, and process_data        *)
(* implements AllTargets.                                                  *)
(***************************************************************************)
EXTENDS ProcessData, SequenceTheorems, TLAPS

-----------------------------------------------------------------------------
(* The inductive invariant                                                   *)

\* How far process_data is, and what each dispatcher may have done by then.
Stage ==
  /\ caller = "queued" => n = 0
  /\ caller = "returned" => n = 0 \/ posted = n
  /\ \A i \in Targets :
       /\ i > posted <=> frame[i] = "none"
       /\ frame[i] \in {"none", "posted"} => kept[i] = "none" /\ answer[i] = "none"
       /\ frame[i] = "returned" => kept[i] # "none" \/ answer[i] # "none"
       /\ kept[i] = "kept" => answer[i] = "none"
       /\ kept[i] \in {"called", "gone"} => answer[i] # "none"

\* The callback was called exactly if there is nothing more to wait for.
Outcome ==
  /\ n = 0 => outcome = IF caller = "returned" THEN <<"failed">> ELSE <<>>
  /\ n = 1 => outcome = IF answer[1] \in {"none", "lost"} THEN <<>> ELSE <<answer[1]>>
  /\ n > 1 => outcome = IF Held THEN <<>> ELSE <<result>>

IInv == TypeOK /\ Stage /\ FalseWins /\ Outcome

-----------------------------------------------------------------------------
LEMMA InitInv == Init => IInv
<1> SUFFICES ASSUME Init PROVE IInv
  OBVIOUS
<1> USE ProcessDataAssumption DEF Init, Targets
<1>1. TypeOK
  BY DEF TypeOK
<1>2. Stage /\ FalseWins
  BY DEF Stage, FalseWins
<1>3. Outcome
  BY DEF Outcome, Held
<1> QED
  BY <1>1, <1>2, <1>3 DEF IInv

\* A dispatcher that the loop has reached, and its number.
LEMMA Reached ==
  ASSUME IInv, NEW i \in Targets, frame[i] # "none"
  PROVE  i \in 1..n /\ n > 0 /\ (n = 1 => i = 1)
  BY ProcessDataAssumption DEF IInv, TypeOK, Stage, Targets

LEMMA NextType == IInv /\ [Next]_vars => TypeOK'
<1> SUFFICES ASSUME IInv, [Next]_vars PROVE TypeOK'
  OBVIOUS
<1> USE ProcessDataAssumption DEF Targets
<1>0. TypeOK
  BY DEF IInv
<1>a. ASSUME Destruct PROVE outcome' \in Seq({"ok", "failed"})
  <2>1. outcome' = Append(outcome, result) \/ outcome' = outcome
    BY <1>a DEF Destruct
  <2> QED
    BY <1>0, <2>1, AppendProperties DEF TypeOK
<1>b. ASSUME NEW i \in Targets, NEW a \in {"ok", "failed"}, Call(i, a)
      PROVE  /\ outcome' \in Seq({"ok", "failed"}) /\ result' \in {"ok", "failed"}
             /\ answer' \in [Targets -> {"none", "ok", "failed", "lost"}]
  <2>1. outcome' = Append(outcome, a) \/ outcome' = outcome
    BY <1>b DEF Call
  <2>2. outcome' \in Seq({"ok", "failed"})
    BY <1>0, <2>1, AppendProperties DEF TypeOK
  <2>3. answer' \in [Targets -> {"none", "ok", "failed", "lost"}]
    BY <1>0, <1>b DEF Call, TypeOK
  <2>4. result' \in {"ok", "failed"}
    BY <1>0, <1>b DEF Call, TypeOK
  <2> QED
    BY <2>2, <2>3, <2>4
<1>1. CASE Return
  BY <1>0, <1>1, <1>a DEF Return, TypeOK
<1>2. CASE PostFalse
  BY <1>0, <1>2 DEF PostFalse, TypeOK
<1>3. CASE RunFalse
  BY <1>0, <1>3, AppendProperties DEF RunFalse, TypeOK
<1>4. ASSUME NEW i \in Targets, Post(i) PROVE TypeOK'
  BY <1>0, <1>4 DEF Post, TypeOK
<1>5. ASSUME NEW i \in Targets, Run(i) PROVE TypeOK'
  BY <1>0, <1>5 DEF Run, TypeOK
<1>6. ASSUME NEW i \in Targets, Keep(i) PROVE TypeOK'
  BY <1>0, <1>6 DEF Keep, TypeOK
<1>7. ASSUME NEW i \in Targets, ReturnFrame(i) PROVE TypeOK'
  BY <1>0, <1>7, <1>a DEF ReturnFrame, TypeOK
<1>8. ASSUME NEW i \in Targets, Release(i) PROVE TypeOK'
  BY <1>0, <1>8, <1>a DEF Release, TypeOK
<1>9. ASSUME NEW i \in Targets, Discard(i) PROVE TypeOK'
  BY <1>0, <1>9, <1>a DEF Discard, TypeOK
<1>10. ASSUME NEW i \in Targets, NEW a \in {"ok", "failed"}, AnswerNow(i, a) PROVE TypeOK'
  BY <1>0, <1>10, <1>b DEF AnswerNow, TypeOK
<1>11. ASSUME NEW i \in Targets, NEW a \in {"ok", "failed"}, AnswerLater(i, a) PROVE TypeOK'
  BY <1>0, <1>11, <1>b DEF AnswerLater, TypeOK
<1>12. CASE UNCHANGED vars
  BY <1>0, <1>12 DEF vars, TypeOK
<1> QED
  BY <1>1, <1>2, <1>3, <1>4, <1>5, <1>6, <1>7, <1>8, <1>9, <1>10, <1>11, <1>12
  DEF Next, Step, Done

LEMMA NextStage == IInv /\ [Next]_vars => Stage' /\ FalseWins'
<1> SUFFICES ASSUME IInv, [Next]_vars PROVE Stage' /\ FalseWins'
  OBVIOUS
<1> USE ProcessDataAssumption DEF Targets
<1>0. TypeOK /\ Stage /\ FalseWins
  BY DEF IInv
<1>a. ASSUME NEW i \in Targets, NEW a \in {"ok", "failed"}, Call(i, a), UNCHANGED n
      PROVE  /\ answer' = [answer EXCEPT ![i] = a]
             /\ answer[i] = "none" => FalseWins'
  <2>1. answer' = [answer EXCEPT ![i] = a]
    BY <1>a DEF Call
  <2>2. ASSUME answer[i] = "none", n > 1 PROVE FalseWins'
    <3>1. result' = IF result = "ok" THEN a ELSE result
      BY <1>a, <2>2 DEF Call
    <3>2. CASE result = "ok"
      BY <1>0, <1>a, <2>1, <2>2, <3>1, <3>2 DEF TypeOK, FalseWins
    <3>3. CASE result = "failed"
      <4>1. PICK j \in Targets : answer[j] = "failed"
        BY <1>0, <2>2, <3>3 DEF FalseWins
      <4>2. answer'[j] = "failed"
        BY <1>0, <2>1, <2>2, <4>1 DEF TypeOK
      <4> QED
        BY <3>1, <3>3, <4>2 DEF FalseWins
    <3> QED
      BY <1>0, <3>2, <3>3 DEF TypeOK
  <2>3. ASSUME ~(n > 1) PROVE FalseWins'
    BY <1>a, <2>3 DEF FalseWins
  <2> QED
    BY <2>1, <2>2, <2>3
<1>1. CASE Return
  BY <1>0, <1>1 DEF Return, TypeOK, Stage, FalseWins
<1>2. CASE PostFalse
  BY <1>0, <1>2 DEF PostFalse, TypeOK, Stage, FalseWins
<1>3. CASE RunFalse
  BY <1>0, <1>3 DEF RunFalse, TypeOK, Stage, FalseWins
<1>4. ASSUME NEW i \in Targets, Post(i) PROVE Stage' /\ FalseWins'
  BY <1>0, <1>4 DEF Post, TypeOK, Stage, FalseWins
<1>5. ASSUME NEW i \in Targets, Run(i) PROVE Stage' /\ FalseWins'
  BY <1>0, <1>5 DEF Run, TypeOK, Stage, FalseWins
<1>6. ASSUME NEW i \in Targets, Keep(i) PROVE Stage' /\ FalseWins'
  BY <1>0, <1>6 DEF Keep, TypeOK, Stage, FalseWins
<1>7. ASSUME NEW i \in Targets, ReturnFrame(i) PROVE Stage' /\ FalseWins'
  BY <1>0, <1>7 DEF ReturnFrame, TypeOK, Stage, FalseWins
<1>8. ASSUME NEW i \in Targets, Release(i) PROVE Stage' /\ FalseWins'
  BY <1>0, <1>8 DEF Release, TypeOK, Stage, FalseWins
<1>9. ASSUME NEW i \in Targets, Discard(i) PROVE Stage' /\ FalseWins'
  <2>1. Stage'
    BY <1>0, <1>9 DEF Discard, TypeOK, Stage
  <2>2. \A j \in Targets : answer'[j] = "failed" <=> answer[j] = "failed"
    BY <1>0, <1>9 DEF Discard, TypeOK, Stage
  <2>3. FalseWins'
    BY <1>0, <1>9, <2>2 DEF Discard, FalseWins
  <2> QED
    BY <2>1, <2>3
<1>10. ASSUME NEW i \in Targets, NEW a \in {"ok", "failed"}, AnswerNow(i, a)
       PROVE  Stage' /\ FalseWins'
  <2>1. answer' = [answer EXCEPT ![i] = a] /\ FalseWins'
    BY <1>10, <1>a DEF AnswerNow
  <2>2. Stage'
    BY <1>0, <1>10, <2>1 DEF AnswerNow, TypeOK, Stage
  <2> QED
    BY <2>1, <2>2
<1>11. ASSUME NEW i \in Targets, NEW a \in {"ok", "failed"}, AnswerLater(i, a)
       PROVE  Stage' /\ FalseWins'
  <2>1. answer' = [answer EXCEPT ![i] = a] /\ FalseWins'
    BY <1>0, <1>11, <1>a DEF AnswerLater, Stage
  <2>2. Stage'
    BY <1>0, <1>11, <2>1 DEF AnswerLater, TypeOK, Stage
  <2> QED
    BY <2>1, <2>2
<1>12. CASE UNCHANGED vars
  BY <1>0, <1>12 DEF vars, Stage, FalseWins
<1> QED
  BY <1>1, <1>2, <1>3, <1>4, <1>5, <1>6, <1>7, <1>8, <1>9, <1>10, <1>11, <1>12
  DEF Next, Step, Done

\* The step that drops the last reference calls the callback, and no other.
LEMMA DestructOutcome ==
  ASSUME IInv, Destruct, UNCHANGED <<n, result>>, n > 1 => Held,
         n = 0 => UNCHANGED caller,
         n = 1 => answer'[1] = answer[1] \/ {answer[1], answer'[1]} \subseteq {"none", "lost"}
  PROVE  Outcome'
<1> USE DEF IInv, Outcome, Destruct
<1>1. CASE n > 1 /\ ~Held'
  <2>1. outcome = <<>> /\ outcome' = Append(outcome, result)
    BY <1>1
  <2>2. outcome' = <<result>>
    BY <2>1
  <2> QED
    BY <1>1, <2>2
<1>2. CASE n > 1 /\ Held'
  BY <1>2
<1>3. CASE n = 1
  BY <1>3
<1>4. CASE n = 0
  BY <1>4
<1> QED
  BY <1>1, <1>2, <1>3, <1>4, ProcessDataAssumption DEF TypeOK

LEMMA CallOutcome ==
  ASSUME IInv, NEW i \in Targets, NEW a \in {"ok", "failed"}, Call(i, a),
         answer[i] = "none", frame[i] # "none", UNCHANGED <<n, caller>>,
         Held, Held'
  PROVE  Outcome'
<1>1. i \in 1..n /\ n > 0 /\ (n = 1 => i = 1)
  BY Reached
<1>2. TypeOK /\ Outcome
  BY DEF IInv
<1>3. CASE n > 1
  BY <1>2, <1>3 DEF Outcome, Call
<1>4. CASE n = 1
  <2>1. outcome = <<>> /\ outcome' = Append(outcome, a)
    BY <1>1, <1>2, <1>4 DEF Outcome, Call
  <2>2. outcome' = <<a>>
    BY <2>1
  <2>3. answer'[1] = a
    BY <1>1, <1>2, <1>4 DEF Call, TypeOK
  <2> QED
    BY <1>4, <2>2, <2>3 DEF Outcome
<1> QED
  BY <1>1, <1>2, <1>3, <1>4, ProcessDataAssumption DEF TypeOK

LEMMA NextOutcome == IInv /\ [Next]_vars => Outcome'
<1> SUFFICES ASSUME IInv, [Next]_vars PROVE Outcome'
  OBVIOUS
<1> USE ProcessDataAssumption DEF Targets
<1>0. TypeOK /\ Stage /\ Outcome
  BY DEF IInv
<1>1. CASE Return
  BY <1>0, <1>1, DestructOutcome DEF Return, Held
<1>2. CASE PostFalse
  BY <1>0, <1>2 DEF PostFalse, Outcome
<1>3. CASE RunFalse
  <2>1. n = 0 /\ outcome = <<>> /\ outcome' = Append(outcome, "failed") /\ caller' = "returned"
    BY <1>0, <1>3 DEF RunFalse, Stage, Outcome
  <2>2. outcome' = <<"failed">> /\ n' = 0
    BY <1>3, <2>1 DEF RunFalse
  <2> QED
    BY <2>1, <2>2 DEF Outcome
<1>4. ASSUME NEW i \in Targets, Post(i) PROVE Outcome'
  <2>1. Held /\ Held'
    BY <1>4 DEF Post, Held
  <2> QED
    BY <1>0, <1>4, <2>1 DEF Post, Outcome
<1>5. ASSUME NEW i \in Targets, Run(i) PROVE Outcome'
  <2>1. Held /\ Held'
    BY <1>0, <1>5 DEF Run, Held, TypeOK
  <2> QED
    BY <1>0, <1>5, <2>1 DEF Run, Outcome
<1>6. ASSUME NEW i \in Targets, Keep(i) PROVE Outcome'
  <2>1. Held /\ Held'
    BY <1>0, <1>6 DEF Keep, Held, TypeOK
  <2> QED
    BY <1>0, <1>6, <2>1 DEF Keep, Outcome
<1>7. ASSUME NEW i \in Targets, ReturnFrame(i) PROVE Outcome'
  BY <1>0, <1>7, DestructOutcome DEF ReturnFrame, Held
<1>8. ASSUME NEW i \in Targets, Release(i) PROVE Outcome'
  BY <1>0, <1>8, DestructOutcome DEF Release, Held
<1>9. ASSUME NEW i \in Targets, Discard(i) PROVE Outcome'
  <2>1. answer[i] = "none" /\ answer' = [answer EXCEPT ![i] = "lost"]
    BY <1>0, <1>9 DEF Discard, Stage
  <2>2. n = 1 => answer'[1] = answer[1] \/ {answer[1], answer'[1]} \subseteq {"none", "lost"}
    BY <1>0, <2>1 DEF TypeOK
  <2> QED
    BY <1>0, <1>9, <2>2, DestructOutcome DEF Discard, Held
<1>10. ASSUME NEW i \in Targets, NEW a \in {"ok", "failed"}, AnswerNow(i, a) PROVE Outcome'
  <2>1. Held /\ Held'
    BY <1>10 DEF AnswerNow, Held
  <2> QED
    BY <1>10, <2>1, CallOutcome DEF AnswerNow
<1>11. ASSUME NEW i \in Targets, NEW a \in {"ok", "failed"}, AnswerLater(i, a) PROVE Outcome'
  <2>1. Held /\ Held'
    BY <1>0, <1>11 DEF AnswerLater, Held, TypeOK
  <2>2. answer[i] = "none" /\ frame[i] # "none"
    BY <1>0, <1>11 DEF AnswerLater, Stage
  <2> QED
    BY <1>11, <2>1, <2>2, CallOutcome DEF AnswerLater
<1>12. CASE UNCHANGED vars
  <2>1. Held' <=> Held
    BY <1>12 DEF vars, Held
  <2> QED
    BY <1>0, <1>12, <2>1 DEF vars, Outcome
<1> QED
  BY <1>1, <1>2, <1>3, <1>4, <1>5, <1>6, <1>7, <1>8, <1>9, <1>10, <1>11, <1>12
  DEF Next, Step, Done

LEMMA NextInv == IInv /\ [Next]_vars => IInv'
  BY NextType, NextStage, NextOutcome DEF IInv

LEMMA Invariance == Spec => []IInv
<1>1. Init => IInv
  BY InitInv
<1>2. IInv /\ [Next]_vars => IInv'
  BY NextInv
<1> QED
  BY <1>1, <1>2, PTL DEF Spec

-----------------------------------------------------------------------------
(* The properties                                                            *)

(* Every variable keeps its type, for any number of dispatchers.             *)
THEOREM TypeCorrect == Spec => []TypeOK
<1>1. IInv => TypeOK
  BY DEF IInv
<1> QED
  BY <1>1, Invariance, PTL

(* No answer false is overwritten by combiner::combine, in whatever order    *)
(* the workers run it.                                                       *)
THEOREM FalseIsKept == Spec => []FalseWins
<1>1. IInv => FalseWins
  BY DEF IInv
<1> QED
  BY <1>1, Invariance, PTL

\* Without a reference left, process_data has returned and all have answered.
LEMMA AllAnswered ==
  IInv /\ n > 1 /\ ~Held =>
    posted = n /\ caller = "returned" /\ \A i \in 1..n : answer[i] # "none"
<1> SUFFICES ASSUME IInv, n > 1, ~Held
             PROVE  posted = n /\ caller = "returned" /\ \A i \in 1..n : answer[i] # "none"
  OBVIOUS
<1> USE ProcessDataAssumption DEF Targets
<1>1. caller = "returned" /\ posted = n
  BY DEF IInv, TypeOK, Stage, Held
<1>2. ASSUME NEW i \in 1..n PROVE answer[i] # "none"
  <2>1. i \in Targets /\ i <= posted
    BY <1>1 DEF IInv, TypeOK
  <2>2. frame[i] = "returned" /\ kept[i] \in {"none", "gone"}
    BY <2>1 DEF IInv, TypeOK, Stage, Held
  <2> QED
    BY <2>1, <2>2 DEF IInv, Stage
<1> QED
  BY <1>1, <1>2

(* The combiner of process_data is destroyed only after process_data has     *)
(* returned and every dispatcher has answered or dropped its callback.       *)
THEOREM CombinerOutlives == Spec => []AliveWhileNeeded
<1>1. ASSUME IInv PROVE AliveWhileNeeded
  <2>1. ASSUME n > 1, outcome # <<>> PROVE ~Held
    BY <1>1, <2>1 DEF IInv, Outcome
  <2> QED
    BY <1>1, <2>1, AllAnswered DEF AliveWhileNeeded
<1> QED
  BY <1>1, Invariance, PTL

-----------------------------------------------------------------------------
(* The promise                                                               *)

LEMMA InitPromise == Init => Promise!Init
  BY DEF Init, Promise!Init, Targets, Promise!Targets

\* What the destructor calls the callback with is the verdict on the answers.
LEMMA ResultIsVerdict ==
  IInv /\ n > 1 => result = Promise!Verdict(answer)
<1> SUFFICES ASSUME IInv, n > 1 PROVE result = Promise!Verdict(answer)
  OBVIOUS
<1> USE ProcessDataAssumption DEF Targets
<1>1. \A i \in Targets : answer[i] = "failed" => i \in 1..n
  BY DEF IInv, TypeOK, Stage
<1>2. 1..n \subseteq Targets
  BY DEF IInv, TypeOK
<1> QED
  BY <1>1, <1>2 DEF IInv, TypeOK, FalseWins, Promise!Verdict

\* A step that may drop the last reference finishes, or leaves the outcome.
LEMMA DestructFinishes ==
  ASSUME IInv, IInv', Destruct, UNCHANGED n, n > 1 => Held
  PROVE  Promise!Finish \/ UNCHANGED outcome
<1>1. CASE n > 1 /\ ~Held'
  <2>1. outcome = <<>>
    BY <1>1 DEF IInv, Outcome
  <2>2. \A i \in 1..n : answer'[i] # "none"
    <3>1. (IInv /\ n > 1 /\ ~Held =>
             posted = n /\ caller = "returned" /\ \A i \in 1..n : answer[i] # "none")'
      BY AllAnswered, PTL
    <3> QED
      BY <1>1, <3>1
  <2>3. outcome' = <<result'>>
    BY <1>1 DEF IInv, Outcome
  <2>4. (IInv /\ n > 1 => result = Promise!Verdict(answer))'
    BY ResultIsVerdict, PTL
  <2>5. result' = Promise!Verdict(answer')
    BY <1>1, <2>4 DEF Promise!Verdict
  <2> QED
    BY <2>1, <2>2, <2>3, <2>5 DEF Promise!Finish
<1>2. CASE ~(n > 1 /\ ~Held')
  BY <1>2 DEF Destruct
<1> QED
  BY <1>1, <1>2

\* A call is an answer, and with one dispatcher the end.
LEMMA CallAnswers ==
  ASSUME IInv, NEW i \in Targets, NEW a \in {"ok", "failed"}, Call(i, a), UNCHANGED n,
         answer[i] = "none", frame[i] # "none"
  PROVE  Promise!Next
<1> USE ProcessDataAssumption DEF Targets, Promise!Targets
<1>1. i \in 1..n /\ n > 0 /\ (n = 1 => i = 1)
  BY Reached
<1>2. Promise!Answer(i, a)
  BY <1>1 DEF Call, Promise!Answer, IInv, TypeOK
<1>3. CASE n > 1
  BY <1>2, <1>3 DEF Call, Promise!Next
<1>4. CASE n = 1
  <2>1. outcome = <<>> /\ outcome' = Append(outcome, a)
    BY <1>1, <1>4 DEF Call, IInv, Outcome
  <2>2. outcome' = <<a>>
    BY <2>1
  <2>3. answer'[1] = a
    BY <1>1, <1>4 DEF Call, IInv, TypeOK
  <2>4. Promise!Verdict(answer') = a
    BY <1>4, <2>3 DEF Promise!Verdict
  <2>5. Promise!Finish
    BY <1>4, <2>1, <2>2, <2>3, <2>4 DEF Promise!Finish
  <2> QED
    BY <1>2, <2>5 DEF Promise!Next
<1> QED
  BY <1>1, <1>3, <1>4 DEF IInv, TypeOK

LEMMA NextPromise ==
  IInv /\ IInv' /\ [Next]_vars => [Promise!Next]_(Promise!vars)
<1> SUFFICES ASSUME IInv, IInv', [Next]_vars
             PROVE  Promise!Next \/ UNCHANGED <<n, answer, outcome>>
  BY DEF Promise!vars
<1> USE ProcessDataAssumption DEF Targets, Promise!Targets
<1>0. TypeOK /\ Stage /\ Outcome
  BY DEF IInv
<1>1. CASE Return
  BY <1>1, DestructFinishes DEF Return, Held, Promise!Next
<1>2. CASE PostFalse
  BY <1>2 DEF PostFalse
<1>3. CASE RunFalse
  <2>1. n = 0 /\ outcome = <<>> /\ n' = n /\ answer' = answer
    BY <1>0, <1>3 DEF RunFalse, Stage, Outcome
  <2>2. outcome' = <<"failed">>
    BY <1>3, <2>1 DEF RunFalse
  <2> QED
    BY <2>1, <2>2 DEF Promise!Next, Promise!Finish, Promise!Verdict
<1>4. ASSUME NEW i \in Targets, Post(i) \/ Run(i) \/ Keep(i)
      PROVE  UNCHANGED <<n, answer, outcome>>
  BY <1>4 DEF Post, Run, Keep
<1>5. ASSUME NEW i \in Targets, ReturnFrame(i)
      PROVE  Promise!Next \/ UNCHANGED <<n, answer, outcome>>
  BY <1>5, DestructFinishes DEF ReturnFrame, Held, Promise!Next
<1>6. ASSUME NEW i \in Targets, Release(i)
      PROVE  Promise!Next \/ UNCHANGED <<n, answer, outcome>>
  BY <1>6, DestructFinishes DEF Release, Held, Promise!Next
<1>7. ASSUME NEW i \in Targets, Discard(i) PROVE Promise!Next
  <2>1. answer[i] = "none" /\ frame[i] # "none"
    BY <1>0, <1>7 DEF Discard, Stage
  <2>2. Promise!Answer(i, "lost")
    BY <1>0, <1>7, <2>1, Reached DEF Discard, Promise!Answer, TypeOK
  <2>3. Promise!Finish \/ UNCHANGED outcome
    BY <1>7, DestructFinishes DEF Discard, Held
  <2> QED
    BY <1>7, <2>2, <2>3 DEF Discard, Promise!Next
<1>8. ASSUME NEW i \in Targets, NEW a \in {"ok", "failed"}, AnswerNow(i, a)
      PROVE  Promise!Next
  BY <1>8, CallAnswers DEF AnswerNow
<1>9. ASSUME NEW i \in Targets, NEW a \in {"ok", "failed"}, AnswerLater(i, a)
      PROVE  Promise!Next
  BY <1>0, <1>9, CallAnswers DEF AnswerLater, Stage
<1>10. CASE UNCHANGED vars
  BY <1>10 DEF vars
<1> QED
  BY <1>1, <1>2, <1>3, <1>4, <1>5, <1>6, <1>7, <1>8, <1>9, <1>10 DEF Next, Step, Done

(* request_router::process_data keeps its promise to the translator: the     *)
(* callback is called at most once, after every dispatcher answered or       *)
(* dropped its callback, and with true only if none of them answered false.  *)
THEOREM ImplementsPromise == Spec => PromiseSpec
<1>1. Init => Promise!Init
  BY InitPromise
<1>2. IInv /\ IInv' /\ [Next]_vars => [Promise!Next]_(Promise!vars)
  BY NextPromise
<1> QED
  BY <1>1, <1>2, Invariance, PTL DEF Spec, PromiseSpec, Promise!Spec
================================================================================
