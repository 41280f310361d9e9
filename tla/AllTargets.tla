------------------------------ MODULE AllTargets ------------------------------
(***************************************************************************)
(* What request_router::process_data promises to the translator that calls *)
(* it: the callback is called once, after every dispatcher is done with    *)
(* the data, and with true ("ok") only if no dispatcher answered false.    *)
(***************************************************************************)
EXTENDS Integers, Sequences

CONSTANT MaxTargets

VARIABLES n,               \* the number of dispatchers the data is routed to
          answer,          \* answer[i]: what dispatcher i answered, if anything
          outcome          \* every call of the callback, in order

vars == <<n, answer, outcome>>

Targets == 1..MaxTargets

\* With no dispatcher at all the data is not processed.
Verdict(ans) ==
  IF n = 0 \/ \E i \in 1..n : ans[i] = "failed" THEN "failed" ELSE "ok"

Init == /\ n \in 0..MaxTargets
        /\ answer = [i \in Targets |-> "none"]
        /\ outcome = <<>>

\* "lost": the dispatcher dropped the callback without calling it.
Answer(i, a) ==
  /\ i <= n /\ answer[i] = "none"
  /\ answer' = [answer EXCEPT ![i] = a]

Finish ==
  /\ outcome = <<>>
  /\ \A i \in 1..n : answer'[i] # "none"
  /\ outcome' = <<Verdict(answer')>>

Next ==
  /\ UNCHANGED n
  /\ \/ \E i \in Targets, a \in {"ok", "failed", "lost"} :
          Answer(i, a) /\ (Finish \/ UNCHANGED outcome)
     \/ UNCHANGED answer /\ Finish

Spec == Init /\ [][Next]_vars
==============================================================================
