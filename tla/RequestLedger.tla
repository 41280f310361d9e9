---------------------------- MODULE RequestLedger ----------------------------
(***************************************************************************)
(* What redis_connection promises to the caller of publish() or ping(): a  *)
(* request that was handed over is answered through its callback, and the  *)
(* callback is called once, with true ("ok") or with false ("failed").     *)
(* How requests are buffered, pipelined, written and retried is invisible. *)
(***************************************************************************)
EXTENDS Sequences

CONSTANT Requests          \* calls of publish() and ping(), one value per call

VARIABLES asked,           \* the requests that were handed over
          answers          \* answers[r]: every call of r's callback, in order

vars == <<asked, answers>>

Answers == {"ok", "failed"}

Init == /\ asked = {}
        /\ answers = [r \in Requests |-> <<>>]

\* The request is taken over; its callback will be called later.
Accept(r) ==
  /\ r \notin asked
  /\ asked' = asked \cup {r}
  /\ UNCHANGED answers

\* The request is turned down at once: the callback runs inside the call.
Refuse(r) ==
  /\ r \notin asked
  /\ asked' = asked \cup {r}
  /\ answers' = [answers EXCEPT ![r] = <<"failed">>]

\* The callback of an accepted request runs, for the first and last time.
Answer(r, a) ==
  /\ r \in asked
  /\ answers[r] = <<>>
  /\ answers' = [answers EXCEPT ![r] = <<a>>]
  /\ UNCHANGED asked

Next == \E r \in Requests : \/ Accept(r)
                            \/ Refuse(r)
                            \/ \E a \in Answers : Answer(r, a)

Spec == Init /\ [][Next]_vars

\* No accepted request waits for ever.
FairSpec == Spec /\ \A r \in Requests : WF_vars(\E a \in Answers : Answer(r, a))
==============================================================================
