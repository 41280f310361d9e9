----------------------------- MODULE ProcessData -----------------------------
(***************************************************************************)
(* One call of request_router::process_data: the data goes to n dispatchers*)
(* through the io_service, and combiner joins their answers.               *)
(*                                                                         *)
(* The combiner counts no answers.  It is destroyed, and its destructor    *)
(* calls the callback, when the last reference to it is dropped: those of  *)
(* process_data itself while it posts, of each posted handler until its    *)
(* call of handle_process_data returns, and of each copy of the callback   *)
(* that a dispatcher keeps to answer later.  Every step may be that of a   *)
(* different worker thread.                                                *)
(***************************************************************************)
EXTENDS Integers, Sequences

CONSTANTS
  MaxTargets,     \* bound on the dispatchers of a route
  MayDiscard      \* dispatchers may be destroyed with callbacks they still keep

ASSUME ProcessDataAssumption == MaxTargets \in Nat /\ MayDiscard \in BOOLEAN

Targets == 1..MaxTargets

VARIABLES
  n,              \* dispatch_targets->size(); a dispatcher may be listed twice
  caller,         \* process_data: "posting", "queued" (n = 0) or "returned"
  posted,         \* how many handlers it has posted
  frame,          \* frame[i]: the handler that runs handle_process_data
  kept,           \* kept[i]: the copy of the callback that dispatcher i keeps
  result,         \* combiner::result_
  answer,         \* history: what dispatcher i called its callback with
  outcome         \* history: the calls of the translator's callback

vars == <<n, caller, posted, frame, kept, result, answer, outcome>>

Init ==
  /\ n \in 0..MaxTargets
  /\ caller = "posting"
  /\ posted = 0
  /\ frame = [i \in Targets |-> "none"]
  /\ kept = [i \in Targets |-> "none"]
  /\ result = "ok"
  /\ answer = [i \in Targets |-> "none"]
  /\ outcome = <<>>

-----------------------------------------------------------------------------
\* Mutant of Held: process_data passes its own reference on to the handlers.
HeldByHandlers ==
  \E i \in Targets : frame[i] \in {"posted", "running"} \/ kept[i] \in {"kept", "called"}

\* Mutant of Held: the callback is bound to the combiner's address.
HeldNotByCallbacks ==
  caller = "posting" \/ \E i \in Targets : frame[i] \in {"posted", "running"}

\* A reference to the combiner exists.
Held ==
  \/ caller = "posting"
  \/ \E i \in Targets : frame[i] \in {"posted", "running"} \/ kept[i] \in {"kept", "called"}

\* ~combiner: runs in the step that drops the last reference.
Destruct == IF n > 1 /\ ~Held' THEN outcome' = Append(outcome, result)
                               ELSE UNCHANGED outcome

\* Mutant of Call: combine() stores the answer.
CallStores(i, a) ==
  /\ answer' = [answer EXCEPT ![i] = a]
  /\ IF n > 1
       THEN result' = a /\ UNCHANGED outcome
       ELSE outcome' = Append(outcome, a) /\ UNCHANGED result

\* Dispatcher i calls its callback: combine(), or with one dispatcher the
\* translator's callback itself.
Call(i, a) ==
  /\ answer' = [answer EXCEPT ![i] = a]
  /\ IF n > 1
       THEN result' = (IF result = "ok" THEN a ELSE result) /\ UNCHANGED outcome
       ELSE outcome' = Append(outcome, a) /\ UNCHANGED result

-----------------------------------------------------------------------------
Post(i) ==
  /\ caller = "posting" /\ posted < n /\ i = posted + 1
  /\ posted' = i
  /\ frame' = [frame EXCEPT ![i] = "posted"]
  /\ UNCHANGED <<n, caller, kept, result, answer, outcome>>

\* process_data returns and drops comb and comb_cb.
Return ==
  /\ caller = "posting" /\ posted = n /\ n > 0
  /\ caller' = "returned"
  /\ UNCHANGED <<n, posted, frame, kept, result, answer>>
  /\ Destruct

\* No dispatcher, or no route at all: the callback itself is posted ...
PostFalse ==
  /\ caller = "posting" /\ n = 0
  /\ caller' = "queued"
  /\ UNCHANGED <<n, posted, frame, kept, result, answer, outcome>>

\* ... and run with false.
RunFalse ==
  /\ caller = "queued"
  /\ caller' = "returned"
  /\ outcome' = Append(outcome, "failed")
  /\ UNCHANGED <<n, posted, frame, kept, result, answer>>

Run(i) ==
  /\ frame[i] = "posted"
  /\ frame' = [frame EXCEPT ![i] = "running"]
  /\ UNCHANGED <<n, caller, posted, kept, result, answer, outcome>>

\* The dispatcher answers before it returns: redis while it is not connected, the
\* logger without a delay.
AnswerNow(i, a) ==
  /\ frame[i] = "running" /\ kept[i] = "none" /\ answer[i] = "none"
  /\ Call(i, a)
  /\ UNCHANGED <<n, caller, posted, frame, kept>>

\* The dispatcher keeps a copy: redis in its queue, the logger in its timer.
Keep(i) ==
  /\ frame[i] = "running" /\ kept[i] = "none" /\ answer[i] = "none"
  /\ kept' = [kept EXCEPT ![i] = "kept"]
  /\ UNCHANGED <<n, caller, posted, frame, result, answer, outcome>>

\* handle_process_data returns, and the posted handler is destroyed.
ReturnFrame(i) ==
  /\ frame[i] = "running" /\ (kept[i] # "none" \/ answer[i] # "none")
  /\ frame' = [frame EXCEPT ![i] = "returned"]
  /\ UNCHANGED <<n, caller, posted, kept, result, answer>>
  /\ Destruct

\* A kept callback is called, from any thread and at any time after it was kept.
AnswerLater(i, a) ==
  /\ kept[i] = "kept"
  /\ Call(i, a)
  /\ kept' = [kept EXCEPT ![i] = "called"]
  /\ UNCHANGED <<n, caller, posted, frame>>

\* Mutant of Release: the dispatcher forgets the copy and never destroys it.
ReleaseLeaks(i) ==
  /\ kept[i] = "called"
  /\ kept' = [kept EXCEPT ![i] = "gone"]
  /\ UNCHANGED <<n, caller, posted, frame, result, answer, outcome>>

\* The copy is destroyed: pop() of the queue, the end of the timer's handler.
Release(i) ==
  /\ kept[i] = "called"
  /\ kept' = [kept EXCEPT ![i] = "gone"]
  /\ UNCHANGED <<n, caller, posted, frame, result, answer>>
  /\ Destruct

\* The queue or the timer is destroyed with the copy it holds.
Discard(i) ==
  /\ MayDiscard
  /\ kept[i] = "kept"
  /\ kept' = [kept EXCEPT ![i] = "gone"]
  /\ answer' = [answer EXCEPT ![i] = "lost"]
  /\ UNCHANGED <<n, caller, posted, frame, result>>
  /\ Destruct

Done ==
  /\ caller = "returned" /\ ~Held
  /\ UNCHANGED vars

Step(i) ==
  \/ Run(i) \/ Keep(i) \/ ReturnFrame(i) \/ Release(i) \/ Discard(i)
  \/ \E a \in {"ok", "failed"} : AnswerNow(i, a) \/ AnswerLater(i, a)

Next ==
  \/ Return \/ PostFalse \/ RunFalse
  \/ \E i \in Targets : Post(i) \/ Step(i)
  \/ Done

Spec == Init /\ [][Next]_vars

\* process_data returns, posted handlers run, and dispatchers answer.
FairSpec ==
  /\ Spec
  /\ WF_vars(Return \/ PostFalse \/ RunFalse)
  /\ \A i \in Targets : WF_vars(Post(i)) /\ WF_vars(Step(i))

-----------------------------------------------------------------------------
(* Every variable has its type.                                              *)
TypeOK ==
  /\ n \in 0..MaxTargets
  /\ caller \in {"posting", "queued", "returned"}
  /\ posted \in 0..n
  /\ frame \in [Targets -> {"none", "posted", "running", "returned"}]
  /\ kept \in [Targets -> {"none", "kept", "called", "gone"}]
  /\ result \in {"ok", "failed"}
  /\ answer \in [Targets -> {"none", "ok", "failed", "lost"}]
  /\ outcome \in Seq({"ok", "failed"})

(* While process_data runs or a dispatcher has not answered, the combiner is *)
(* alive: its destructor runs neither between two posts nor before an answer *)
(* that will still come.                                                     *)
AliveWhileNeeded ==
  n > 1 =>
    (outcome # <<>> => posted = n /\ caller = "returned"
                       /\ \A i \in 1..n : answer[i] # "none")

(* One false answer is enough and none is overwritten, in whatever order the *)
(* answers come.                                                             *)
FalseWins ==
  n > 1 => (result = "failed" <=> \E i \in Targets : answer[i] = "failed")

\* The promise to the translator.
Promise == INSTANCE AllTargets
             WITH MaxTargets <- MaxTargets, n <- n, answer <- answer, outcome <- outcome

(* The callback is called once, when every dispatcher is done, with the      *)
(* conjunction of their answers.                                             *)
PromiseSpec == Promise!Spec

(* The callback is called: no reference to the combiner is left behind, not  *)
(* even when dispatchers drop their copies.  Only the copy of a single       *)
(* dispatcher, which has no combiner, can be lost without a call.            *)
Answered == <>(outcome # <<>> \/ (n = 1 /\ answer[1] = "lost"))
==============================================================================
