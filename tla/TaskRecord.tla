----------------------------- MODULE TaskRecord ------------------------------
(***************************************************************************)
(* One task's record, field by field (crates/service/src/task/mod.rs).     *)
(*                                                                         *)
(* The record has no lock of its own: every field is an atomic or has its  *)
(* own RwLock.  The worker writes fields one after the other, in the order *)
(* of the `mark_*` methods, `commit` and `observe`; a reader collects them *)
(* one after the other, in the order `to_dto`, `result_dto` or `finished`  *)
(* read them.  Any store may fall between any two reads.                   *)
(*                                                                         *)
(* `todo` is what the worker still has to store of the transition it is    *)
(* in.  Stores become visible in program order, which is what x86-64       *)
(* builds of the relaxed atomics give.                                     *)
(***************************************************************************)
EXTENDS Naturals, Sequences

CONSTANTS Reader,      \* requests in progress, each reads the record once
          MaxStages    \* bound: stages the core reports during a run

ASSUME StagesAssumption == MaxStages \in Nat

VARIABLES record,   \* field -> value, what has been stored so far
          todo,     \* stores left of the worker's current transition
          stages,   \* stages reported so far
          evicted,  \* history: an admission took the outcome away
          got,      \* reader -> how many fields of its plan it has read
          plan,     \* reader -> the fields it reads, in order
          seen      \* reader -> field -> the value it read

vars == <<record, todo, stages, evicted, got, plan, seen>>

Terminal == {"succeeded", "failed", "cancelled"}

Field == {"state", "stage", "progress", "started", "finished", "error", "outcome"}

Record ==
  [state    : {"queued", "running"} \cup Terminal,
   stage    : {"queued", "running", "core", "done", "failed", "cancelled"},
   progress : {"none", "zero", "some", "full"},
   started  : BOOLEAN, finished : BOOLEAN, error : BOOLEAN, outcome : BOOLEAN]

New == [state |-> "queued", stage |-> "queued", progress |-> "zero",
        started |-> FALSE, finished |-> FALSE, error |-> FALSE, outcome |-> FALSE]

-----------------------------------------------------------------------------
(* The worker's transitions, as the stores they make, in order. *)

Set(field, value) == [field |-> field, value |-> value]

Bug_Commit(state, stage, progress) ==
  IF state \in Terminal
  THEN <<Set("state", state), Set("stage", stage), Set("progress", progress),
         Set("finished", TRUE)>>
  ELSE <<Set("state", state), Set("stage", stage), Set("progress", progress)>>

(* "Stage, progress and finish time are written *before* the state, which  *)
(* is the commit point."                                                   *)
Commit(state, stage, progress) ==
  IF state \in Terminal
  THEN <<Set("stage", stage), Set("progress", progress), Set("finished", TRUE),
         Set("state", state)>>
  ELSE <<Set("stage", stage), Set("progress", progress), Set("state", state)>>

MarkRunning == <<Set("started", TRUE)>> \o Commit("running", "running", "none")

MarkSucceeded == <<Set("outcome", TRUE)>> \o Commit("succeeded", "done", "full")

MarkFailed == <<Set("error", TRUE)>> \o Commit("failed", "failed", "none")

MarkCancelled == Commit("cancelled", "cancelled", "none")

(* `observe`: the stage's own name and fraction.                           *)
Observe == <<Set("stage", "core"), Set("progress", "some")>>

-----------------------------------------------------------------------------
(* The plans of the readers. *)

(* `to_dto` copies the error and the two times before it reads the state,  *)
(* then the stage and the progress.                                        *)
ToDto == <<"error", "started", "finished", "state", "stage", "progress">>

(* `result_dto` and `finished`: the state, then the outcome; for a state   *)
(* without a result they read a whole dto for its message.                 *)
ResultDto == <<"state", "outcome">>

(* A state frame of a stream is made from a dto too.                       *)
Plans == {ToDto, ResultDto}

Init ==
  /\ record = New
  /\ todo = <<>>
  /\ stages = 0
  /\ evicted = FALSE
  /\ got = [r \in Reader |-> 0]
  /\ plan \in [Reader -> Plans]
  /\ seen = [r \in Reader |-> New]

reading == <<got, plan, seen>>

(* The worker enters a transition.  Before it runs it starts or is         *)
(* cancelled; while it runs it reports stages, and ends in one of two ways *)
(* (a panic is a failure too).                                             *)
Begin ==
  /\ todo = <<>>
  /\ \/ /\ record.state = "queued"
        /\ todo' \in {MarkRunning, MarkCancelled}
        /\ UNCHANGED stages
     \/ /\ record.state = "running"
        /\ todo' \in {MarkSucceeded, MarkFailed}
        /\ UNCHANGED stages
     \/ /\ record.state = "running"
        /\ stages < MaxStages
        /\ todo' = Observe
        /\ stages' = stages + 1
  /\ UNCHANGED <<record, evicted, reading>>

(* The next store of the transition.                                       *)
Store ==
  /\ todo # <<>>
  /\ record' = [record EXCEPT ![Head(todo).field] = Head(todo).value]
  /\ todo' = Tail(todo)
  /\ UNCHANGED <<stages, evicted, reading>>

(* TaskRegistry::prune_results, during the admission of some other task.   *)
Evict ==
  /\ record.outcome
  /\ record' = [record EXCEPT !.outcome = FALSE]
  /\ evicted' = TRUE
  /\ UNCHANGED <<todo, stages, reading>>

(* A reader loads the next field of its plan.                              *)
Read(r) ==
  /\ got[r] < Len(plan[r])
  /\ LET f == plan[r][got[r] + 1]
     IN  seen' = [seen EXCEPT ![r] = [@ EXCEPT ![f] = record[f]]]
  /\ got' = [got EXCEPT ![r] = @ + 1]
  /\ UNCHANGED <<record, todo, stages, evicted, plan>>

Next == Begin \/ Store \/ Evict \/ (\E r \in Reader : Read(r))

Spec == Init /\ [][Next]_vars

-----------------------------------------------------------------------------
(* Properties. *)

TypeOK ==
  /\ record \in Record
  /\ \A i \in DOMAIN todo : [record EXCEPT ![todo[i].field] = todo[i].value] \in Record
  /\ stages \in 0..MaxStages
  /\ evicted \in BOOLEAN
  /\ plan \in [Reader -> Plans]
  /\ \A r \in Reader : got[r] \in 0..Len(plan[r])
  /\ seen \in [Reader -> Record]

(* The requests that have read everything they answer with.                *)
Answered(p) == {r \in Reader : plan[r] = p /\ got[r] = Len(p)}

(* A dto that reports an end reports the stage and the progress of that    *)
(* end: the worker stores them before the state, `to_dto` reads them after *)
(* it.  A client never sees "succeeded" with the stage still "running".    *)
StageFitsState ==
  \A r \in Answered(ToDto) :
    /\ seen[r].state = "succeeded" => seen[r].stage = "done" /\ seen[r].progress = "full"
    /\ seen[r].state = "failed"    => seen[r].stage = "failed" /\ seen[r].progress = "none"
    /\ seen[r].state = "cancelled" => seen[r].stage = "cancelled" /\ seen[r].progress = "none"

(* A client that polls until success and then asks for the result gets it, *)
(* unless an admission took it away: "evicted" is never said of a result   *)
(* that is still being stored.                                             *)
ResultFollowsSuccess ==
  \A r \in Answered(ResultDto) :
    seen[r].state = "succeeded" /\ ~seen[r].outcome => evicted

(* Whatever a request reads while the worker stores, field by field and    *)
(* without a common lock, fits the end it reports: the stage and progress  *)
(* of a dto, the result of a success.                                      *)
AnswersFitTheEnd == StageFitsState /\ ResultFollowsSuccess

-----------------------------------------------------------------------------
(* What the comment on `commit` says, and `to_dto` does not give.          *)

(* "a reader that observes a terminal state must also observe the fields   *)
(* that belong to it": the error of a failure, the time of an end.         *)
TerminalDtoWhole ==
  \A r \in Answered(ToDto) :
    seen[r].state \in Terminal =>
      seen[r].finished /\ (seen[r].state = "failed" => seen[r].error)
=============================================================================
