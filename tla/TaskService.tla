----------------------------- MODULE TaskService -----------------------------
(***************************************************************************)
(* The task registry and the task runner of crates/service: admission      *)
(* against a capacity, a FIFO semaphore of MaxConcurrent permits, one      *)
(* spawned worker per task, cancellation by a flag, and the retention of   *)
(* results and entries (src/task/mod.rs and src/task/queue.rs).            *)
(*                                                                         *)
(* A worker is a small program; `pc` says where it is:                     *)
(*                                                                         *)
(*   spawned -> waiting -> holding -> starting -> body -> succeeding ->    *)
(*                            |                    |       publishing ->   *)
(*                            v                    v             releasing *)
(*                        cancelling -> done     failing -> releasing      *)
(*                                                           -> done       *)
(*                                                                         *)
(* The registry is a Vec ordered by admission.  Only the end is pushed and *)
(* `retain` keeps the order, so it is the set `listed` with the admission  *)
(* number `born` of each task.                                             *)
(***************************************************************************)
EXTENDS Naturals, FiniteSets, Sequences

CONSTANTS Task,            \* identifiers; `store::identifier` never repeats one
          MaxConcurrent,   \* simulation.max_concurrent
          QueueCapacity,   \* simulation.queue_capacity
          KeepResults,     \* simulation.keep_results
          KeepTasks        \* max(64, 8 * keep_results) in TaskRegistry::new

ASSUME TaskAssumption == IsFiniteSet(Task)

ASSUME LimitAssumption ==
  /\ MaxConcurrent \in Nat \ {0}
  /\ QueueCapacity \in Nat \ {0}
  /\ KeepResults \in Nat \ {0}
  /\ KeepTasks \in Nat \ {0}

VARIABLES state,       \* Task::state, "absent" before submission
          asking,      \* tasks a call to Task::cancel found not ended
          cancelled,   \* Task::cancelled, the flag
          payload,     \* Task::payload: "none", "held" or "released"
          outcome,     \* whether Task::outcome is Some
          pc,          \* where the worker of a task is
          permits,     \* free permits of the semaphore
          waiters,     \* workers queued on the semaphore, oldest first
          listed,      \* TaskRegistry::tasks
          born,        \* place of a task in the order of admission
          admissions,  \* tasks admitted so far
          askedAt      \* history: where the worker was when the flag was first set

vars == <<state, asking, cancelled, payload, outcome, pc, permits, waiters,
          listed, born, admissions, askedAt>>

worker   == <<pc, permits, waiters>>
registry == <<listed, born, admissions>>

-----------------------------------------------------------------------------

Terminal == {"succeeded", "failed", "cancelled"}
TaskState == {"absent", "queued", "running"} \cup Terminal
Place == {"absent", "rejected", "spawned", "waiting", "holding", "starting", "body",
          "succeeding", "publishing", "failing", "releasing", "cancelling", "done"}

(* The places where a worker has its permit. *)
Holding == {"holding", "starting", "body", "succeeding", "publishing", "failing",
            "releasing"}

TypeOK ==
  /\ state \in [Task -> TaskState]
  /\ asking \in SUBSET Task
  /\ cancelled \in [Task -> BOOLEAN]
  /\ payload \in [Task -> {"none", "held", "released"}]
  /\ outcome \in [Task -> BOOLEAN]
  /\ pc \in [Task -> Place]
  /\ permits \in 0..MaxConcurrent
  /\ waiters \in Seq(Task)
  /\ listed \in SUBSET Task
  /\ born \in [Task -> Nat]
  /\ admissions \in Nat
  /\ askedAt \in [Task -> Place \cup {"never"}]

Init ==
  /\ state     = [t \in Task |-> "absent"]
  /\ asking = {}
  /\ cancelled = [t \in Task |-> FALSE]
  /\ payload   = [t \in Task |-> "none"]
  /\ outcome   = [t \in Task |-> FALSE]
  /\ pc        = [t \in Task |-> "absent"]
  /\ permits = MaxConcurrent
  /\ waiters = <<>>
  /\ listed  = {}
  /\ born    = [t \in Task |-> 0]
  /\ admissions = 0
  /\ askedAt = [t \in Task |-> "never"]

-----------------------------------------------------------------------------
(* Admission: TaskRunner::admit and TaskRegistry::try_admit. *)

InFlight == {t \in listed : state[t] \notin Terminal}

Capacity == MaxConcurrent + QueueCapacity

(* Results in memory, whatever the state of their task: `prune_results`    *)
(* looks at the outcome only.                                              *)
Held == {t \in listed : outcome[t]}

Finished == {t \in listed : state[t] \in Terminal}

Bug_Excess(S, bound) == IF Cardinality(S) > bound + 1 THEN Cardinality(S) - bound ELSE 0

Excess(S, bound) == IF Cardinality(S) > bound THEN Cardinality(S) - bound ELSE 0

(* E is the n oldest members of S, or all of S when it has fewer. *)
AreOldest(E, S, n) ==
  /\ Cardinality(E) <= n
  /\ Cardinality(E) < n => E = S
  /\ \A e \in E, s \in S \ E : born[e] < born[s]

(* Entries `prune` may drop: "a queued or running task always stays". *)
Droppable == Finished

(***************************************************************************)
(* One write lock covers the count, the push and both prunes.  The new     *)
(* task counts as an entry but has no outcome and is not terminal.         *)
(***************************************************************************)
Admit(t) ==
  /\ pc[t] = "absent"
  /\ Cardinality(InFlight) < Capacity
  /\ \E evicted \in SUBSET Held :
       /\ AreOldest(evicted, Held, Excess(Held, KeepResults))
       /\ outcome' = [u \in Task |-> outcome[u] /\ u \notin evicted]
  /\ \E dropped \in SUBSET Droppable :
       /\ AreOldest(dropped, Droppable, Excess(listed \cup {t}, KeepTasks))
       /\ listed' = (listed \cup {t}) \ dropped
  /\ admissions' = admissions + 1
  /\ born'    = [born EXCEPT ![t] = admissions + 1]
  /\ state'   = [state EXCEPT ![t] = "queued"]
  /\ payload' = [payload EXCEPT ![t] = "held"]
  /\ pc'      = [pc EXCEPT ![t] = "spawned"]
  /\ UNCHANGED <<asking, cancelled, permits, waiters, askedAt>>

(* The same call on a full queue: Busy, and nothing but the caller moves. *)
Reject(t) ==
  /\ pc[t] = "absent"
  /\ Cardinality(InFlight) >= Capacity
  /\ pc' = [pc EXCEPT ![t] = "rejected"]
  /\ UNCHANGED <<state, asking, cancelled, payload, outcome, permits, waiters, registry, askedAt>>

-----------------------------------------------------------------------------
(* The worker: TaskRunner::execute. *)

(* Moves the worker of t, and hands its permit to the oldest waiter or back *)
(* to the semaphore: what dropping the permit does.                        *)
Bug_LostWakeup(t, next) ==
  /\ pc' = [pc EXCEPT ![t] = next]
  /\ permits' = IF waiters = <<>> THEN permits + 1 ELSE permits
  /\ UNCHANGED waiters

DropPermit(t, next) ==
  \/ /\ waiters = <<>>
     /\ permits' = permits + 1
     /\ pc' = [pc EXCEPT ![t] = next]
     /\ UNCHANGED waiters
  \/ /\ waiters # <<>>
     /\ pc' = [pc EXCEPT ![t] = next, ![Head(waiters)] = "holding"]
     /\ waiters' = Tail(waiters)
     /\ UNCHANGED permits

Bug_AskPermit(t) ==
  /\ pc[t] = "spawned"
  /\ pc' = [pc EXCEPT ![t] = "holding"]
  /\ permits' = IF permits > 0 THEN permits - 1 ELSE permits
  /\ UNCHANGED <<waiters, state, asking, cancelled, payload, outcome, registry, askedAt>>

(* The spawned worker reaches the semaphore, in any order the executor     *)
(* likes; the semaphore itself is first come, first served.                *)
AskPermit(t) ==
  /\ pc[t] = "spawned"
  /\ \/ /\ permits > 0
        /\ permits' = permits - 1
        /\ pc' = [pc EXCEPT ![t] = "holding"]
        /\ UNCHANGED waiters
     \/ /\ permits = 0
        /\ pc' = [pc EXCEPT ![t] = "waiting"]
        /\ waiters' = Append(waiters, t)
        /\ UNCHANGED permits
  /\ UNCHANGED <<state, asking, cancelled, payload, outcome, registry, askedAt>>

Bug_CancelSeen(t) == FALSE

(* The one read of the flag in the life of a task. *)
CancelSeen(t) == cancelled[t]

CheckCancel(t) ==
  /\ pc[t] = "holding"
  /\ \/ /\ CancelSeen(t)
        /\ DropPermit(t, "cancelling")
     \/ /\ ~CancelSeen(t)
        /\ pc' = [pc EXCEPT ![t] = "starting"]
        /\ UNCHANGED <<permits, waiters>>
  /\ UNCHANGED <<state, asking, cancelled, payload, outcome, registry, askedAt>>

(* Task::mark_cancelled, after the permit is gone.  It keeps the payload.  *)
MarkCancelled(t) ==
  /\ pc[t] = "cancelling"
  /\ state' = [state EXCEPT ![t] = "cancelled"]
  /\ pc' = [pc EXCEPT ![t] = "done"]
  /\ UNCHANGED <<asking, cancelled, payload, outcome, permits, waiters, registry, askedAt>>

MarkRunning(t) ==
  /\ pc[t] = "starting"
  /\ state' = [state EXCEPT ![t] = "running"]
  /\ pc' = [pc EXCEPT ![t] = "body"]
  /\ UNCHANGED <<asking, cancelled, payload, outcome, permits, waiters, registry, askedAt>>

(* The blocking body returns a result, an error, or panics (failing too).  *)
FinishBody(t) ==
  /\ pc[t] = "body"
  /\ \E next \in {"succeeding", "failing"} : pc' = [pc EXCEPT ![t] = next]
  /\ UNCHANGED <<state, asking, cancelled, payload, outcome, permits, waiters, registry, askedAt>>

(* Task::mark_succeeded: the payload is shed and the outcome stored, and   *)
(* only then is the state committed; an admission may come in between.     *)
StoreOutcome(t) ==
  /\ pc[t] = "succeeding"
  /\ payload' = [payload EXCEPT ![t] = "released"]
  /\ outcome' = [outcome EXCEPT ![t] = TRUE]
  /\ pc' = [pc EXCEPT ![t] = "publishing"]
  /\ UNCHANGED <<state, asking, cancelled, permits, waiters, registry, askedAt>>

Bug_CommitSucceeded(t) ==
  /\ pc[t] = "publishing"
  /\ state' = [state EXCEPT ![t] = "succeeded"]
  /\ pc' = [pc EXCEPT ![t] = "done"]
  /\ UNCHANGED <<asking, cancelled, payload, outcome, permits, waiters, registry, askedAt>>

CommitSucceeded(t) ==
  /\ pc[t] = "publishing"
  /\ state' = [state EXCEPT ![t] = "succeeded"]
  /\ pc' = [pc EXCEPT ![t] = "releasing"]
  /\ UNCHANGED <<asking, cancelled, payload, outcome, permits, waiters, registry, askedAt>>

MarkFailed(t) ==
  /\ pc[t] = "failing"
  /\ payload' = [payload EXCEPT ![t] = "released"]
  /\ state' = [state EXCEPT ![t] = "failed"]
  /\ pc' = [pc EXCEPT ![t] = "releasing"]
  /\ UNCHANGED <<asking, cancelled, outcome, permits, waiters, registry, askedAt>>

ReleasePermit(t) ==
  /\ pc[t] = "releasing"
  /\ DropPermit(t, "done")
  /\ UNCHANGED <<state, asking, cancelled, payload, outcome, registry, askedAt>>

-----------------------------------------------------------------------------
(* The client: DELETE /tasks/{id}, and its gRPC and WebSocket forms, come   *)
(* down to Task::cancel.                                                   *)

(* The call finds the task and reads its state: a task that has ended is   *)
(* refused.  Finding it first changes nothing, for an entry is only ever   *)
(* dropped after its end.                                                  *)
CancelReads(t) ==
  /\ t \in listed
  /\ state[t] \notin Terminal
  /\ asking' = asking \cup {t}
  /\ UNCHANGED <<state, cancelled, payload, outcome, worker, registry, askedAt>>

(* Only then does it store the flag, with no lock held over the two: the   *)
(* worker may have committed its end in between, and the registry dropped  *)
(* the entry.  The flag is never cleared, so a second call that found the  *)
(* task alive changes nothing.                                             *)
CancelStores(t) ==
  /\ t \in asking
  /\ cancelled' = [cancelled EXCEPT ![t] = TRUE]
  /\ askedAt' = [askedAt EXCEPT ![t] = IF @ = "never" THEN pc[t] ELSE @]
  /\ UNCHANGED <<state, asking, payload, outcome, worker, registry>>

Work(t) ==
  \/ AskPermit(t) \/ CheckCancel(t) \/ MarkCancelled(t) \/ MarkRunning(t)
  \/ FinishBody(t) \/ StoreOutcome(t) \/ CommitSucceeded(t) \/ MarkFailed(t)
  \/ ReleasePermit(t)

Next == \E t \in Task : Admit(t) \/ Reject(t) \/ CancelReads(t) \/ CancelStores(t) \/ Work(t)

Spec == Init /\ [][Next]_vars

(* The executor runs every spawned worker and a body is a bounded          *)
(* computation, so every worker that can move does; clients owe nothing.   *)
FairSpec == Spec /\ \A t \in Task : WF_vars(Work(t))

-----------------------------------------------------------------------------
(* Properties. *)

Holders == {t \in Task : pc[t] \in Holding}

(* No execution path of `execute` loses or duplicates a permit, and no     *)
(* worker waits while one is free.                                         *)
PermitsConserved ==
  /\ permits + Cardinality(Holders) = MaxConcurrent
  /\ waiters # <<>> => permits = 0

(* However submissions and completions interleave, the tasks that have not *)
(* ended never exceed the running slots plus the queue.                    *)
CapacityHonoured ==
  Cardinality({t \in Task : state[t] \in {"queued", "running"}})
    <= MaxConcurrent + QueueCapacity

(* Pruning never makes the ticket of unfinished work unresolvable: its     *)
(* client could neither poll nor cancel it.                                *)
InFlightListed ==
  \A t \in Task : state[t] \in {"queued", "running"} => t \in listed

(* The memory bound the registry really gives.  Results are pruned only    *)
(* when a task is admitted, so every task in flight may add one result to  *)
(* the KeepResults that the last admission left.                           *)
RetentionBound ==
  Cardinality(Held) + Cardinality({t \in InFlight : ~outcome[t]})
    <= KeepResults + MaxConcurrent + QueueCapacity

(* A cancellation accepted before the worker reads the flag is never lost: *)
(* the body does not run, whoever hands the permit over and whenever.      *)
EarlyCancelSticks ==
  \A t \in Task : askedAt[t] \in {"spawned", "waiting", "holding"} =>
                   state[t] \in {"queued", "cancelled"}

(* Every admitted task ends, whatever is cancelled and whichever bodies    *)
(* fail: no path out of `execute` keeps a permit.                          *)
AdmittedTaskEnds ==
  \A t \in Task : pc[t] = "spawned" ~> state[t] \in Terminal

(* The client's view of the registry is the ticket lifecycle.  Both ends   *)
(* of eviction are seen through the state, as `result_dto` does.           *)
Result(t) ==
  IF state[t] # "succeeded" THEN "none" ELSE IF outcome[t] THEN "ready" ELSE "gone"

Lifecycle == INSTANCE TaskLifecycle
  WITH result <- [t \in Task |-> Result(t)],
       asked  <- {t \in Task : cancelled[t]}

LifecycleSpec == Lifecycle!Spec

-----------------------------------------------------------------------------
(* What comments, docs and tests say, and the code does not do. *)

(* "A queued task is stopped before it starts" (api/tasks.rs, cancel).     *)
QueuedCancelStops ==
  \A t \in Task : askedAt[t] \in {"spawned", "waiting", "holding", "starting"} =>
                   state[t] \in {"queued", "cancelled"}
=============================================================================
