---------------------------- MODULE TaskLifecycle ----------------------------
(***************************************************************************)
(* What the task service promises a client about its tickets, with nothing *)
(* of how it keeps the promise: no worker, no semaphore, no table order.   *)
(*                                                                         *)
(* A ticket is queued, perhaps runs, and ends in exactly one way.  At most *)
(* MaxConcurrent tickets run.  A ticket that has not ended always resolves *)
(* (`listed`); one that has ended may be forgotten.  The result of a       *)
(* success is ready or gone, and once gone it never comes back.            *)
(*                                                                         *)
(* A cancellation is refused once its ticket has ended.  One that found    *)
(* the ticket alive is accepted, and that may be later: the ticket may     *)
(* have ended by then, or have been forgotten, and nothing comes of it.    *)
(***************************************************************************)
EXTENDS Naturals, FiniteSets

CONSTANTS Task,           \* tickets the service can hand out
          MaxConcurrent   \* tickets that may run at once

VARIABLES state,    \* what GET /tasks/{id} reports; "absent" before submission
          result,   \* "none", "ready" or "gone"
          asking,   \* tickets a cancellation found alive
          asked,    \* tickets whose cancellation was accepted
          listed    \* tickets the service still resolves

vars == <<state, result, asking, asked, listed>>

Ended == {"succeeded", "failed", "cancelled"}

Running == {t \in Task : state[t] = "running"}

Init ==
  /\ state  = [t \in Task |-> "absent"]
  /\ result = [t \in Task |-> "none"]
  /\ asking = {}
  /\ asked  = {}
  /\ listed = {}

(***************************************************************************)
(* Admission is also where the service forgets: old results go, and old    *)
(* tickets that have ended stop resolving.                                 *)
(***************************************************************************)
Submit(t) ==
  /\ state[t] = "absent"
  /\ state' = [state EXCEPT ![t] = "queued"]
  /\ \E gone \in SUBSET {u \in Task : result[u] = "ready"} :
       result' = [u \in Task |-> IF u \in gone THEN "gone" ELSE result[u]]
  /\ \E forgotten \in SUBSET {u \in listed : state[u] \in Ended} :
       listed' = (listed \cup {t}) \ forgotten
  /\ UNCHANGED <<asking, asked>>

Start(t) ==
  /\ state[t] = "queued"
  /\ Cardinality(Running) < MaxConcurrent
  /\ state' = [state EXCEPT ![t] = "running"]
  /\ UNCHANGED <<result, asking, asked, listed>>

(* A result may be gone by the time its ticket reports success: the table  *)
(* was over its bound when it was stored.                                  *)
Succeed(t) ==
  /\ state[t] = "running"
  /\ state' = [state EXCEPT ![t] = "succeeded"]
  /\ \E r \in {"ready", "gone"} : result' = [result EXCEPT ![t] = r]
  /\ UNCHANGED <<asking, asked, listed>>

Fail(t) ==
  /\ state[t] = "running"
  /\ state' = [state EXCEPT ![t] = "failed"]
  /\ UNCHANGED <<result, asking, asked, listed>>

(* Only a ticket somebody asked to cancel is cancelled, and only before it *)
(* has run.                                                                *)
Cancel(t) ==
  /\ state[t] = "queued"
  /\ t \in asked
  /\ state' = [state EXCEPT ![t] = "cancelled"]
  /\ UNCHANGED <<result, asking, asked, listed>>

Ask(t) ==
  /\ t \in listed
  /\ state[t] \in {"queued", "running"}
  /\ asking' = asking \cup {t}
  /\ UNCHANGED <<state, result, asked, listed>>

Accept(t) ==
  /\ t \in asking
  /\ asked' = asked \cup {t}
  /\ UNCHANGED <<state, result, asking, listed>>

Next ==
  \E t \in Task :
    \/ Submit(t) \/ Start(t) \/ Succeed(t) \/ Fail(t) \/ Cancel(t)
    \/ Ask(t) \/ Accept(t)

Spec == Init /\ [][Next]_vars
=============================================================================
