------------------------------ MODULE MCWebClient ------------------------------
(* The stores and panels of the web client.  They share no state: a page     *)
(* exercises one of them, `focus`, while the others stay as they start, the  *)
(* sample socket closed.                                                     *)
EXTENDS PlanWorkspace, TaskTray, RunPages, BatchSweep, SampleSocket, TLC

CONSTANTS t1, t2, r1, r2, l1, l2, l3

VARIABLE focus

(* A timeline that ends in the middle of a page, and one that fills it.      *)
Lengths == (r1 :> 3) @@ (r2 :> 2)

(* The second fetch starts where a frame of the first does, and asks for     *)
(* more than there is.                                                       *)
Overlapping == {[offset |-> 0, limit |-> 4], [offset |-> 3, limit |-> 9]}

(* Tickets are alike, and so are loads: the first is the one that is asked   *)
(* for first.                                                                *)
InOrder == call[t2] # At("-") => call[t1] # At("-")
OpenedInOrder ==
  /\ load[l2].step # "-" => load[l1].step # "-"
  /\ load[l3].step # "-" => load[l2].step # "-"

(* The panel tells a success from a failure only to show it: of the runs,    *)
(* unless they are cancelled, every other one fails.  A sweep that was       *)
(* cancelled whole is not cancelled again.                                   *)
EveryOtherFails ==
  \A j \in DOMAIN jobs : jobs[j] # IF j % 2 = 0 THEN "failed" ELSE "succeeded"

OnePress ==
  0 \in byHand /\ 0 \in byHand' =>
    \A p \in Press : cancelling[p] = Idle => cancelling'[p] = Idle

(* Runs are cancelled by one press of the panel's button or by another       *)
(* client, who cancels one.                                                  *)
CancelledOnce ==
  (\E p \in Press : CancelAll(p)) \/ (\E j \in Job : AskedElsewhere(j)) =>
    /\ \A j \in DOMAIN jobs : jobs[j] \notin {"asked", "cancelled"}
    /\ \A p \in Press : cancelling[p] = Idle

(* Of two runs one is waited for at least, at most one task does not succeed *)
(* and only the first may be cancelled.  No result is dropped: a fetch may   *)
(* fail, whether or not its result is there.                                 *)
OneIsWaitedFor == call[t2] # At("-") => blocking[t1] \/ blocking[t2]
MostSucceed ==
  /\ Cardinality({t \in Ticket : state[t] \in {"failed", "cancelled"}}) <= 1
  /\ asking \subseteq {t1}
  /\ \A t \in Ticket : held[t] # "gone"

(* The ticket is cancelled by this page or by another client.  It is         *)
(* accepted at once, and the other client does it while the ticket is        *)
(* queued: nothing comes of a later one (see TaskLifecycle).                 *)
OneCancels ==
  LET clicked == \E c \in Click : click[c].id # NoTicket IN
  /\ \A c \in Click : click[c].id # click'[c].id => asking = {}
  /\ asking' # asking /\ ~clicked => \A t \in asking' : state[t] = "queued"
  /\ asking # asked => asked' # asked
  /\ clicked => \A t \in Ticket : ~CancelledElsewhere(t)

MCInit ==
  /\ focus \in {"plan", "tray", "pages", "batch", "socket"}
  /\ PlanInit /\ TrayInit /\ PagesInit /\ SweepInit
  /\ Connection(focus # "socket")
  /\ focus # "plan" => draft.smooth = 1

MCNext ==
  /\ \/ /\ focus = "plan" /\ PlanNext
        /\ UNCHANGED <<trayVars, pagesVars, sweepVars, vars>>
     \/ /\ focus = "tray" /\ TrayNext /\ InOrder' /\ MostSucceed' /\ OneIsWaitedFor' /\ OneCancels
        /\ UNCHANGED <<planVars, pagesVars, sweepVars, vars>>
     \/ /\ focus = "pages" /\ PagesNext /\ OpenedInOrder'
        /\ UNCHANGED <<planVars, trayVars, sweepVars, vars>>
     \/ /\ focus = "batch" /\ SweepNext /\ EveryOtherFails' /\ OnePress /\ CancelledOnce
        /\ UNCHANGED <<planVars, trayVars, pagesVars, vars>>
     \/ /\ focus = "socket" /\ Next
        /\ UNCHANGED <<planVars, trayVars, pagesVars, sweepVars>>
  /\ UNCHANGED focus

MCVars == <<focus, planVars, trayVars, pagesVars, sweepVars, vars>>

MCSpec ==
  /\ MCInit /\ [][MCNext]_MCVars
  /\ PlanFairness /\ TrayFairness /\ PagesFairness /\ SweepFairness /\ SocketFairness

(* The client comes to rest, for what is pressed, opened and asked for is    *)
(* bounded: a plan is answered, fails or is cancelled, every run() settles,  *)
(* every load and every sweep ends, and so does every fetch while nothing is *)
(* lost.                                                                     *)
ClientSettles == <>[](PlanAtRest /\ TrayAtRest /\ PagesAtRest /\ SweepAtRest /\ SocketAtRest)
================================================================================
