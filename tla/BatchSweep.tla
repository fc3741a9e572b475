------------------------------ MODULE BatchSweep ------------------------------
(***************************************************************************)
(* The batch panel of the web client                                       *)
(* (src/web/src/components/run/BatchPanel.vue): a sweep submits one run    *)
(* per individual, one after another, and follows each over an event       *)
(* stream of its own (src/web/src/api/sse.ts).  cancelAll() walks the rows *)
(* as they were when it was pressed and may outlive its sweep.             *)
(*                                                                         *)
(* A run is "live" until it ends, "asked" to be cancelled perhaps, by this *)
(* panel or by another client, which a client cannot see; an event carries *)
(* what it is when the event arrives.                                      *)
(* The previews only feed a chart: here they are one wait.  The summary    *)
(* that is fetched when a run is done is left out.                         *)
(***************************************************************************)
EXTENDS Naturals, Sequences, FiniteSets, SequencesExt

CONSTANTS Individuals,     \* population of a sweep
          SubmitAttempts,  \* SUBMIT_ATTEMPTS, 2 in the code
          MaxSweeps,       \* bound: sweeps started
          MaxProblems,     \* bound: streams that give up
          Press,           \* bound: presses of the cancel button
          NoJob

ASSUME SweepAssumption ==
  /\ Individuals \in Nat \ {0} /\ SubmitAttempts \in Nat \ {0}
  /\ MaxSweeps \in Nat /\ MaxProblems \in Nat /\ NoJob \notin Nat

VARIABLES rows,       \* runs: individual -> [id, state]
          starting,   \* a sweep is being submitted: "-", "previewing" or "submitting"
          next,       \* the individual submitted next
          tries,      \* and how often it was tried
          jobs,       \* the service's runs, in the order they were accepted
          subscriptions, \* open streams: [row, id]
          streamProblems, \* streams that gave up, in any sweep
          cancelling, \* press -> rows cancelAll() has still to cancel, or Idle
          replying,   \* presses whose request was accepted, its reply under way
          mounted,    \* the panel is on the page
          sweeps,     \* sweeps started so far
          byHand      \* history: individuals cancelAll() marked in this sweep
                      \*   (0: it has also closed the streams)

sweepVars == <<rows, starting, next, tries, jobs, subscriptions, streamProblems,
               cancelling, replying, mounted, sweeps, byHand>>

Rows == 1..Individuals
Job == 1..(MaxSweeps * Individuals)
Final == {"succeeded", "failed", "cancelled"}
RowStates == {"live"} \cup Final
Link == [row : Rows, id : Job]
Idle == <<[row |-> 0, id |-> 0]>>       \* the button is not pressed

SweepTypeOK ==
  /\ rows \in [Rows -> [id : Job \cup {NoJob}, state : RowStates]]
  /\ starting \in {"-", "previewing", "submitting"}
  /\ next \in 1..(Individuals + 1)
  /\ tries \in 1..SubmitAttempts
  /\ jobs \in Seq(RowStates \cup {"asked"})
  /\ subscriptions \subseteq Link
  /\ streamProblems \in 0..MaxProblems
  /\ \A p \in Press : cancelling[p] = Idle \/ cancelling[p] \in Seq(Link)
  /\ replying \subseteq Press
  /\ mounted \in BOOLEAN
  /\ sweeps \in 0..MaxSweeps
  /\ byHand \subseteq 0..Individuals

Empty == [id |-> NoJob, state |-> "live"]

SweepInit ==
  /\ rows = [i \in Rows |-> Empty]
  /\ starting = "-"
  /\ next = 1
  /\ tries = 1
  /\ jobs = <<>>
  /\ subscriptions = {}
  /\ streamProblems = 0
  /\ cancelling = [p \in Press |-> Idle]
  /\ replying = {}
  /\ mounted = TRUE
  /\ sweeps = 0
  /\ byHand = {}

-----------------------------------------------------------------------------
(* start() and submitAll(). *)

Bug_CloseStreams == UNCHANGED subscriptions

CloseStreams == subscriptions' = {}

Start ==
  /\ mounted
  /\ starting = "-"
  /\ sweeps < MaxSweeps
  /\ sweeps' = sweeps + 1
  /\ starting' = "previewing"
  /\ CloseStreams
  /\ rows' = [i \in Rows |-> Empty]
  /\ next' = 1
  /\ tries' = 1
  /\ byHand' = {}
  /\ UNCHANGED <<jobs, streamProblems, cancelling, replying, mounted>>

Previewed ==
  /\ starting = "previewing"
  /\ starting' = "submitting"
  /\ UNCHANGED <<rows, next, tries, jobs, subscriptions, streamProblems,
                 cancelling, replying, mounted, sweeps, byHand>>

(* The for loop goes on, or the sweep is submitted.                        *)
NextRow ==
  /\ tries' = 1
  /\ next' = next + 1
  /\ starting' = IF next = Individuals THEN "-" ELSE "submitting"

(* The loop goes on after the panel is gone, and subscribes.               *)
Accepted ==
  /\ starting = "submitting"
  /\ jobs' = Append(jobs, "live")
  /\ rows' = [rows EXCEPT ![next].id = Len(jobs'), ![next].state = "live"]
  /\ subscriptions' = subscriptions \cup {[row |-> next, id |-> Len(jobs')]}
  /\ NextRow
  /\ UNCHANGED <<streamProblems, cancelling, replying, mounted, sweeps, byHand>>

(* A busy service is asked once more; any other refusal fails the row.     *)
Refused(busy) ==
  IF busy /\ tries < SubmitAttempts
  THEN tries' = tries + 1 /\ UNCHANGED <<starting, next, rows>>
  ELSE NextRow /\ rows' = [rows EXCEPT ![next].state = "failed"]

RowNotSubmitted ==
  /\ starting = "submitting"
  /\ \E busy \in BOOLEAN : Refused(busy)
  /\ UNCHANGED <<jobs, subscriptions, streamProblems, cancelling, replying, mounted, sweeps,
                 byHand>>

-----------------------------------------------------------------------------
(* Events of the streams. *)

Seen(j) == IF jobs[j] = "asked" THEN "live" ELSE jobs[j]

(* A state the run is in.                                                  *)
StateEvent(s) ==
  /\ s \in subscriptions
  /\ rows' = [rows EXCEPT ![s.row].state = Seen(s.id)]
  /\ UNCHANGED <<starting, next, tries, jobs, subscriptions, streamProblems, cancelling,
                 replying, mounted, sweeps, byHand>>

(* How a stream ends: "done" with the state of the run, or "error", which  *)
(* makes any row a failed one.  The end of a cancelled run is published as *)
(* an "error"; a stream that finds the run cancelled is told "done".       *)
Endings(state) == IF state = "cancelled" THEN {"failed", "cancelled"} ELSE {state}

LastEvent(s) ==
  /\ s \in subscriptions
  /\ jobs[s.id] \in Final
  /\ \E told \in Endings(jobs[s.id]) : rows' = [rows EXCEPT ![s.row].state = told]
  /\ subscriptions' = subscriptions \ {s}
  /\ UNCHANGED <<starting, next, tries, jobs, streamProblems, cancelling, replying, mounted,
                 sweeps, byHand>>

StreamGivesUp(s) ==
  /\ s \in subscriptions
  /\ streamProblems < MaxProblems
  /\ subscriptions' = subscriptions \ {s}
  /\ streamProblems' = streamProblems + 1
  /\ UNCHANGED <<rows, starting, next, tries, jobs, cancelling, replying, mounted, sweeps,
                 byHand>>

-----------------------------------------------------------------------------
(* cancelAll() and leaving. *)

Active == SelectSeq([i \in Rows |-> [row |-> i, id |-> rows[i].id]],
                    LAMBDA e : e.id # NoJob /\ rows[e.row].state = "live")

CancelAll(p) ==
  /\ mounted
  /\ cancelling[p] = Idle
  /\ \E i \in Rows : rows[i].state = "live"
  /\ sweeps > 0
  /\ cancelling' = [cancelling EXCEPT ![p] = Active]
  /\ UNCHANGED <<rows, starting, next, tries, jobs, subscriptions, streamProblems,
                 replying, mounted, sweeps, byHand>>

(* cancelSimulation, one row after another.  The service takes a request   *)
(* for a run that has not ended; the run may end before the reply comes.   *)
CancelArrives(p) ==
  /\ cancelling[p] \notin {Idle, <<>>}
  /\ p \notin replying
  /\ LET c == Head(cancelling[p]) IN
       /\ jobs[c.id] \notin Final
       /\ jobs' = [jobs EXCEPT ![c.id] = "asked"]
  /\ replying' = replying \cup {p}
  /\ UNCHANGED <<rows, starting, next, tries, subscriptions, streamProblems, cancelling,
                 mounted, sweeps, byHand>>

(* The row is marked when the reply comes.                                 *)
CancelReplied(p) ==
  /\ p \in replying
  /\ LET c == Head(cancelling[p]) IN
       /\ rows' = [rows EXCEPT ![c.row].state = "cancelled"]
       /\ byHand' = byHand \cup {c.row}
  /\ replying' = replying \ {p}
  /\ cancelling' = [cancelling EXCEPT ![p] = Tail(@)]
  /\ UNCHANGED <<starting, next, tries, jobs, subscriptions, streamProblems, mounted, sweeps>>

(* The run has ended and the request is refused, or the request or its     *)
(* reply is lost: the row stays as it is, whatever the service did.        *)
CancelMisses(p) ==
  /\ cancelling[p] \notin {Idle, <<>>}
  /\ replying' = replying \ {p}
  /\ cancelling' = [cancelling EXCEPT ![p] = Tail(@)]
  /\ UNCHANGED <<rows, starting, next, tries, jobs, subscriptions, streamProblems, mounted,
                 sweeps, byHand>>

CancelDone(p) ==
  /\ cancelling[p] = <<>>
  /\ cancelling' = [cancelling EXCEPT ![p] = Idle]
  /\ subscriptions' = {}
  /\ byHand' = byHand \cup {0}
  /\ UNCHANGED <<rows, starting, next, tries, jobs, streamProblems, replying, mounted, sweeps>>

Leave ==
  /\ mounted
  /\ mounted' = FALSE
  /\ subscriptions' = {}
  /\ UNCHANGED <<rows, starting, next, tries, jobs, streamProblems, cancelling, replying,
                 sweeps, byHand>>

(* Another client asks the service to cancel a run.                        *)
AskedElsewhere(j) ==
  /\ j \in DOMAIN jobs
  /\ jobs[j] = "live"
  /\ jobs' = [jobs EXCEPT ![j] = "asked"]
  /\ UNCHANGED <<rows, starting, next, tries, subscriptions, streamProblems,
                 cancelling, replying, mounted, sweeps, byHand>>

(* A run that was asked to stop may finish all the same.                   *)
JobEnds(j) ==
  /\ j \in DOMAIN jobs
  /\ jobs[j] \notin Final
  /\ \E s \in Final : /\ s = "cancelled" => jobs[j] = "asked"
                     /\ jobs' = [jobs EXCEPT ![j] = s]
  /\ UNCHANGED <<rows, starting, next, tries, subscriptions, streamProblems,
                 cancelling, replying, mounted, sweeps, byHand>>

SweepNext ==
  \/ Start \/ Previewed \/ Accepted \/ RowNotSubmitted \/ Leave
  \/ \E s \in subscriptions : StateEvent(s) \/ LastEvent(s) \/ StreamGivesUp(s)
  \/ \E p \in Press :
       CancelAll(p) \/ CancelArrives(p) \/ CancelReplied(p) \/ CancelMisses(p) \/ CancelDone(p)
  \/ \E j \in Job : AskedElsewhere(j) \/ JobEnds(j)

SweepSpec == SweepInit /\ [][SweepNext]_sweepVars

(* Previews and submissions are answered, runs end, and an open stream     *)
(* tells so.                                                               *)
SweepFairness ==
  /\ WF_sweepVars(Previewed)
  /\ WF_sweepVars(Accepted \/ RowNotSubmitted)
  /\ WF_sweepVars(\E j \in Job : JobEnds(j))
  /\ WF_sweepVars(\E s \in Link : LastEvent(s))

-----------------------------------------------------------------------------
(* Properties. *)

(* What a row that was not marked may say of a run that ended as s.        *)
TellsOf(said, s) == said = s \/ (s = "cancelled" /\ said = "failed")

(* An open stream is of the run its row names, and a live row has one as   *)
(* long as none gave up, nothing was cancelled and the panel is there.  A  *)
(* row that ended, and that cancelAll() did not mark, says what became of  *)
(* its run, but for a run that was cancelled by others, or whose accepted  *)
(* cancellation was not heard of: its row says "cancelled" or "failed".    *)
(* Sweeps that follow each other do not mix.                               *)
RowsAreFollowed ==
  /\ \A s \in subscriptions : rows[s.row].id = s.id
  /\ \A i \in Rows :
       rows[i].id # NoJob =>
         /\ rows[i].state \in Final /\ i \notin byHand =>
              TellsOf(rows[i].state, jobs[rows[i].id])
         /\ rows[i].state = "live" /\ mounted /\ byHand = {} /\ streamProblems = 0
              => [row |-> i, id |-> rows[i].id] \in subscriptions

(* The sweep is submitted, and if it was neither cancelled nor left and    *)
(* lost no stream, its rows have ended, the ones the service refused       *)
(* included.                                                               *)
SweepAtRest ==
  sweeps > 0 =>
    /\ starting = "-"
    /\ byHand = {} /\ mounted /\ streamProblems = 0 => \A i \in Rows : rows[i].state \in Final

(* Not true: cancelAll() marks the rows whose runs it cancelled.  One that *)
(* was pressed in the sweep before marks the rows of this one.             *)
OnlyCancelledAreMarked ==
  \A i \in Rows : rows[i].state = "cancelled" => rows[i].id # NoJob

(* Not true: the row of a cancelled run says so.  The event that ends its  *)
(* stream is an error, and the kind "cancelled" it carries is not read.    *)
CancelledIsToldApart ==
  \A i \in Rows : rows[i].id # NoJob /\ rows[i].state = "failed" =>
                    jobs[rows[i].id] # "cancelled"

(* Not true: a panel that is gone follows nothing.                         *)
NothingIsFollowedAfterLeaving == mounted \/ subscriptions = {}
=============================================================================
