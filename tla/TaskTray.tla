------------------------------- MODULE TaskTray -------------------------------
(***************************************************************************)
(* The task manager of the web client (src/web/src/stores/tasks.ts) with   *)
(* the buttons of TaskTray.vue and TaskModal.vue, against the service as   *)
(* TaskLifecycle promises it.                                              *)
(*                                                                         *)
(* run() submits a ticket, polls it until it has ended and fetches its     *)
(* result; `call` says how far it is.  A request in flight is answered     *)
(* from what the service is at one moment and arrives at a later one, or   *)
(* it fails.  cancel() asks the service, then refreshes the entry with a   *)
(* poll of its own, which may overtake or be overtaken by those of run().  *)
(* Other clients may cancel any ticket.                                    *)
(* The delay between two polls is part of the flight of the second.        *)
(***************************************************************************)
EXTENDS Naturals, FiniteSets, Sequences, SequencesExt

CONSTANTS Ticket,         \* tickets the service can hand out
          Own,            \* those this page submits, the others are other clients'
          MaxConcurrent,  \* simulation.max_concurrent of the service
          Click,          \* bound: cancellations asked for
          HistoryLimit,   \* HISTORY_LIMIT, 20 in the code
          NoTicket

ASSUME TrayAssumption == Own \subseteq Ticket /\ NoTicket \notin Ticket /\ HistoryLimit \in Nat

VARIABLES state, held, asking, asked, listed,  \* the service: see TaskLifecycle; held is its `result`
          call,       \* ticket -> how far run() is
          blocking,   \* ticket -> whether the page waits for it
          entries,    \* the tray, newest first: [id, state]
          modal,      \* modalTicket
          logs,       \* tickets whose log lines are subscribed to
          click,      \* cancel() -> [id, step]
          announced,  \* history: ends the tray reported
          latest      \* history: the last blocking run whose ticket arrived

serviceVars == <<state, held, asking, asked, listed>>
trayVars == <<serviceVars, call, blocking, entries, modal, logs, click, announced, latest>>

Service == INSTANCE TaskLifecycle WITH Task <- Ticket, result <- held

Ended == Service!Ended
States == {"queued", "running"} \cup Ended

Told == [told : States]                 \* an answer on its way back
Steps == [told : {"-", "posting", "posted", "polling", "fetching", "resolved", "rejected"}]

At(step) == [told |-> step]

Settled(t) == call[t] \in {At("resolved"), At("rejected")}

TrayTypeOK ==
  /\ call \in [Ticket -> Told \cup Steps]
  /\ blocking \in [Ticket -> BOOLEAN]
  /\ entries \in Seq([id : Ticket, state : States])
  /\ Len(entries) <= HistoryLimit
  /\ modal \in Ticket \cup {NoTicket}
  /\ logs \subseteq Ticket
  /\ click \in [Click -> [id : Ticket \cup {NoTicket},
                          step : Told \cup [told : {"-", "asking", "found", "polling"}]]]
  /\ announced \subseteq Ticket
  /\ latest \in Ticket \cup {NoTicket}

TrayInit ==
  /\ Service!Init
  /\ call = [t \in Ticket |-> At("-")]
  /\ blocking = [t \in Ticket |-> FALSE]
  /\ entries = <<>>
  /\ modal = NoTicket
  /\ logs = {}
  /\ click = [c \in Click |-> [id |-> NoTicket, step |-> At("-")]]
  /\ announced = {}
  /\ latest = NoTicket

-----------------------------------------------------------------------------
(* The tray. *)

Places(t) == {i \in DOMAIN entries : entries[i].id = t}
Live(s) == s \in {"queued", "running"}

(* A task nobody waits for is announced when its entry ends; one that was  *)
(* cancelled is not.                                                       *)
Reports(was, s) == Live(was) /\ s \in {"succeeded", "failed"}

(* apply: a state that was reported for t goes into its entry, if it has   *)
(* one, whatever the entry says.  `closed` is what else closes the log.    *)
Apply(t, s, closed) ==
  /\ entries' = [i \in DOMAIN entries |->
                   IF i \in Places(t) THEN [id |-> t, state |-> s] ELSE entries[i]]
  /\ announced' = IF \E i \in Places(t) : Reports(entries[i].state, s) /\ ~blocking[t]
                  THEN announced \cup {t} ELSE announced
  /\ logs' = IF closed \/ (\E i \in Places(t) : Live(entries[i].state) /\ s \in Ended)
             THEN logs \ {t} ELSE logs

(* `blocking` of the store, for which the page is dimmed and the loader is *)
(* shown: the ticket of the modal, while the tray has a live entry for it. *)
Loader ==
  IF modal # NoTicket /\ \E i \in Places(modal) : Live(entries[i].state)
  THEN modal ELSE NoTicket

Bug_ReleaseModal(t) == modal' = NoTicket

(* The `finally` of run(): the modal is given up by the run that has it.   *)
ReleaseModal(t) == modal' = IF modal = t THEN NoTicket ELSE modal

Settle(t, how) ==
  /\ call' = [call EXCEPT ![t] = At(how)]
  /\ ReleaseModal(t)

-----------------------------------------------------------------------------
(* run(): submit, wait, fetch. *)

Run(t, b) ==
  /\ t \in Own
  /\ call[t] = At("-")
  /\ call' = [call EXCEPT ![t] = At("posting")]
  /\ blocking' = [blocking EXCEPT ![t] = b]
  /\ UNCHANGED <<serviceVars, entries, modal, logs, click, announced, latest>>

(* Every submission, of this client or of another, may make the service    *)
(* forget older results and older tickets.                                 *)
Admitted(t) ==
  /\ t \in Own => call[t] = At("posting")
  /\ Service!Submit(t)
  /\ call' = [call EXCEPT ![t] = IF t \in Own THEN At("posted") ELSE @]
  /\ UNCHANGED <<blocking, entries, modal, logs, click, announced, latest>>

(* attachLog: the log lines of a task that is waited for are subscribed to. *)
AttachLog(t) == logs' = logs \cup {t}

(* submit() after the reply, wait() up to its first poll.                  *)
Submitted(t) ==
  /\ call[t] = At("posted")
  /\ LET all == <<[id |-> t, state |-> "queued"]>> \o entries IN
     entries' = SubSeq(all, 1, IF Len(all) < HistoryLimit THEN Len(all) ELSE HistoryLimit)
  /\ modal' = IF blocking[t] THEN t ELSE modal
  /\ latest' = IF blocking[t] THEN t ELSE latest
  /\ AttachLog(t)
  /\ call' = [call EXCEPT ![t] = At("polling")]
  /\ UNCHANGED <<serviceVars, blocking, click, announced>>

(* The submission is refused, or fails on its way out or back: no entry.   *)
SubmitFails(t) ==
  /\ call[t] \in {At("posting"), At("posted")}
  /\ call' = [call EXCEPT ![t] = At("rejected")]
  /\ UNCHANGED <<serviceVars, blocking, entries, modal, logs, click, announced, latest>>

Read(t) ==
  /\ call[t] = At("polling")
  /\ t \in listed
  /\ call' = [call EXCEPT ![t] = At(state[t])]
  /\ UNCHANGED <<serviceVars, blocking, entries, modal, logs, click, announced, latest>>

Bug_Over(s) == s \in {"succeeded", "failed"}

Over(s) == s \in Ended

Polled(t) ==
  \E s \in States :
    /\ call[t] = At(s)
    /\ Apply(t, s, Over(s))
    /\ IF ~Over(s) THEN call' = [call EXCEPT ![t] = At("polling")] /\ UNCHANGED modal
       ELSE IF s = "succeeded" THEN call' = [call EXCEPT ![t] = At("fetching")] /\ UNCHANGED modal
       ELSE Settle(t, "rejected")
    /\ UNCHANGED <<serviceVars, blocking, click, latest>>

(* A poll fails: the ticket was forgotten, or the connection broke.  The   *)
(* error leaves wait() without detaching the log.                          *)
PollFails(t) ==
  /\ call[t] \in {At("polling")} \cup {At(s) : s \in States}
  /\ Settle(t, "rejected")
  /\ UNCHANGED <<serviceVars, blocking, entries, logs, click, announced, latest>>

Fetched(t) ==
  /\ call[t] = At("fetching")
  /\ \/ t \in listed /\ held[t] = "ready" /\ Settle(t, "resolved")
     \/ Settle(t, "rejected")
  /\ UNCHANGED <<serviceVars, blocking, entries, logs, click, announced, latest>>

-----------------------------------------------------------------------------
(* cancel(), from the tray or from the modal, and clearFinished(). *)

Cancel(c, t) ==
  /\ click[c].id = NoTicket
  /\ \E i \in Places(t) : Live(entries[i].state)
  /\ click' = [click EXCEPT ![c] = [id |-> t, step |-> At("asking")]]
  /\ UNCHANGED <<serviceVars, call, blocking, entries, modal, logs, announced, latest>>

(* The service reads the state first and accepts a moment later.           *)
CancelFound(c) ==
  /\ click[c].step = At("asking")
  /\ Service!Ask(click[c].id)
  /\ click' = [click EXCEPT ![c].step = At("found")]
  /\ UNCHANGED <<call, blocking, entries, modal, logs, announced, latest>>

CancelAccepted(c) ==
  /\ click[c].step = At("found")
  /\ Service!Accept(click[c].id)
  /\ click' = [click EXCEPT ![c].step = At("polling")]
  /\ UNCHANGED <<call, blocking, entries, modal, logs, announced, latest>>

(* A refusal, or a failure at any step, ends it without a refresh.         *)
CancelFails(c) ==
  /\ click[c].step # At("-")
  /\ click' = [click EXCEPT ![c].step = At("-")]
  /\ UNCHANGED <<serviceVars, call, blocking, entries, modal, logs, announced, latest>>

RefreshRead(c) ==
  /\ click[c].step = At("polling")
  /\ click[c].id \in listed
  /\ click' = [click EXCEPT ![c].step = At(state[click[c].id])]
  /\ UNCHANGED <<serviceVars, call, blocking, entries, modal, logs, announced, latest>>

Refreshed(c) ==
  \E s \in States :
    /\ click[c].step = At(s)
    /\ Apply(click[c].id, s, FALSE)
    /\ click' = [click EXCEPT ![c].step = At("-")]
    /\ UNCHANGED <<serviceVars, call, blocking, modal, latest>>

ClearFinished ==
  /\ \E i \in DOMAIN entries : entries[i].state \in Ended
  /\ entries' = FoldLeft(LAMBDA kept, e : IF e.state \in Ended THEN kept ELSE Append(kept, e),
                         <<>>, entries)
  /\ UNCHANGED <<serviceVars, call, blocking, modal, logs, click, announced, latest>>

-----------------------------------------------------------------------------

Work(t) == Service!Start(t) \/ Service!Succeed(t) \/ Service!Fail(t) \/ Service!Cancel(t)

ServiceWorks(t) ==
  /\ Work(t)
  /\ UNCHANGED <<call, blocking, entries, modal, logs, click, announced, latest>>

(* Another client cancels the ticket.                                      *)
CancelledElsewhere(t) ==
  /\ Service!Ask(t) \/ Service!Accept(t)
  /\ UNCHANGED <<call, blocking, entries, modal, logs, click, announced, latest>>

Step(t) ==
  \/ Submitted(t) \/ SubmitFails(t) \/ Read(t) \/ Polled(t) \/ PollFails(t) \/ Fetched(t)

TrayNext ==
  \/ \E t \in Ticket : \/ \E b \in BOOLEAN : Run(t, b)
                       \/ Admitted(t) \/ Step(t) \/ ServiceWorks(t) \/ CancelledElsewhere(t)
  \/ \E c \in Click : \/ \E t \in Ticket : Cancel(c, t)
                      \/ CancelFound(c) \/ CancelAccepted(c) \/ CancelFails(c)
                      \/ RefreshRead(c) \/ Refreshed(c)
  \/ ClearFinished

TraySpec == TrayInit /\ [][TrayNext]_trayVars

(* The service ends what it admitted (see AdmittedTaskEnds of TaskService) *)
(* and the network answers every request, if only with a failure: a poll   *)
(* that may go on is not failed for ever.                                  *)
CallMoves(t) ==
  \/ Submitted(t) \/ SubmitFails(t) \/ Read(t) \/ Polled(t) \/ Fetched(t)
  \/ (t \notin listed /\ PollFails(t))

TrayFairness ==
  /\ WF_trayVars(\E t \in Ticket : ServiceWorks(t))
  /\ \A t \in Own : WF_trayVars(CallMoves(t))

-----------------------------------------------------------------------------
(* Properties. *)

(* The page is dimmed for the last blocking run, and for no other: as long *)
(* as that run is waited for and the tray has an entry for it that has not *)
(* ended, whatever ends, fails or is cancelled beside it.                  *)
LoaderIsTheLatestWait ==
  Loader = IF \/ latest = NoTicket \/ Settled(latest)
              \/ \A i \in Places(latest) : entries[i].state \in Ended
           THEN NoTicket ELSE latest

(* "Its outcome has to be announced": when a run in the background has     *)
(* returned its result, and its entry is still in the tray, the user has   *)
(* been told; whether its own poll or a refresh saw the end first.         *)
EndIsAnnounced ==
  \A t \in Ticket :
    call[t] = At("resolved") /\ ~blocking[t] /\ Places(t) # {} => t \in announced

(* What the page shows while it waits and what it says afterwards.         *)
UserIsTold == LoaderIsTheLatestWait /\ EndIsAnnounced

(* Every run() that was called has settled, resolved or rejected.          *)
TrayAtRest == \A t \in Own : call[t] = At("-") \/ Settled(t)

(* Not true: an entry whose run has settled is not shown as live.  A       *)
(* refresh may arrive after the last poll with what it read before it, and *)
(* a run whose poll fails leaves its entry as it was.                      *)
NothingLivesOn ==
  \A t \in Ticket : Settled(t) => \A i \in Places(t) : entries[i].state \in Ended

(* Not true: the page is dimmed as long as a blocking run is waited for.   *)
(* It is not while the result is fetched, once the tray has dropped the    *)
(* entry, and when a refresh saw the end before the poll of run().         *)
DimmedWhileWaiting ==
  latest # NoTicket /\ ~Settled(latest) => Loader = latest

(* Not true: a task that still runs has an entry to be cancelled from; the *)
(* tray drops its oldest entry whatever its state.                         *)
LiveTaskIsListed ==
  \A t \in Ticket : call[t] \notin {At("-"), At("posting"), At("posted")} /\ ~Settled(t)
                      => Places(t) # {}
=============================================================================
