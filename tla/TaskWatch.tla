------------------------------ MODULE TaskWatch ------------------------------
(***************************************************************************)
(* Watching a task: the broadcast channel of one task (src/task/mod.rs,    *)
(* src/task/events.rs) and the three pumps that forward it to a client:    *)
(* SSE (facade/sse.rs), WebSocket (facade/ws.rs, `forward_events`) and     *)
(* gRPC (facade/rpc.rs, `watch_stream`).                                   *)
(*                                                                         *)
(* The task's state is a rank that only grows: 0 queued, 1 running, one    *)
(* more per stage of the core.  The worker stores first and publishes      *)
(* after; a pump takes its subscription, sends what the state is, and then *)
(* follows the channel.  A pump that is Backlog events behind loses the    *)
(* oldest and is told so.  A slow client is a pump that takes its time.    *)
(***************************************************************************)
EXTENDS Naturals, FiniteSets, Sequences

CONSTANTS Watcher,    \* pumps of this task
          Sse,        \* those that serve SSE
          Grpc,       \* those that serve gRPC; the others serve WebSockets
          IsRun,      \* the task is a simulation, not a plan or a map build
          Backlog,    \* EVENT_BACKLOG
          Filters,    \* bound: topic filters a client may ask for
          MaxOpen,    \* bound: streams opened
          MaxStages,  \* bound: stages the core reports
          MaxLogs     \* bound: log lines on their own

ASSUME WatchAssumption ==
  /\ Sse \subseteq Watcher /\ Grpc \subseteq Watcher /\ Sse \cap Grpc = {}
  /\ IsRun \in BOOLEAN
  /\ Backlog \in Nat \ {0} /\ MaxOpen \in Nat /\ MaxStages \in Nat /\ MaxLogs \in Nat

Topic == {"state", "stage", "log"}

ASSUME FilterAssumption == Filters # {} /\ Filters \subseteq SUBSET Topic

VARIABLES rank,       \* how far the task is
          end,        \* "no", or how it ended
          todo,       \* stores and sends left of the worker's transition
          logs,       \* log lines so far
          published,  \* every event sent, oldest first
          at,         \* where each pump is
          behind,     \* the pump was told that it lagged
          cursor,     \* events of `published` the pump is past
          topics,     \* its filter; empty accepts everything
          frames,     \* what its client was sent
          asked       \* the client's change of filter: none, answered, dropped

task  == <<rank, end, todo, logs, published>>
pumps == <<at, behind, cursor, topics, frames, asked>>
vars  == <<task, pumps>>

Ends == {"succeeded", "failed", "cancelled"}

(* Events and frames have one shape.  `url` is where a `done` sends the    *)
(* client: to the task's own result, to the summary of a simulation, or to *)
(* a path with the API prefix twice.                                       *)
Message == [kind : Topic \cup {"done", "error"}, rank : Nat, end : {"no"} \cup Ends,
            url : {"none", "own", "run", "doubled"}]

Msg(kind, r, e, url) == [kind |-> kind, rank |-> r, end |-> e, url |-> url]

IsTerminal(m) == m.kind \in {"done", "error"}

Accepts(filter, m) == filter = {} \/ m.kind \in filter

Init ==
  /\ rank = 0 /\ end = "no" /\ todo = <<>> /\ logs = 0
  /\ published = <<>>
  /\ at     = [w \in Watcher |-> "new"]
  /\ behind = [w \in Watcher |-> FALSE]
  /\ cursor = [w \in Watcher |-> 0]
  /\ topics = [w \in Watcher |-> {}]
  /\ frames = [w \in Watcher |-> <<>>]
  /\ asked  = [w \in Watcher |-> "no"]

-----------------------------------------------------------------------------
(* The worker. *)

Store(r, e) == [op |-> "store", rank |-> r, end |-> e]
Send(m)     == [op |-> "send", msg |-> m]

StateEvent(r, e) == Msg("state", r, e, "none")

MarkRunning == <<Store(1, "no"), Send(StateEvent(1, "no"))>>

MarkSucceeded ==
  <<Store(rank + 1, "succeeded"), Send(StateEvent(rank + 1, "succeeded")),
    Send(Msg("done", rank + 1, "succeeded", "own"))>>

(* `mark_failed` and `mark_cancelled` both publish an error.               *)
Abandon(e) ==
  <<Store(rank + 1, e), Send(StateEvent(rank + 1, e)),
    Send(Msg("error", rank + 1, e, "none"))>>

(* `observe`: a stage that measured something is logged as well.           *)
Observe(noted) ==
  <<Store(rank + 1, "no"), Send(Msg("stage", rank + 1, "no", "none"))>>
    \o (IF noted THEN <<Send(Msg("log", 0, "no", "none"))>> ELSE <<>>)

Begin ==
  /\ todo = <<>> /\ end = "no"
  /\ \/ rank = 0 /\ todo' \in {MarkRunning, Abandon("cancelled")} /\ UNCHANGED logs
     \/ rank > 0 /\ todo' \in {MarkSucceeded, Abandon("failed")} /\ UNCHANGED logs
     \/ /\ rank > 0 /\ rank <= MaxStages
        /\ \E noted \in BOOLEAN : todo' = Observe(noted)
        /\ UNCHANGED logs
     \/ /\ logs < MaxLogs
        /\ todo' = <<Send(Msg("log", 0, "no", "none"))>>
        /\ logs' = logs + 1
  /\ UNCHANGED <<rank, end, published, pumps>>

Work ==
  /\ todo # <<>>
  /\ todo' = Tail(todo)
  /\ \/ /\ Head(todo).op = "store"
        /\ rank' = Head(todo).rank /\ end' = Head(todo).end
        /\ UNCHANGED published
     \/ /\ Head(todo).op = "send"
        /\ published' = Append(published, Head(todo).msg)
        /\ UNCHANGED <<rank, end>>
  /\ UNCHANGED <<logs, pumps>>

-----------------------------------------------------------------------------
(* The pumps. *)

Emit(w, m) == frames' = [frames EXCEPT ![w] = Append(@, m)]

Goto(w, place) == at' = [at EXCEPT ![w] = place]

(* `snapshot` of the SSE pump looks at the state before it chooses a frame *)
(* and again to fill it in; the other pumps always send a state frame.     *)
Opening(w) == IF w \in Sse THEN "snapshot" ELSE "state"

(* The outcome as a frame, made from the state and not from the event.     *)
EndFrame(w) ==
  IF end = "failed" THEN Msg("error", rank, end, "none")
  ELSE Msg("done", rank, end,
           CASE w \in Grpc -> "doubled" [] w \notin Grpc /\ IsRun -> "own" [] OTHER -> "run")

Subscribe(w) ==
  /\ at[w] = "new"
  /\ Cardinality({v \in Watcher : at[v] # "new"}) < MaxOpen
  /\ Goto(w, Opening(w))
  /\ cursor' = [cursor EXCEPT ![w] = Len(published)]
  /\ \E filter \in IF w \in Grpc THEN Filters ELSE {{}} :
       topics' = [topics EXCEPT ![w] = filter]
  /\ UNCHANGED <<behind, frames, asked, task>>

ChooseSnapshot(w) ==
  /\ at[w] = "snapshot"
  /\ Goto(w, IF end = "no" THEN "state" ELSE "outcome")
  /\ UNCHANGED <<behind, cursor, topics, frames, asked, task>>

SendState(w) ==
  /\ at[w] = "state"
  /\ Emit(w, StateEvent(rank, end))
  /\ Goto(w, "check")
  /\ UNCHANGED <<behind, cursor, topics, asked, task>>

SendOutcome(w) ==
  /\ at[w] = "outcome"
  /\ Emit(w, EndFrame(w))
  /\ Goto(w, "check")
  /\ UNCHANGED <<behind, cursor, topics, asked, task>>

Bug_CheckEnd(w) ==
  /\ at[w] = "check"
  /\ Goto(w, "follow")
  /\ behind' = [behind EXCEPT ![w] = FALSE]
  /\ UNCHANGED <<cursor, topics, frames, asked, task>>

Bug_ForgetsToReturn(w) ==
  /\ at[w] = "check"
  /\ IF end # "no" THEN Emit(w, EndFrame(w)) ELSE UNCHANGED frames
  /\ Goto(w, "follow")
  /\ behind' = [behind EXCEPT ![w] = FALSE]
  /\ UNCHANGED <<cursor, topics, asked, task>>

(* After the snapshot: has the task ended?  The SSE pump sends the outcome *)
(* here only when it was behind, the others always.                        *)
CheckEnd(w) ==
  /\ at[w] = "check"
  /\ \/ /\ end = "no"
        /\ Goto(w, "follow")
        /\ behind' = [behind EXCEPT ![w] = FALSE]
        /\ UNCHANGED frames
     \/ /\ end # "no" /\ (w \notin Sse \/ behind[w])
        /\ Emit(w, EndFrame(w))
        /\ Goto(w, "ended")
        /\ UNCHANGED behind
     \/ /\ end # "no" /\ w \in Sse /\ ~behind[w]
        /\ Goto(w, "ended")
        /\ UNCHANGED <<behind, frames>>
  /\ UNCHANGED <<cursor, topics, asked, task>>

Lagged(w) == Len(published) - cursor[w] > Backlog

Follow(w) ==
  /\ at[w] = "follow"
  /\ cursor[w] < Len(published) /\ ~Lagged(w)
  /\ LET m == published[cursor[w] + 1]
     IN  /\ IF IsTerminal(m) \/ Accepts(topics[w], m) THEN Emit(w, m) ELSE UNCHANGED frames
         /\ IF IsTerminal(m) THEN Goto(w, "ended") ELSE UNCHANGED at
  /\ cursor' = [cursor EXCEPT ![w] = @ + 1]
  /\ UNCHANGED <<behind, topics, asked, task>>

Bug_FallBehind(w) ==
  /\ at[w] = "follow"
  /\ Lagged(w)
  /\ cursor' = [cursor EXCEPT ![w] = Len(published) - Backlog]
  /\ UNCHANGED <<at, behind, topics, frames, asked, task>>

(* The channel moves a lagging receiver to the oldest event it still has.  *)
FallBehind(w) ==
  /\ at[w] = "follow"
  /\ Lagged(w)
  /\ cursor' = [cursor EXCEPT ![w] = Len(published) - Backlog]
  /\ behind' = [behind EXCEPT ![w] = TRUE]
  /\ Goto(w, Opening(w))
  /\ UNCHANGED <<topics, frames, asked, task>>

(* The client is gone: the next send fails and the pump returns.           *)
Leave(w) ==
  /\ at[w] \in {"state", "outcome", "check", "follow"}
  /\ Goto(w, "gone")
  /\ UNCHANGED <<behind, cursor, topics, frames, asked, task>>

(* A WebSocket client changes its filter (`subscribe` in `handle_text`)    *)
(* and is sent the state at once, unless the socket's queue is full: then  *)
(* the answer is dropped.  The socket outlives the pump.                   *)
Resubscribe(w) ==
  /\ w \notin Sse \cup Grpc
  /\ at[w] \in {"state", "check", "follow", "ended"} /\ asked[w] = "no"
  /\ \E filter \in Filters : topics' = [topics EXCEPT ![w] = filter]
  /\ \/ Emit(w, StateEvent(rank, end)) /\ asked' = [asked EXCEPT ![w] = "answered"]
     \/ UNCHANGED frames /\ asked' = [asked EXCEPT ![w] = "dropped"]
  /\ UNCHANGED <<at, behind, cursor, task>>

Pump(w) ==
  \/ ChooseSnapshot(w) \/ SendState(w) \/ SendOutcome(w) \/ CheckEnd(w)
  \/ Follow(w) \/ FallBehind(w)

Next == Begin \/ Work \/ \E w \in Watcher : Subscribe(w) \/ Pump(w) \/ Resubscribe(w) \/ Leave(w)

Spec == Init /\ [][Next]_vars

(* The worker runs to its end and every pump that can move does; clients   *)
(* subscribe and leave when they like.                                     *)
FairSpec == Spec /\ WF_vars(Begin \/ Work) /\ \A w \in Watcher : WF_vars(Pump(w))

-----------------------------------------------------------------------------
(* Properties. *)

TypeOK ==
  /\ rank \in 0..(MaxStages + 2) /\ end \in {"no"} \cup Ends /\ logs \in 0..MaxLogs
  /\ \A i \in DOMAIN published : published[i] \in Message
  /\ \A w \in Watcher :
       /\ at[w] \in {"new", "snapshot", "state", "outcome", "check", "follow", "ended", "gone"}
       /\ behind[w] \in BOOLEAN
       /\ cursor[w] \in 0..Len(published)
       /\ topics[w] \in SUBSET Topic
       /\ \A i \in DOMAIN frames[w] : frames[w][i] \in Message
       /\ asked[w] \in {"no", "answered", "dropped"}

(* The terminal frames of a pump, by their place in its stream.            *)
TerminalFrames(w) == {i \in DOMAIN frames[w] : IsTerminal(frames[w][i])}

(* A WebSocket or gRPC client is told exactly once how the task ended, and *)
(* nothing follows but the answer to a change of filter: neither the race  *)
(* between the state and its event, nor a lag past the end, loses the      *)
(* terminal frame or repeats it, and no filter hides it.                   *)
TerminalExactlyOnce ==
  \A w \in Watcher \ Sse :
    /\ at[w] \notin {"ended", "gone"} => TerminalFrames(w) = {}
    /\ at[w] = "ended" =>
         \E i \in DOMAIN frames[w] :
           /\ TerminalFrames(w) = {i}
           /\ Len(frames[w]) > i => Len(frames[w]) = i + 1 /\ asked[w] = "answered"

(* A client that has everything the channel holds knows the task's current *)
(* stage, however many events were dropped before it: only the loss of the *)
(* answer to its change of filter leaves it behind.                        *)
DrainedClientIsCurrent ==
  \A w \in Watcher :
    /\ at[w] = "follow" /\ cursor[w] = Len(published) /\ todo = <<>>
    /\ topics[w] = {} /\ asked[w] # "dropped"
    => \E i \in DOMAIN frames[w] : frames[w][i].rank = rank

(* A client is told where its task is, and once how it ended.              *)
ClientsAreTold == TerminalExactlyOnce /\ DrainedClientIsCurrent

(* Every stream ends: a pump never follows a channel that will stay silent.*)
StreamEnds ==
  \A w \in Watcher : at[w] = "follow" ~> at[w] \in {"ended", "gone"}

-----------------------------------------------------------------------------
(* What comments and docs say, and the code does not do.                   *)

(* "SSE: state, stage, log, and one terminal event" (usage.md).            *)
SseStreamHasTerminal ==
  \A w \in Sse : at[w] = "ended" => TerminalFrames(w) # {}
=============================================================================
