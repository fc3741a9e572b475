---------------------------- MODULE TaskWatchProofs ----------------------------
(***************************************************************************)
(* Proofs about TaskWatch: any number of pumps, any backlog, any filters.  *)
(* Both halves of ClientsAreTold are invariants of a race: the worker      *)
(* stores before it publishes, a pump subscribes before it reads the state.*)
(***************************************************************************)
EXTENDS TaskWatch, SequenceTheorems, TLAPS

Place == {"new", "snapshot", "state", "outcome", "check", "follow", "ended", "gone"}

(* What the worker may still have to do.                                   *)
Op == [op : {"store"}, rank : Nat, end : {"no"} \cup Ends] \cup [op : {"send"}, msg : Message]

WatchTypes ==
  /\ rank \in Nat /\ end \in {"no"} \cup Ends /\ logs \in 0..MaxLogs
  /\ todo \in Seq(Op) /\ published \in Seq(Message)
  /\ at \in [Watcher -> Place]
  /\ behind \in [Watcher -> BOOLEAN]
  /\ cursor \in [Watcher -> Nat]
  /\ topics \in [Watcher -> SUBSET Topic]
  /\ frames \in [Watcher -> Seq(Message)]
  /\ asked \in [Watcher -> {"no", "answered", "dropped"}]

(* No pump is past the end of the channel.                                 *)
CursorsBehind == \A w \in Watcher : cursor[w] <= Len(published)

(* A transition stores at most once, first, and publishes what it stored;  *)
(* a rank goes past the last stage only to end the task.                   *)
TransitionSound ==
  /\ \A k \in 1..Len(todo) : todo[k].op = "store" =>
       /\ k = 1 /\ Len(todo) >= 2 /\ todo[2].op = "send" /\ todo[2].msg.rank = todo[1].rank
       /\ todo[1].rank <= MaxStages + 2
       /\ todo[1].end = "no" => todo[1].rank <= MaxStages + 1
  /\ rank <= MaxStages + 2
  /\ end = "no" => rank <= MaxStages + 1

(* Only the SSE pump chooses its snapshot.  The others have sent no        *)
(* terminal frame before they end, and exactly one after.                  *)
OneEndOf(w) ==
  /\ at[w] \notin {"snapshot", "outcome"}
  /\ at[w] \notin {"ended", "gone"} => \A i \in 1..Len(frames[w]) : ~IsTerminal(frames[w][i])
  /\ at[w] = "ended" =>
       \E i \in 1..Len(frames[w]) :
         /\ \A j \in 1..Len(frames[w]) : IsTerminal(frames[w][j]) <=> j = i
         /\ Len(frames[w]) > i => Len(frames[w]) = i + 1 /\ asked[w] = "answered"

OneEnd == \A w \in Watcher \ Sse : OneEndOf(w)

(* Where the present rank is, for a pump that was sent the state: with the *)
(* client, in the channel ahead of the pump, or with the worker.           *)
Sent(w)  == \E i \in 1..Len(frames[w]) : frames[w][i].rank = rank
Ahead(w) == \E i \in 1..Len(published) : i > cursor[w] /\ published[i].rank = rank
Promised == \E k \in 1..Len(todo) : todo[k].op = "send" /\ todo[k].msg.rank = rank

OnItsWayTo(w) ==
  at[w] \in {"check", "follow"} /\ topics[w] = {} /\ asked[w] # "dropped" =>
    Sent(w) \/ Ahead(w) \/ Promised

OnItsWay == \A w \in Watcher : OnItsWayTo(w)

WatchInv == WatchTypes /\ CursorsBehind /\ TransitionSound /\ OneEnd /\ OnItsWay

-------------------------------------------------------------------------------
(* What the parts of a step do.                                            *)

LEMMA MessagesTyped ==
  ASSUME WatchTypes
  PROVE  /\ StateEvent(rank, end) \in Message
         /\ \A w \in Watcher : EndFrame(w) \in Message
BY DEF WatchTypes, StateEvent, EndFrame, Msg, Message, Topic, Ends

(* A frame goes to one client, behind what that client has.                *)
LEMMA EmitEffect ==
  ASSUME WatchTypes, NEW w \in Watcher, NEW m \in Message, Emit(w, m)
  PROVE  /\ frames' \in [Watcher -> Seq(Message)]
         /\ \A v \in Watcher \ {w} : frames'[v] = frames[v]
         /\ Len(frames[w]) \in Nat /\ Len(frames'[w]) = Len(frames[w]) + 1
         /\ \A i \in 1..Len(frames[w]) : frames'[w][i] = frames[w][i]
         /\ frames'[w][Len(frames[w]) + 1] = m
<1>1. frames' = [frames EXCEPT ![w] = Append(frames[w], m)] /\ frames[w] \in Seq(Message)
  BY DEF Emit, WatchTypes
<1>2. frames'[w] = Append(frames[w], m) /\ Append(frames[w], m) \in Seq(Message)
  BY <1>1 DEF WatchTypes
<1>3. frames' \in [Watcher -> Seq(Message)] /\ \A v \in Watcher \ {w} : frames'[v] = frames[v]
  BY <1>1 DEF WatchTypes
<1>4. QED
  BY <1>1, <1>2, <1>3

LEMMA GotoEffect ==
  ASSUME WatchTypes, NEW w \in Watcher, NEW place \in Place, Goto(w, place)
  PROVE  /\ at' \in [Watcher -> Place] /\ at'[w] = place
         /\ \A v \in Watcher \ {w} : at'[v] = at[v]
BY DEF Goto, WatchTypes

(* Every transition the worker begins has the shape TransitionSound names. *)
LEMMA BeginEffect ==
  ASSUME WatchTypes, TransitionSound, Begin
  PROVE  /\ todo = <<>> /\ todo' \in Seq(Op) /\ logs' \in 0..MaxLogs /\ TransitionSound'
         /\ UNCHANGED <<rank, end, published, at, behind, cursor, topics, frames, asked>>
<1> MaxStages \in Nat /\ MaxLogs \in Nat /\ rank \in Nat
  BY WatchAssumption DEF WatchTypes
<1>1. todo = <<>> /\ end = "no" /\ rank <= MaxStages + 1
      /\ UNCHANGED <<rank, end, published, at, behind, cursor, topics, frames, asked>>
  BY DEF Begin, pumps, TransitionSound
<1>2. ASSUME NEW m \in Message
      PROVE  Send(m) \in Op /\ Send(m).op = "send" /\ Send(m).msg = m
  BY DEF Send, Op
<1>3. ASSUME NEW r \in Nat, NEW e \in {"no"} \cup Ends
      PROVE  /\ Store(r, e) \in Op /\ Store(r, e).op = "store"
             /\ Store(r, e).rank = r /\ Store(r, e).end = e
  BY DEF Store, Op
<1>4. ASSUME NEW kind \in Topic \cup {"done", "error"}, NEW r \in Nat, NEW e \in {"no"} \cup Ends,
             NEW url \in {"none", "own"}
      PROVE  Msg(kind, r, e, url) \in Message /\ Msg(kind, r, e, url).rank = r
  BY DEF Msg, Message
<1>5. \/ rank = 0 /\ todo' = MarkRunning /\ logs' = logs
      \/ rank = 0 /\ todo' = Abandon("cancelled") /\ logs' = logs
      \/ rank > 0 /\ todo' = MarkSucceeded /\ logs' = logs
      \/ rank > 0 /\ todo' = Abandon("failed") /\ logs' = logs
      \/ rank <= MaxStages /\ (\E noted \in BOOLEAN : todo' = Observe(noted)) /\ logs' = logs
      \/ logs < MaxLogs /\ todo' = <<Send(Msg("log", 0, "no", "none"))>> /\ logs' = logs + 1
  BY DEF Begin
<1>6. logs' \in 0..MaxLogs
  BY <1>5 DEF WatchTypes
(* One store with its event, and more to send after it.                    *)
<1> DEFINE Shape(r, e) ==
      /\ todo' \in Seq(Op) /\ Len(todo') >= 2 /\ todo'[1] = Store(r, e)
      /\ todo'[2].msg.rank = r /\ \A k \in 2..Len(todo') : todo'[k].op = "send"
<1>7. ASSUME NEW r \in Nat, NEW e \in {"no"} \cup Ends, Shape(r, e),
             r <= MaxStages + 2, e = "no" => r <= MaxStages + 1
      PROVE  TransitionSound'
  <2>1. Len(todo') \in Nat /\ \A k \in 1..Len(todo') : todo'[k].op = "store" => k = 1
    BY <1>7
  <2>2. QED
    BY <1>1, <1>3, <1>7, <2>1 DEF TransitionSound
<1>8. CASE todo' = MarkRunning /\ rank = 0
  <2>1. todo' = <<Store(1, "no"), Send(Msg("state", 1, "no", "none"))>>
    BY <1>8 DEF MarkRunning, StateEvent
  <2>2. Msg("state", 1, "no", "none") \in Message /\ Msg("state", 1, "no", "none").rank = 1
    BY <1>4 DEF Topic
  <2>3. Shape(1, "no")
    BY <1>2, <1>3, <2>1, <2>2
  <2> HIDE DEF Shape
  <2>4. TransitionSound'
    BY <1>7, <2>3
  <2>5. QED
    BY <2>3, <2>4, <1>1, <1>6 DEF Shape
<1>9. CASE todo' = MarkSucceeded
  <2> DEFINE state1 == Msg("state", rank + 1, "succeeded", "none")
             done   == Msg("done", rank + 1, "succeeded", "own")
  <2>1. todo' = <<Store(rank + 1, "succeeded"), Send(state1), Send(done)>>
    BY <1>9 DEF MarkSucceeded, StateEvent
  <2>2. state1 \in Message /\ state1.rank = rank + 1 /\ done \in Message /\ rank + 1 \in Nat
    BY <1>4 DEF Topic, Ends
  <2> HIDE DEF state1, done
  <2>3. Shape(rank + 1, "succeeded")
    BY <1>2, <1>3, <2>1, <2>2 DEF Ends
  <2> HIDE DEF Shape
  <2>4. TransitionSound'
    BY <1>1, <1>7, <2>2, <2>3 DEF Ends
  <2>5. QED
    BY <2>3, <2>4, <1>1, <1>6 DEF Shape
<1>10. ASSUME NEW e \in {"failed", "cancelled"}, todo' = Abandon(e)
       PROVE  todo' \in Seq(Op) /\ TransitionSound'
  <2> DEFINE state1 == Msg("state", rank + 1, e, "none")
             error  == Msg("error", rank + 1, e, "none")
  <2>1. todo' = <<Store(rank + 1, e), Send(state1), Send(error)>>
    BY <1>10 DEF Abandon, StateEvent
  <2>2. state1 \in Message /\ state1.rank = rank + 1 /\ error \in Message /\ rank + 1 \in Nat
    BY <1>4 DEF Topic, Ends
  <2> HIDE DEF state1, error
  <2>3. Shape(rank + 1, e)
    BY <1>2, <1>3, <2>1, <2>2 DEF Ends
  <2> HIDE DEF Shape
  <2>4. TransitionSound'
    BY <1>1, <1>7, <2>2, <2>3 DEF Ends
  <2>5. QED
    BY <2>3, <2>4 DEF Shape
<1>11. ASSUME NEW noted \in BOOLEAN, todo' = Observe(noted), rank <= MaxStages
       PROVE  todo' \in Seq(Op) /\ TransitionSound'
  <2> DEFINE stage == Msg("stage", rank + 1, "no", "none")
             log   == Msg("log", 0, "no", "none")
  <2>1. stage \in Message /\ stage.rank = rank + 1 /\ log \in Message /\ rank + 1 \in Nat
    BY <1>4 DEF Topic
  <2>2. ASSUME noted PROVE Shape(rank + 1, "no")
    <3> DEFINE pair == <<Store(rank + 1, "no"), Send(stage)>>
               last == <<Send(log)>>
    <3>1. todo' = pair \o last
      BY <1>11, <2>2 DEF Observe
    <3> HIDE DEF stage, log
    <3>2. /\ pair \in Seq(Op) /\ last \in Seq(Op) /\ Len(pair) = 2 /\ Len(last) = 1
          /\ pair[1] = Store(rank + 1, "no") /\ pair[2] = Send(stage) /\ last[1] = Send(log)
      BY <1>2, <1>3, <2>1
    <3> HIDE DEF pair, last
    <3>3. /\ todo' \in Seq(Op) /\ Len(todo') = 3
          /\ todo'[1] = pair[1] /\ todo'[2] = pair[2] /\ todo'[3] = last[1]
      BY SMTT(30), <3>1, <3>2, ConcatProperties
    <3>4. QED
      BY <1>2, <2>1, <3>2, <3>3
  <2>3. ASSUME ~noted PROVE Shape(rank + 1, "no")
    <3> DEFINE pair == <<Store(rank + 1, "no"), Send(stage)>>
    <3>1. todo' = pair \o <<>>
      BY <1>11, <2>3 DEF Observe
    <3> HIDE DEF stage, log
    <3>2. pair \in Seq(Op)
      BY <1>2, <1>3, <2>1
    <3>3. pair \o <<>> = pair
      BY <3>2
    <3>4. QED
      BY <1>2, <1>3, <2>1, <3>1, <3>3
  <2>4. Shape(rank + 1, "no")
    BY <2>2, <2>3
  <2> HIDE DEF Shape, stage, log
  <2>5. TransitionSound'
    BY <1>7, <1>11, <2>1, <2>4
  <2>6. QED
    BY <2>4, <2>5 DEF Shape
<1>12. CASE todo' = <<Send(Msg("log", 0, "no", "none"))>>
  <2>1. Send(Msg("log", 0, "no", "none")) \in Op
        /\ Send(Msg("log", 0, "no", "none")).op = "send"
    BY <1>2, <1>4 DEF Topic
  <2>2. QED
    BY <1>1, <1>12, <2>1, <1>6 DEF TransitionSound
<1>13. QED
  BY <1>1, <1>5, <1>6, <1>8, <1>9, <1>10, <1>11, <1>12

(* The worker does the first thing on its list: it stores, and then the    *)
(* event is still to be sent, or it sends one.                             *)
LEMMA WorkEffect ==
  ASSUME WatchTypes, TransitionSound, Work
  PROVE  /\ todo' \in Seq(Op) /\ rank' \in Nat /\ end' \in {"no"} \cup Ends
         /\ published' \in Seq(Message) /\ TransitionSound'
         /\ UNCHANGED <<logs, at, behind, cursor, topics, frames, asked>>
         /\ \/ published' = published /\ Promised'
            \/ /\ rank' = rank /\ todo[1].op = "send"
               /\ published' = Append(published, todo[1].msg)
               /\ Len(todo) \in Nat /\ Len(todo') = Len(todo) - 1
               /\ \A k \in 1..Len(todo') : todo'[k] = todo[k + 1]
<1>1. /\ todo # <<>> /\ todo' = Tail(todo)
      /\ UNCHANGED <<logs, at, behind, cursor, topics, frames, asked>>
  BY DEF Work, pumps
<1>2. /\ Len(todo) \in Nat /\ Len(todo) >= 1 /\ Head(todo) = todo[1] /\ todo[1] \in Op
      /\ todo' \in Seq(Op) /\ Len(todo') = Len(todo) - 1
      /\ \A k \in 1..Len(todo') : todo'[k] = todo[k + 1]
  BY <1>1 DEF WatchTypes
<1>3. \A k \in 1..Len(todo') : todo'[k].op # "store"
  <2> SUFFICES ASSUME NEW k \in 1..Len(todo') PROVE todo'[k].op # "store"
    OBVIOUS
  <2>1. k + 1 \in 1..Len(todo) /\ k + 1 # 1 /\ todo'[k] = todo[k + 1]
    BY <1>2
  <2>2. QED
    BY <2>1 DEF TransitionSound
<1>4. CASE todo[1].op = "store"
  <2>1. rank' = todo[1].rank /\ end' = todo[1].end /\ published' = published
    BY <1>2, <1>4 DEF Work
  <2>2. todo[1].rank \in Nat /\ todo[1].end \in {"no"} \cup Ends
    BY <1>2, <1>4 DEF Op
  <2>3. /\ Len(todo) >= 2 /\ todo[2].op = "send" /\ todo[2].msg.rank = todo[1].rank
        /\ todo[1].rank <= MaxStages + 2
        /\ todo[1].end = "no" => todo[1].rank <= MaxStages + 1
    BY <1>2, <1>4 DEF TransitionSound
  <2>4. 1 \in 1..Len(todo') /\ todo'[1] = todo[2]
    BY <1>2, <2>3
  <2>5. Promised'
    BY <2>1, <2>3, <2>4 DEF Promised
  <2>6. TransitionSound'
    BY <1>3, <2>1, <2>3 DEF TransitionSound
  <2>7. QED
    BY <1>1, <1>2, <2>1, <2>2, <2>5, <2>6 DEF WatchTypes
<1>5. CASE todo[1].op = "send"
  <2>1. rank' = rank /\ end' = end /\ published' = Append(published, todo[1].msg)
    BY <1>2, <1>5 DEF Work
  <2>2. todo[1].msg \in Message
    BY <1>2, <1>5 DEF Op
  <2>3. published' \in Seq(Message)
    BY <2>1, <2>2 DEF WatchTypes
  <2>4. TransitionSound'
    BY <1>3, <2>1 DEF TransitionSound
  <2>5. QED
    BY <1>1, <1>2, <1>5, <2>1, <2>3, <2>4 DEF WatchTypes
<1>6. QED
  BY <1>2, <1>4, <1>5 DEF Op

(* What a step of one pump leaves alone.                                   *)
OtherPumps(w) ==
  /\ UNCHANGED task
  /\ \A v \in Watcher \ {w} :
       /\ at'[v] = at[v] /\ cursor'[v] = cursor[v] /\ topics'[v] = topics[v]
       /\ frames'[v] = frames[v] /\ asked'[v] = asked[v]

LEMMA OthersKeep ==
  ASSUME WatchInv, NEW w \in Watcher, OtherPumps(w), WatchTypes', cursor'[w] <= Len(published),
         w \notin Sse => OneEndOf(w)', OnItsWayTo(w)'
  PROVE  WatchInv'
<1>1. UNCHANGED <<rank, end, todo, logs, published>>
  BY DEF OtherPumps, task
<1>2. ASSUME NEW v \in Watcher \ {w}
      PROVE  /\ cursor'[v] <= Len(published)
             /\ v \notin Sse => OneEndOf(v)'
             /\ OnItsWayTo(v)'
  <2>1. at'[v] = at[v] /\ cursor'[v] = cursor[v] /\ topics'[v] = topics[v]
        /\ frames'[v] = frames[v] /\ asked'[v] = asked[v]
    BY DEF OtherPumps
  <2>2. v \notin Sse => OneEndOf(v)'
    BY <2>1 DEF WatchInv, OneEnd, OneEndOf
  <2>3. OnItsWayTo(v)'
    BY <1>1, <2>1 DEF WatchInv, OnItsWay, OnItsWayTo, Sent, Ahead, Promised
  <2>4. QED
    BY <2>1, <2>2, <2>3 DEF WatchInv, CursorsBehind
<1>3. TransitionSound'
  BY <1>1 DEF WatchInv, TransitionSound
<1>4. QED
  BY <1>1, <1>2, <1>3 DEF WatchInv, CursorsBehind, OneEnd, OnItsWay

-------------------------------------------------------------------------------
(* The steps of the pumps.                                                 *)

LEMMA SubscribeKeeps ==
  ASSUME WatchInv, NEW w \in Watcher, Subscribe(w)
  PROVE  WatchInv'
<1> WatchTypes
  BY DEF WatchInv
<1>1. /\ at[w] = "new" /\ UNCHANGED <<behind, frames, asked>> /\ UNCHANGED task
      /\ cursor' = [cursor EXCEPT ![w] = Len(published)]
      /\ Opening(w) \in {"snapshot", "state"} /\ (w \notin Sse => Opening(w) = "state")
      /\ Goto(w, Opening(w))
  BY DEF Subscribe, Opening
<1>2. PICK filter \in SUBSET Topic : topics' = [topics EXCEPT ![w] = filter]
  BY FilterAssumption DEF Subscribe
<1>3. Opening(w) \in Place
  BY <1>1 DEF Place
<1>4. /\ at' \in [Watcher -> Place] /\ at'[w] = Opening(w)
      /\ \A v \in Watcher \ {w} : at'[v] = at[v]
  BY <1>1, <1>3, GotoEffect
<1>5. Len(published) \in Nat
  BY DEF WatchTypes
<1>6. WatchTypes'
  BY <1>1, <1>2, <1>4, <1>5 DEF WatchTypes, task
<1>7. OtherPumps(w) /\ cursor'[w] = Len(published)
  BY <1>1, <1>2, <1>4 DEF OtherPumps, WatchTypes
<1>8. w \notin Sse => OneEndOf(w)'
  BY <1>1, <1>4 DEF WatchInv, OneEnd, OneEndOf
<1>9. OnItsWayTo(w)'
  BY <1>1, <1>4 DEF OnItsWayTo
<1>10. QED
  BY <1>5, <1>6, <1>7, <1>8, <1>9, OthersKeep

(* A pump that moves without a frame, to a place where nothing is owed.    *)
LEMMA QuietMoveKeeps ==
  ASSUME WatchInv, NEW w \in Watcher, NEW place \in Place, Goto(w, place),
         UNCHANGED <<topics, frames, asked>>, UNCHANGED task,
         behind' \in [Watcher -> BOOLEAN], cursor' \in [Watcher -> Nat],
         cursor'[w] <= Len(published), \A v \in Watcher \ {w} : cursor'[v] = cursor[v],
         w \notin Sse =>
           /\ at[w] \notin {"ended", "gone"}
           /\ place \in {"state", "check", "follow", "gone"},
         place \notin {"check", "follow"} \/ (at[w] \in {"check", "follow"} /\ cursor'[w] = cursor[w])
  PROVE  WatchInv'
<1> WatchTypes
  BY DEF WatchInv
<1>1. /\ at' \in [Watcher -> Place] /\ at'[w] = place
      /\ \A v \in Watcher \ {w} : at'[v] = at[v]
  BY GotoEffect
<1>2. WatchTypes'
  BY <1>1 DEF WatchTypes, task
<1>3. OtherPumps(w)
  BY <1>1 DEF OtherPumps
<1>4. w \notin Sse => OneEndOf(w)'
  BY <1>1 DEF WatchInv, OneEnd, OneEndOf
<1>5. OnItsWayTo(w)'
  BY <1>1 DEF WatchInv, OnItsWay, OnItsWayTo, Sent, Ahead, Promised, task
<1>6. QED
  BY <1>2, <1>3, <1>4, <1>5, OthersKeep

LEMMA QuietPumpSteps ==
  ASSUME WatchInv, NEW w \in Watcher, ChooseSnapshot(w) \/ FallBehind(w) \/ Leave(w)
  PROVE  WatchInv'
<1> WatchTypes /\ CursorsBehind
  BY DEF WatchInv
<1>1. CASE ChooseSnapshot(w)
  <2>1. w \in Sse
    BY <1>1 DEF ChooseSnapshot, WatchInv, OneEnd, OneEndOf
  <2>2. QED
    BY <1>1, <2>1, QuietMoveKeeps DEF ChooseSnapshot, Place, WatchTypes, CursorsBehind
<1>2. CASE FallBehind(w)
  <2>1. /\ at[w] = "follow" /\ Len(published) - cursor[w] > Backlog
        /\ cursor' = [cursor EXCEPT ![w] = Len(published) - Backlog]
        /\ behind' = [behind EXCEPT ![w] = TRUE]
        /\ Goto(w, Opening(w)) /\ UNCHANGED <<topics, frames, asked>> /\ UNCHANGED task
    BY <1>2 DEF FallBehind, Lagged
  <2>2. Len(published) - Backlog \in Nat /\ Len(published) - Backlog <= Len(published)
    BY <2>1, WatchAssumption DEF WatchTypes
  <2>3. Opening(w) \in {"snapshot", "state"} /\ (w \notin Sse => Opening(w) = "state")
    BY DEF Opening
  <2>4. /\ cursor' \in [Watcher -> Nat] /\ cursor'[w] <= Len(published)
        /\ \A v \in Watcher \ {w} : cursor'[v] = cursor[v]
        /\ behind' \in [Watcher -> BOOLEAN]
    BY <2>1, <2>2 DEF WatchTypes
  <2>5. QED
    BY <2>1, <2>3, <2>4, QuietMoveKeeps DEF Place
<1>3. CASE Leave(w)
  BY <1>3, QuietMoveKeeps DEF Leave, Place, WatchTypes, CursorsBehind
<1>4. QED
  BY <1>1, <1>2, <1>3

(* A pump that sends a frame.  A frame with the present rank is all that   *)
(* the client is owed; a terminal one is the last the pump sends.          *)
LEMMA FrameKeeps ==
  ASSUME WatchInv, NEW w \in Watcher, NEW m \in Message, Emit(w, m), NEW place \in Place, Goto(w, place),
         UNCHANGED <<topics, asked>>, UNCHANGED task,
         behind' \in [Watcher -> BOOLEAN], cursor' \in [Watcher -> Nat],
         cursor'[w] <= Len(published), \A v \in Watcher \ {w} : cursor'[v] = cursor[v],
         w \notin Sse =>
           /\ at[w] \notin {"ended", "gone"}
           /\ IF IsTerminal(m) THEN place = "ended" ELSE place \in {"check", "follow"},
         \/ m.rank = rank
         \/ place \notin {"check", "follow"}
         \/ /\ at[w] \in {"check", "follow"}
            /\ \A j \in 1..Len(published) :
                 j > cursor[w] /\ ~(j > cursor'[w]) => m = published[j]
  PROVE  WatchInv'
<1> WatchTypes
  BY DEF WatchInv
<1>1. /\ at' \in [Watcher -> Place] /\ at'[w] = place
      /\ \A v \in Watcher \ {w} : at'[v] = at[v]
  BY GotoEffect
<1>2. /\ frames' \in [Watcher -> Seq(Message)]
      /\ \A v \in Watcher \ {w} : frames'[v] = frames[v]
      /\ Len(frames[w]) \in Nat /\ Len(frames'[w]) = Len(frames[w]) + 1
      /\ \A i \in 1..Len(frames[w]) : frames'[w][i] = frames[w][i]
      /\ frames'[w][Len(frames[w]) + 1] = m
  BY EmitEffect
<1>3. WatchTypes'
  BY <1>1, <1>2 DEF WatchTypes, task
<1>4. OtherPumps(w)
  BY <1>1, <1>2 DEF OtherPumps
<1> DEFINE last == Len(frames[w]) + 1
<1>5. last \in 1..Len(frames'[w]) /\ \A i \in 1..Len(frames'[w]) : i = last \/ i \in 1..Len(frames[w])
  BY <1>2
<1>6. ASSUME w \notin Sse PROVE OneEndOf(w)'
  <2>1. \A i \in 1..Len(frames[w]) : ~IsTerminal(frames[w][i])
    BY <1>6 DEF WatchInv, OneEnd, OneEndOf
  <2>2. \A i \in 1..Len(frames[w]) : ~IsTerminal(frames'[w][i]) /\ i # last
    BY <1>2, <2>1
  <2>3. CASE IsTerminal(m)
    <3>1. \A j \in 1..Len(frames'[w]) : IsTerminal(frames'[w][j]) <=> j = last
      BY <1>2, <1>5, <2>2, <2>3
    <3>2. ~(Len(frames'[w]) > last)
      BY <1>2
    <3> HIDE DEF last
    <3>3. QED
      BY <1>1, <1>5, <1>6, <2>3, <3>1, <3>2 DEF OneEndOf
  <2>4. CASE ~IsTerminal(m)
    <3>1. \A i \in 1..Len(frames'[w]) : ~IsTerminal(frames'[w][i])
      BY <1>2, <1>5, <2>2, <2>4
    <3>2. QED
      BY <1>1, <1>6, <2>4, <3>1 DEF OneEndOf
  <2>5. QED
    BY <2>3, <2>4
<1>7. UNCHANGED <<rank, published, todo>>
  BY DEF task
<1>8. ASSUME m.rank = rank PROVE Sent(w)'
  <2>1. frames'[w][last].rank = rank'
    BY <1>2, <1>7, <1>8
  <2> HIDE DEF last
  <2>2. QED
    BY <1>5, <2>1 DEF Sent
<1>9. ASSUME Sent(w) PROVE Sent(w)'
  <2>1. PICK i \in 1..Len(frames[w]) : frames[w][i].rank = rank
    BY <1>9 DEF Sent
  <2>2. i \in 1..Len(frames'[w]) /\ frames'[w][i].rank = rank'
    BY <1>2, <1>7, <2>1
  <2>3. QED
    BY <2>2 DEF Sent
<1>10. OnItsWayTo(w)'
  <2> SUFFICES ASSUME place \in {"check", "follow"}, topics[w] = {}, asked[w] # "dropped",
                      m.rank # rank
               PROVE  Sent(w)' \/ Ahead(w)' \/ Promised'
    BY <1>1, <1>8 DEF OnItsWayTo
  <2>1. Sent(w) \/ Ahead(w) \/ Promised
    BY DEF WatchInv, OnItsWay, OnItsWayTo
  <2>2. CASE Ahead(w)
    <3>1. PICK j \in 1..Len(published) : j > cursor[w] /\ published[j].rank = rank
      BY <2>2 DEF Ahead
    <3>2. j > cursor'[w]
      BY <3>1
    <3>3. QED
      BY <1>7, <3>1, <3>2 DEF Ahead
  <2>3. CASE Promised
    BY <1>7, <2>3 DEF Promised
  <2>4. QED
    BY <1>9, <2>1, <2>2, <2>3
<1>11. QED
  BY <1>3, <1>4, <1>6, <1>10, OthersKeep

LEMMA FramePumpSteps ==
  ASSUME WatchInv, NEW w \in Watcher, SendState(w) \/ SendOutcome(w) \/ CheckEnd(w) \/ Follow(w)
  PROVE  WatchInv'
<1> WatchTypes /\ CursorsBehind /\ cursor[w] \in Nat /\ cursor[w] <= Len(published)
  BY DEF WatchInv, WatchTypes, CursorsBehind
<1>1. CASE SendState(w)
  <2>1. StateEvent(rank, end).rank = rank /\ ~IsTerminal(StateEvent(rank, end))
    BY DEF StateEvent, Msg, IsTerminal
  <2>2. at[w] = "state" /\ Emit(w, StateEvent(rank, end)) /\ Goto(w, "check")
        /\ UNCHANGED <<topics, asked>> /\ UNCHANGED task /\ behind' = behind /\ cursor' = cursor
    BY <1>1 DEF SendState
  <2>3. QED
    BY <2>1, <2>2, FrameKeeps, MessagesTyped DEF Place, WatchTypes
<1>2. CASE SendOutcome(w)
  <2>1. EndFrame(w).rank = rank
    BY DEF EndFrame, Msg
  <2>2. at[w] = "outcome" /\ Emit(w, EndFrame(w)) /\ Goto(w, "check")
        /\ UNCHANGED <<topics, asked>> /\ UNCHANGED task /\ behind' = behind /\ cursor' = cursor
    BY <1>2 DEF SendOutcome
  <2>3. w \in Sse
    BY <2>2 DEF WatchInv, OneEnd, OneEndOf
  <2>4. QED
    BY <2>1, <2>2, <2>3, FrameKeeps, MessagesTyped DEF Place, WatchTypes
<1>3. CASE CheckEnd(w)
  <2>1. at[w] = "check" /\ UNCHANGED <<topics, asked>> /\ UNCHANGED task /\ cursor' = cursor
    BY <1>3 DEF CheckEnd
  <2>2. \/ Goto(w, "follow") /\ behind' = [behind EXCEPT ![w] = FALSE] /\ frames' = frames
        \/ Emit(w, EndFrame(w)) /\ Goto(w, "ended") /\ behind' = behind
        \/ w \in Sse /\ Goto(w, "ended") /\ UNCHANGED <<behind, frames>>
    BY <1>3 DEF CheckEnd
  <2>3. IsTerminal(EndFrame(w))
    BY DEF EndFrame, Msg, IsTerminal
  <2>4. behind' \in [Watcher -> BOOLEAN] /\ cursor' \in [Watcher -> Nat]
        /\ cursor'[w] <= Len(published) /\ cursor'[w] = cursor[w]
        /\ \A v \in Watcher \ {w} : cursor'[v] = cursor[v]
    BY <2>1, <2>2 DEF WatchTypes
  <2>5. CASE Emit(w, EndFrame(w)) /\ Goto(w, "ended")
    BY <2>1, <2>3, <2>4, <2>5, FrameKeeps, MessagesTyped DEF Place
  <2>6. CASE Goto(w, "follow") /\ frames' = frames
    BY <2>1, <2>4, <2>6, QuietMoveKeeps DEF Place
  <2>7. CASE w \in Sse /\ Goto(w, "ended") /\ frames' = frames
    BY <2>1, <2>4, <2>7, QuietMoveKeeps DEF Place
  <2>8. QED
    BY <2>2, <2>5, <2>6, <2>7
<1>4. CASE Follow(w)
  <2> DEFINE m == published[cursor[w] + 1]
  <2>1. /\ at[w] = "follow" /\ cursor[w] < Len(published)
        /\ cursor' = [cursor EXCEPT ![w] = cursor[w] + 1]
        /\ UNCHANGED <<behind, topics, asked>> /\ UNCHANGED task
        /\ IF IsTerminal(m) \/ Accepts(topics[w], m) THEN Emit(w, m) ELSE UNCHANGED frames
        /\ IF IsTerminal(m) THEN Goto(w, "ended") ELSE UNCHANGED at
    BY <1>4 DEF Follow, WatchTypes
  <2>2. Len(published) \in Nat /\ m \in Message
    BY <2>1 DEF WatchTypes
  <2>3. /\ cursor' \in [Watcher -> Nat] /\ cursor'[w] = cursor[w] + 1
        /\ cursor'[w] <= Len(published) /\ \A v \in Watcher \ {w} : cursor'[v] = cursor[v]
    BY <2>1, <2>2 DEF WatchTypes
  <2>4. \A j \in 1..Len(published) : j > cursor[w] /\ ~(j > cursor'[w]) => m = published[j]
    BY <2>2, <2>3
  <2>5. UNCHANGED at => Goto(w, "follow")
    BY <2>1 DEF Goto, WatchTypes
  <2> HIDE DEF m
  <2>6. CASE IsTerminal(m)
    BY <2>1, <2>2, <2>3, <2>6, FrameKeeps DEF Place, WatchTypes
  <2>7. CASE ~IsTerminal(m) /\ Accepts(topics[w], m)
    BY <2>1, <2>2, <2>3, <2>4, <2>5, <2>7, FrameKeeps DEF Place, WatchTypes
  <2>8. CASE ~IsTerminal(m) /\ ~Accepts(topics[w], m)
    <3>1. topics[w] # {} /\ frames' = frames /\ at' = at
      BY <2>1, <2>8 DEF Accepts
    <3>2. WatchTypes' /\ OtherPumps(w)
      BY <2>1, <2>3, <3>1 DEF WatchTypes, OtherPumps, task
    <3>3. w \notin Sse => OneEndOf(w)'
      BY <2>1, <3>1 DEF WatchInv, OneEnd, OneEndOf
    <3>4. OnItsWayTo(w)'
      BY <2>1, <3>1 DEF OnItsWayTo
    <3>5. QED
      BY <2>3, <3>2, <3>3, <3>4, OthersKeep
  <2>9. QED
    BY <2>6, <2>7, <2>8
<1>5. QED
  BY <1>1, <1>2, <1>3, <1>4

(* The answer to a change of filter is a state, sent or dropped.           *)
LEMMA ResubscribeKeeps ==
  ASSUME WatchInv, NEW w \in Watcher, Resubscribe(w)
  PROVE  WatchInv'
<1> WatchTypes
  BY DEF WatchInv
<1>1. /\ w \notin Sse /\ at[w] \in {"state", "check", "follow", "ended"} /\ asked[w] = "no"
      /\ UNCHANGED <<at, behind, cursor>> /\ UNCHANGED task
  BY DEF Resubscribe
<1>2. PICK filter \in SUBSET Topic : topics' = [topics EXCEPT ![w] = filter]
  BY FilterAssumption DEF Resubscribe
<1>3. cursor'[w] <= Len(published)
  BY <1>1 DEF WatchInv, CursorsBehind
<1>4. CASE frames' = frames /\ asked' = [asked EXCEPT ![w] = "dropped"]
  <2>1. WatchTypes' /\ OtherPumps(w) /\ asked'[w] = "dropped"
    BY <1>1, <1>2, <1>4 DEF WatchTypes, OtherPumps, task
  <2>2. OneEndOf(w)'
    BY <1>1, <1>4 DEF WatchInv, OneEnd, OneEndOf
  <2>3. OnItsWayTo(w)'
    BY <2>1 DEF OnItsWayTo
  <2>4. QED
    BY <1>3, <2>1, <2>2, <2>3, OthersKeep
<1>5. CASE Emit(w, StateEvent(rank, end)) /\ asked' = [asked EXCEPT ![w] = "answered"]
  <2> DEFINE m == StateEvent(rank, end)
             last == Len(frames[w]) + 1
  <2>1. m \in Message /\ m.rank = rank /\ ~IsTerminal(m)
    BY MessagesTyped DEF StateEvent, Msg, IsTerminal
  <2>2. /\ frames' \in [Watcher -> Seq(Message)]
        /\ \A v \in Watcher \ {w} : frames'[v] = frames[v]
        /\ Len(frames[w]) \in Nat /\ Len(frames'[w]) = Len(frames[w]) + 1
        /\ \A i \in 1..Len(frames[w]) : frames'[w][i] = frames[w][i]
        /\ frames'[w][last] = m
    BY <1>5, <2>1, EmitEffect
  <2> HIDE DEF m
  <2>3. WatchTypes' /\ OtherPumps(w) /\ asked'[w] = "answered"
    BY <1>1, <1>2, <1>5, <2>2 DEF WatchTypes, OtherPumps, task
  <2>4. /\ last \in 1..Len(frames'[w])
        /\ \A i \in 1..Len(frames'[w]) : i = last \/ i \in 1..Len(frames[w])
        /\ ~IsTerminal(frames'[w][last])
        /\ \A i \in 1..Len(frames[w]) : i \in 1..Len(frames'[w])
    BY <2>1, <2>2
  <2>5. ASSUME at[w] = "ended"
        PROVE  \E i \in 1..Len(frames'[w]) :
                 /\ \A j \in 1..Len(frames'[w]) : IsTerminal(frames'[w][j]) <=> j = i
                 /\ Len(frames'[w]) > i => Len(frames'[w]) = i + 1 /\ asked'[w] = "answered"
    <3>1. PICK i \in 1..Len(frames[w]) :
            /\ \A j \in 1..Len(frames[w]) : IsTerminal(frames[w][j]) <=> j = i
            /\ Len(frames[w]) > i => asked[w] = "answered"
      BY <1>1, <2>5 DEF WatchInv, OneEnd, OneEndOf
    <3>2. Len(frames[w]) = i
      BY <1>1, <2>2, <3>1
    <3>3. \A j \in 1..Len(frames'[w]) : IsTerminal(frames'[w][j]) <=> j = i
      BY <2>2, <2>4, <3>1, <3>2
    <3>4. QED
      BY <2>2, <2>3, <2>4, <3>2, <3>3
  <2>6. at[w] # "ended" => \A i \in 1..Len(frames'[w]) : ~IsTerminal(frames'[w][i])
    BY <1>1, <2>2, <2>4 DEF WatchInv, OneEnd, OneEndOf
  <2>7. OneEndOf(w)'
    BY <1>1, <2>5, <2>6 DEF OneEndOf
  <2>8. frames'[w][last].rank = rank'
    BY <1>1, <2>1, <2>2 DEF task
  <2>9. Sent(w)'
    BY <2>4, <2>8 DEF Sent
  <2>10. QED
    BY <1>3, <2>3, <2>7, <2>9, OthersKeep DEF OnItsWayTo
<1>6. QED
  BY <1>4, <1>5 DEF Resubscribe

-------------------------------------------------------------------------------
(* The invariant.                                                          *)

LEMMA BeginKeeps ==
  ASSUME WatchInv, Begin
  PROVE  WatchInv'
<1>1. /\ todo = <<>> /\ todo' \in Seq(Op) /\ logs' \in 0..MaxLogs /\ TransitionSound'
      /\ UNCHANGED <<rank, end, published, at, behind, cursor, topics, frames, asked>>
  BY BeginEffect DEF WatchInv
<1>2. WatchTypes' /\ CursorsBehind' /\ OneEnd'
  BY <1>1 DEF WatchInv, WatchTypes, CursorsBehind, OneEnd, OneEndOf
<1>3. ~Promised
  BY <1>1 DEF Promised
<1>4. ASSUME NEW w \in Watcher PROVE OnItsWayTo(w)'
  BY <1>1, <1>3 DEF WatchInv, OnItsWay, OnItsWayTo, Sent, Ahead
<1>5. QED
  BY <1>1, <1>2, <1>4 DEF WatchInv, OnItsWay

LEMMA WorkKeeps ==
  ASSUME WatchInv, Work
  PROVE  WatchInv'
<1>1. /\ todo' \in Seq(Op) /\ rank' \in Nat /\ end' \in {"no"} \cup Ends
      /\ published' \in Seq(Message) /\ TransitionSound'
      /\ UNCHANGED <<logs, at, behind, cursor, topics, frames, asked>>
      /\ \/ published' = published /\ Promised'
         \/ /\ rank' = rank /\ todo[1].op = "send"
            /\ published' = Append(published, todo[1].msg)
            /\ Len(todo) \in Nat /\ Len(todo') = Len(todo) - 1
            /\ \A k \in 1..Len(todo') : todo'[k] = todo[k + 1]
  BY WorkEffect DEF WatchInv
<1>2. WatchTypes' /\ OneEnd'
  BY <1>1 DEF WatchInv, WatchTypes, OneEnd, OneEndOf
<1>3. CASE published' = published /\ Promised'
  BY <1>1, <1>2, <1>3 DEF WatchInv, CursorsBehind, OnItsWay, OnItsWayTo
<1>4. CASE /\ rank' = rank /\ todo[1].op = "send"
           /\ published' = Append(published, todo[1].msg)
           /\ Len(todo) \in Nat /\ Len(todo') = Len(todo) - 1
           /\ \A k \in 1..Len(todo') : todo'[k] = todo[k + 1]
  <2> DEFINE new == Len(published) + 1
  <2>1. /\ Len(published) \in Nat /\ Len(published') = new
        /\ \A j \in 1..Len(published) : published'[j] = published[j]
        /\ published'[new] = todo[1].msg
    BY <1>4 DEF WatchInv, WatchTypes
  <2>2. \A w \in Watcher : cursor[w] \in Nat /\ cursor[w] <= Len(published)
    BY DEF WatchInv, WatchTypes, CursorsBehind
  <2>3. CursorsBehind'
    BY <1>1, <2>1, <2>2 DEF CursorsBehind
  <2>4. ASSUME NEW w \in Watcher PROVE OnItsWayTo(w)'
    <3> SUFFICES ASSUME at[w] \in {"check", "follow"}, topics[w] = {}, asked[w] # "dropped"
                 PROVE  Sent(w)' \/ Ahead(w)' \/ Promised'
      BY <1>1 DEF OnItsWayTo
    <3>1. Sent(w) \/ Ahead(w) \/ Promised
      BY DEF WatchInv, OnItsWay, OnItsWayTo
    <3>2. CASE Sent(w)
      BY <1>1, <1>4, <3>2 DEF Sent
    <3>3. CASE Ahead(w)
      <4>1. PICK j \in 1..Len(published) : j > cursor[w] /\ published[j].rank = rank
        BY <3>3 DEF Ahead
      <4>2. j \in 1..Len(published') /\ j > cursor'[w] /\ published'[j].rank = rank'
        BY <1>1, <1>4, <2>1, <4>1
      <4>3. QED
        BY <4>2 DEF Ahead
    <3>4. CASE Promised
      <4>1. PICK k \in 1..Len(todo) : todo[k].op = "send" /\ todo[k].msg.rank = rank
        BY <3>4 DEF Promised
      <4>2. CASE k = 1
        <5>1. new \in 1..Len(published') /\ new > cursor'[w] /\ published'[new].rank = rank'
          BY <1>1, <1>4, <2>1, <2>2, <4>1, <4>2
        <5> HIDE DEF new
        <5>2. QED
          BY <5>1 DEF Ahead
      <4>3. CASE k # 1
        <5>1. k - 1 \in 1..Len(todo') /\ todo'[k - 1] = todo[k]
          BY <1>4, <4>1, <4>3
        <5>2. QED
          BY <1>4, <4>1, <5>1 DEF Promised
      <4>4. QED
        BY <4>2, <4>3
    <3>5. QED
      BY <3>1, <3>2, <3>3, <3>4
  <2>5. QED
    BY <1>1, <1>2, <2>3, <2>4 DEF WatchInv, OnItsWay
<1>5. QED
  BY <1>1, <1>3, <1>4

LEMMA InitWatchInv == Init => WatchInv
<1> SUFFICES ASSUME Init PROVE WatchInv
  OBVIOUS
<1>1. WatchTypes /\ CursorsBehind
  BY WatchAssumption DEF Init, WatchTypes, CursorsBehind, Place
<1>2. TransitionSound
  BY WatchAssumption DEF Init, TransitionSound
<1>3. OneEnd
  BY DEF Init, OneEnd, OneEndOf
<1>4. OnItsWay
  BY DEF Init, OnItsWay, OnItsWayTo
<1>5. QED
  BY <1>1, <1>2, <1>3, <1>4 DEF WatchInv

LEMMA NextWatchInv == WatchInv /\ [Next]_vars => WatchInv'
<1> SUFFICES ASSUME WatchInv, [Next]_vars PROVE WatchInv'
  OBVIOUS
<1>1. CASE UNCHANGED vars
  BY <1>1 DEF vars, task, pumps, WatchInv, WatchTypes, CursorsBehind, TransitionSound, OneEnd,
              OneEndOf, OnItsWay, OnItsWayTo, Sent, Ahead, Promised
<1>2. CASE Begin
  BY <1>2, BeginKeeps
<1>3. CASE Work
  BY <1>3, WorkKeeps
<1>4. ASSUME NEW w \in Watcher, Subscribe(w) \/ Pump(w) \/ Resubscribe(w) \/ Leave(w)
      PROVE  WatchInv'
  BY <1>4, SubscribeKeeps, QuietPumpSteps, FramePumpSteps, ResubscribeKeeps DEF Pump
<1>5. QED
  BY <1>1, <1>2, <1>3, <1>4 DEF Next

(* The inductive invariant holds of the specification.                     *)
THEOREM WatchInvariant == Spec => []WatchInv
<1>1. QED
  BY InitWatchInv, NextWatchInv, PTL DEF Spec

(* Type correctness: no cursor runs past the channel, and the state of a   *)
(* task takes no more steps than its stages.                               *)
THEOREM WatchTypesCorrect == Spec => []TypeOK
<1>1. WatchInv => TypeOK
  <2> SUFFICES ASSUME WatchInv PROVE TypeOK
    OBVIOUS
  <2>1. rank \in 0..(MaxStages + 2)
    BY WatchAssumption DEF WatchInv, WatchTypes, TransitionSound
  <2>2. \A i \in DOMAIN published : published[i] \in Message
    BY DEF WatchInv, WatchTypes
  <2>3. ASSUME NEW w \in Watcher
        PROVE  /\ cursor[w] \in 0..Len(published)
               /\ \A i \in DOMAIN frames[w] : frames[w][i] \in Message
    <3>1. frames[w] \in Seq(Message) /\ cursor[w] \in Nat /\ cursor[w] <= Len(published)
          /\ Len(published) \in Nat
      BY DEF WatchInv, WatchTypes, CursorsBehind
    <3>2. QED
      BY <3>1
  <2>4. QED
    BY <2>1, <2>2, <2>3 DEF WatchInv, WatchTypes, Place, TypeOK
<1>2. QED
  BY <1>1, WatchInvariant, PTL

(* Every WebSocket and gRPC client is told exactly once how its task       *)
(* ended, and a client that has read everything knows the present stage,   *)
(* for any backlog, any filters and any number of clients.                 *)
THEOREM EveryClientIsTold == Spec => []ClientsAreTold
<1>1. WatchInv => TerminalExactlyOnce
  <2> SUFFICES ASSUME WatchInv, NEW w \in Watcher \ Sse
               PROVE  /\ at[w] \notin {"ended", "gone"} => TerminalFrames(w) = {}
                      /\ at[w] = "ended" =>
                           \E i \in DOMAIN frames[w] :
                             /\ TerminalFrames(w) = {i}
                             /\ Len(frames[w]) > i => Len(frames[w]) = i + 1 /\ asked[w] = "answered"
    BY DEF TerminalExactlyOnce
  <2>1. DOMAIN frames[w] = 1..Len(frames[w])
    BY DEF WatchInv, WatchTypes
  <2>2. OneEndOf(w)
    BY DEF WatchInv, OneEnd
  <2>3. CASE at[w] \notin {"ended", "gone"}
    BY <2>1, <2>2, <2>3 DEF OneEndOf, TerminalFrames
  <2>4. CASE at[w] = "ended"
    <3>1. PICK i \in DOMAIN frames[w] :
            /\ \A j \in DOMAIN frames[w] : IsTerminal(frames[w][j]) <=> j = i
            /\ Len(frames[w]) > i => Len(frames[w]) = i + 1 /\ asked[w] = "answered"
      BY <2>1, <2>2, <2>4 DEF OneEndOf
    <3>2. TerminalFrames(w) = {i}
      BY <3>1 DEF TerminalFrames
    <3>3. QED
      BY <2>4, <3>1, <3>2
  <2>5. QED
    BY <2>3, <2>4
<1>2. WatchInv => DrainedClientIsCurrent
  <2> SUFFICES ASSUME WatchInv, NEW w \in Watcher, at[w] = "follow",
                      cursor[w] = Len(published), todo = <<>>, topics[w] = {},
                      asked[w] # "dropped"
               PROVE  \E i \in DOMAIN frames[w] : frames[w][i].rank = rank
    BY DEF DrainedClientIsCurrent
  <2>1. ~Promised /\ ~Ahead(w)
    BY DEF Promised, Ahead, WatchInv, WatchTypes
  <2>2. Sent(w)
    BY <2>1 DEF WatchInv, OnItsWay, OnItsWayTo
  <2>3. DOMAIN frames[w] = 1..Len(frames[w])
    BY DEF WatchInv, WatchTypes
  <2>4. QED
    BY <2>2, <2>3 DEF Sent
<1>3. QED
  BY <1>1, <1>2, WatchInvariant, PTL DEF ClientsAreTold
==============================================================================
