---------------------------- MODULE SampleSocket -----------------------------
(***************************************************************************)
(* Fetching samples over the socket of a task: the client's `JobSocket`    *)
(* (web/src/api/ws.ts), the server's session (facade/ws.rs) and the        *)
(* connection between them, for one sample channel.                        *)
(*                                                                         *)
(* The server answers one fetch with several chunk frames; the client puts *)
(* them together and settles the promise of the fetch.  The session is one *)
(* task that both handles what arrives and drains the queue of what leaves *)
(* (`out`), so a frame it queues while it handles is only kept if there is *)
(* room.  A lost connection cuts what is under way in both directions; the *)
(* client opens another until its retries are spent.                       *)
(*                                                                         *)
(* The streams `up` and `down` of a connection are in order and without a  *)
(* limit of their own.  Sample i of the channel is the number i.           *)
(***************************************************************************)
EXTENDS Integers, FiniteSets, SequencesExt

CONSTANTS Fetch,          \* requests [offset, limit] the client may make, once each
          Total,          \* samples in the channel
          FrameSamples,   \* simulation.stream_frame_samples
          PageCap,        \* http.max_page_size of the server
          ClientCap,      \* MAX_PAGE_LIMIT of the client
          QueueCap,       \* OUTGOING_QUEUE
          MaxRetries,     \* JobSocketOptions.maxRetries
          MaxBreaks,      \* bound: connections lost
          MaxEvents       \* bound: progress events per connection

ASSUME SocketAssumption ==
  /\ IsFiniteSet(Fetch) /\ Fetch \subseteq [offset : Nat, limit : Nat]
  /\ FrameSamples \in Nat \ {0} /\ QueueCap \in Nat \ {0}
  /\ {Total, PageCap, ClientCap, MaxRetries, MaxBreaks, MaxEvents} \subseteq Nat

VARIABLES result,     \* the task's: "none" yet, "held" or "evicted"
          session,    \* the server's session: "none", "serving", or "waiting"
          out,        \* its outgoing queue
          told,       \* progress events of this session, and its terminal event
          link,       \* the connection: "opening", "open", "broken", "idle"
          up, down,   \* frames under way
          connected,  \* JobSocket.connected
          closed,     \* JobSocket.closed
          attempt,    \* JobSocket.attempt
          delivered,  \* JobSocket.delivered
          queue,      \* JobSocket.queue
          pending,    \* JobSocket.pending, in order of insertion
          status,     \* what became of the promise of each fetch
          got,        \* the items it resolved with
          breaks,     \* connections lost so far
          lost,       \* history: a frame was dropped or cut off
          refused,    \* history: fetches that were answered with an error
          fruitless   \* history: connections in a row that delivered nothing

server  == <<result, session, out, told>>
client  == <<connected, closed, attempt, delivered, queue, pending, status, got>>
history == <<breaks, lost, refused, fruitless>>
vars    == <<server, link, up, down, client, history>>

Least(a, b) == IF a < b THEN a ELSE b

-----------------------------------------------------------------------------
(* Frames. *)

Chunk(offset, count) == [kind |-> "chunk", offset |-> offset, count |-> count]
Plain(kind)          == [kind |-> kind, offset |-> 0, count |-> 0]

(* What `truth_page` or `sensor_page` finds from `start` on. *)
Available(start, take) == IF start >= Total THEN 0 ELSE Least(take, Total - start)

Bug_Reply(f) ==
  LET wanted == Least(f.limit, PageCap)
      n == (wanted + FrameSamples - 1) \div FrameSamples
  IN  [k \in 1..n |-> Chunk(f.offset, Available(f.offset + (k - 1) * FrameSamples, FrameSamples))]

(* The frames of one answer: a first one in any case, and another as long  *)
(* as samples are wanted and the one before was inside the channel.        *)
Reply(f) ==
  LET wanted == Least(f.limit, PageCap)
      n == Cardinality({k \in 0..wanted :
             k = 0 \/ (k * FrameSamples < wanted /\ f.offset + (k - 1) * FrameSamples < Total)})
      Sent(k) == (k - 1) * FrameSamples
  IN  [k \in 1..n |-> Chunk(f.offset + Sent(k),
                            Available(f.offset + Sent(k), Least(wanted - Sent(k), FrameSamples)))]

(* A socket that was closed before it connected does nothing more.         *)
Connection(over) ==
  /\ result = "none"
  /\ session = "none" /\ out = <<>> /\ told = <<0, FALSE>>
  /\ link = "opening" /\ up = <<>> /\ down = <<>>
  /\ connected = FALSE /\ closed = over /\ attempt = 0 /\ delivered = FALSE
  /\ queue = <<>> /\ pending = <<>>
  /\ status = [f \in Fetch |-> "idle"]
  /\ got    = [f \in Fetch |-> <<>>]
  /\ breaks = 0 /\ lost = FALSE /\ refused = {} /\ fruitless = 0

Init == Connection(FALSE)

-----------------------------------------------------------------------------
(* The server. *)

(* The task succeeds; the admission of another drops the result later.     *)
TaskMoves ==
  /\ \/ result = "none" /\ result' = "held"
     \/ result = "held" /\ result' = "evicted"
  /\ UNCHANGED <<session, out, told, link, up, down, client, history>>

(* `send_now`: what does not fit is dropped. *)
SendNow(frames) ==
  LET room == Least(Len(frames), QueueCap - Len(out))
  IN  /\ out' = out \o SubSeq(frames, 1, room)
      /\ lost' = (lost \/ room < Len(frames))
      /\ UNCHANGED session

(* `send_error` waits for room, which only this session makes.             *)
SendError ==
  /\ IF Len(out) < QueueCap
     THEN out' = Append(out, Plain("error")) /\ UNCHANGED session
     ELSE session' = "waiting" /\ UNCHANGED out
  /\ UNCHANGED lost

(* `handle_text`: a fetch of a task that has no result, or has it no       *)
(* longer, is an error, for the session and not for the fetch.             *)
Handle ==
  /\ session = "serving" /\ up # <<>>
  /\ up' = Tail(up)
  /\ LET m == Head(up)
     IN  \/ m.kind = "fetch" /\ result = "held" /\ SendNow(Reply(m.fetch)) /\ UNCHANGED refused
         \/ m.kind = "fetch" /\ result # "held" /\ SendError /\ refused' = refused \cup {m.fetch}
         \/ m.kind = "subscribe" /\ SendNow(<<Plain("event")>>) /\ UNCHANGED refused
  /\ UNCHANGED <<result, told, link, down, client, breaks, fruitless>>

Drain ==
  /\ session = "serving" /\ out # <<>>
  /\ down' = Append(down, Head(out))
  /\ out' = Tail(out)
  /\ UNCHANGED <<result, session, told, link, up, client, history>>

(* `forward_events`, a task of its own: it may wait for room.              *)
Pump ==
  /\ session # "none" /\ Len(out) < QueueCap /\ ~told[2]
  /\ \/ /\ told[1] < MaxEvents
        /\ out' = Append(out, Plain("event"))
        /\ told' = [told EXCEPT ![1] = @ + 1]
     \/ /\ result # "none"
        /\ out' = Append(out, Plain("done"))
        /\ told' = [told EXCEPT ![2] = TRUE]
  /\ UNCHANGED <<result, session, link, up, down, client, history>>

-----------------------------------------------------------------------------
(* The connection. *)

(* The open handler subscribes and flushes what was queued meanwhile.      *)
Open ==
  /\ link = "opening" /\ ~closed
  /\ link' = "open" /\ session' = "serving" /\ out' = <<>> /\ told' = <<0, FALSE>>
  /\ connected' = TRUE
  /\ up' = <<[kind |-> "subscribe"]>> \o queue
  /\ queue' = <<>>
  /\ UNCHANGED <<result, down, closed, attempt, delivered, pending, status, got, history>>

(* The connection fails to open, or is lost: what the server has not sent  *)
(* yet and any number of the frames under way are gone.                    *)
Break ==
  /\ link \in {"opening", "open"} /\ ~closed
  /\ breaks < MaxBreaks
  /\ breaks' = breaks + 1
  /\ link' = "broken" /\ session' = "none" /\ out' = <<>> /\ up' = <<>>
  /\ \E n \in 0..Len(down) : down' = SubSeq(down, 1, n)
  /\ lost' = (lost \/ pending # <<>>)
  /\ UNCHANGED <<result, told, client, refused, fruitless>>

-----------------------------------------------------------------------------
(* The client. *)

(* The session is over: `close` rejects what it still owes.                *)
Bug_Abandon ==
  /\ closed' = TRUE /\ link' = "idle"
  /\ up' = <<>> /\ down' = <<>> /\ session' = "none" /\ out' = <<>>
  /\ UNCHANGED <<status, pending>>

Abandon ==
  /\ closed' = TRUE /\ link' = "idle"
  /\ up' = <<>> /\ down' = <<>> /\ session' = "none" /\ out' = <<>>
  /\ status' = [f \in Fetch |-> IF status[f] = "pending" THEN "rejected" ELSE status[f]]
  /\ pending' = <<>>

Close ==
  /\ ~closed
  /\ Abandon
  /\ UNCHANGED <<result, told, connected, attempt, delivered, queue, got, history>>

(* A closed session rejects; so does a second fetch at the same offset.    *)
Request(f) ==
  /\ status[f] = "idle"
  /\ IF closed \/ \E k \in DOMAIN pending : pending[k].fetch.offset = f.offset
     THEN /\ status' = [status EXCEPT ![f] = "rejected"]
          /\ UNCHANGED <<pending, queue, up, lost>>
     ELSE /\ status' = [status EXCEPT ![f] = "pending"]
          /\ pending' = Append(pending, [fetch |-> f, items |-> <<>>, next |-> f.offset,
                                         frameSize |-> 0])
          /\ LET m == [kind |-> "fetch", fetch |-> f]
             IN  /\ queue' = IF connected THEN queue ELSE Append(queue, m)
                 /\ up'    = IF connected /\ link = "open" THEN Append(up, m) ELSE up
                 /\ lost'  = (lost \/ (connected /\ link # "open"))
  /\ UNCHANGED <<server, link, down, connected, closed, attempt, delivered, got, breaks, refused, fruitless>>

(* `findPending`: a frame goes to the first entry that ends where it       *)
(* starts.                                                                 *)
Answers(entry, chunk) == entry.next = chunk.offset

(* `acceptChunk` up to the decision.  The first frame with items sets the  *)
(* frame size of the reply.                                                *)
Extend(entry, chunk) ==
  [entry EXCEPT !.items = @ \o [k \in 1..chunk.count |-> chunk.offset + k - 1],
                !.next = chunk.offset + chunk.count,
                !.frameSize = IF @ = 0 THEN chunk.count ELSE @]

(* This server reports the length of the channel in every frame.           *)
ReplyComplete(entry, count) ==
  \/ count = 0 \/ count < entry.frameSize
  \/ Len(entry.items) >= Least(entry.fetch.limit, ClientCap)
  \/ entry.next >= Total

AcceptChunk(chunk) ==
  LET answered == {k \in DOMAIN pending : Answers(pending[k], chunk)}
  IN  IF answered = {} THEN UNCHANGED <<pending, status, got>>
      ELSE LET k == CHOOSE i \in answered : \A j \in answered : i <= j
               entry == Extend(pending[k], chunk)
           IN  IF ReplyComplete(entry, chunk.count)
               THEN /\ pending' = RemoveAt(pending, k)
                    /\ status' = [status EXCEPT ![entry.fetch] = "resolved"]
                    /\ got' = [got EXCEPT ![entry.fetch] = entry.items]
               ELSE /\ pending' = [pending EXCEPT ![k] = entry]
                    /\ UNCHANGED <<status, got>>

(* The message handler.  An error frame is an event like the others: no    *)
(* promise hears of it.                                                    *)
Receive ==
  /\ ~closed /\ down # <<>>
  /\ down' = Tail(down)
  /\ delivered' = TRUE
  /\ attempt' = IF delivered THEN attempt ELSE 0
  /\ fruitless' = 0
  /\ IF Head(down).kind = "chunk" THEN AcceptChunk(Head(down))
     ELSE UNCHANGED <<pending, status, got>>
  /\ UNCHANGED <<server, link, up, connected, closed, queue, breaks, lost, refused>>

(* The close handler and `reconnect`.  It runs after the last message.     *)
Reconnect ==
  /\ link = "broken" /\ down = <<>>
  /\ connected' = FALSE
  /\ fruitless' = IF delivered THEN 0 ELSE fruitless + 1
  /\ IF attempt >= MaxRetries
     THEN Abandon /\ UNCHANGED attempt
     ELSE /\ attempt' = attempt + 1
          /\ link' = "idle"
          /\ UNCHANGED <<closed, up, down, session, out, status, pending>>
  /\ UNCHANGED <<result, told, delivered, queue, got, breaks, lost, refused>>

(* The scheduled `open`. *)
Reopen ==
  /\ link = "idle" /\ ~closed
  /\ link' = "opening"
  /\ delivered' = FALSE
  /\ UNCHANGED <<server, up, down, connected, closed, attempt, queue, pending, status, got, history>>

Serve == Handle \/ Drain \/ Pump

Next ==
  \/ TaskMoves \/ Serve \/ Open \/ Break \/ Close \/ Receive \/ Reconnect \/ Reopen
  \/ \E f \in Fetch : Request(f)

Spec == Init /\ [][Next]_vars

(* The runtime runs both ends and the network delivers; tasks end, clients *)
(* ask and close, and connections break, when they like.                   *)
SocketFairness ==
  /\ WF_vars(Handle) /\ WF_vars(Drain)
  /\ WF_vars(Open) /\ WF_vars(Receive) /\ WF_vars(Reconnect) /\ WF_vars(Reopen)

FairSpec == Spec /\ SocketFairness

-----------------------------------------------------------------------------
(* Properties. *)

TypeOK ==
  /\ result \in {"none", "held", "evicted"} /\ session \in {"none", "serving", "waiting"}
  /\ Len(out) <= QueueCap /\ told \in (0..MaxEvents) \X BOOLEAN
  /\ link \in {"opening", "open", "broken", "idle"}
  /\ {connected, closed, delivered, lost} \subseteq BOOLEAN
  /\ attempt \in 0..MaxRetries /\ breaks \in 0..MaxBreaks /\ fruitless \in Nat
  /\ status \in [Fetch -> {"idle", "pending", "resolved", "rejected"}]
  /\ \A f \in Fetch : status[f] = "pending" <=>
       \E k \in DOMAIN pending : pending[k].fetch = f

(* The samples a fetch asked for. *)
Slice(f) ==
  LET n == Available(f.offset, Least(f.limit, ClientCap))
  IN  [k \in 1..n |-> f.offset + k - 1]

(* A promise never resolves with a hole: its items follow each other from *)
(* the offset asked for, through lost frames and reconnects.  And whatever *)
(* is asked at once, however the frames of the replies mix on the shared   *)
(* connection, they are exactly the slice asked for, as long as no frame   *)
(* was lost and no fetch was answered with an error.                       *)
ResolvedInOrder ==
  \A f \in Fetch :
    /\ \A k \in DOMAIN got[f] : got[f][k] = f.offset + k - 1
    /\ (status[f] = "resolved" /\ ~lost /\ refused = {}) => got[f] = Slice(f)

(* A closed session owes nothing, whether it was closed by its user or     *)
(* gave up.                                                                *)
ClosedOwesNothing == closed => pending = <<>> /\ \A f \in Fetch : status[f] # "pending"

(* An endpoint that accepts connections and drops them is given up on: the *)
(* budget is only renewed by a frame, never by a connection that opened.   *)
RetryBudget == fruitless <= MaxRetries + 1

(* The session ends in time, and with nothing open.                        *)
SocketEndsCleanly == ClosedOwesNothing /\ RetryBudget

(* A fetch ends with its whole slice or is told that it does not.          *)
FetchesEndWhole == ResolvedInOrder /\ SocketEndsCleanly

(* Every fetch has settled, whatever else shares the connection, unless    *)
(* one was answered with an error or a frame was lost.                     *)
SocketAtRest == refused # {} \/ lost \/ \A f \in Fetch : status[f] # "pending"

-----------------------------------------------------------------------------
(* What comments say, and the code does not do. *)

(* "The socket owner drains this channel, so a send that waited could      *)
(* deadlock against it" (send_now): `send_error` does wait.                *)
DrainerNeverWaits == session # "waiting"

(* "`items` is the requested slice and never its first frame"              *)
(* (JobSocket.fetch): a fetch that was answered with an error stays        *)
(* pending, and takes a frame of the next fetch that covers its offset.    *)
FetchIsTheSlice ==
  \A f \in Fetch : status[f] = "resolved" => got[f] = Slice(f)
=============================================================================
