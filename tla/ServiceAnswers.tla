---------------------------- MODULE ServiceAnswers -----------------------------
(***************************************************************************)
(* What the two doors of the service answer: HTTP (crates/service/src/api) *)
(* and gRPC (facade/rpc.rs).                                               *)
(*                                                                         *)
(* A handler is a sequence of checks.  The first that fails ends the call  *)
(* with the kind of error it stands for (error.rs); after the last one the *)
(* call is answered "ok" and has its effect.  The checks that are the same *)
(* for both doors are written once, where the code has one builder for     *)
(* both.                                                                   *)
(*                                                                         *)
(* Between two checks of a call the workers and the other calls go on: a   *)
(* task that was found may end, lose its outcome, or fall out of the table *)
(* before the call looks at it again.  What a call has found it keeps, an  *)
(* Arc of the task or of the map's entry.                                  *)
(*                                                                         *)
(* One map is in view, the one every call names; and a client that pages   *)
(* through a task list.                                                    *)
(***************************************************************************)
EXTENDS Naturals, Sequences, FiniteSets, SequencesExt

CONSTANTS Caller,        \* calls that may be in progress at one time
          Asks,          \* [door, op] that they make
          MaxTickets,    \* bound: submissions that are admitted
          MaxCalls,      \* bound: calls that are made
          Room,          \* max_concurrent + queue_capacity
          KeepResults,   \* simulation.keep_results
          KeepTasks,     \* TaskRegistry.keep_tasks
          PageSize       \* of the client that pages

ASSUME AnswersAssumption ==
  /\ MaxTickets \in Nat /\ MaxCalls \in Nat
  /\ Room \in Nat \ {0} /\ KeepResults \in Nat \ {0} /\ PageSize \in Nat \ {0}
  /\ KeepTasks \in Nat /\ Room <= KeepTasks

VARIABLES
  table,     \* TaskRegistry.tasks, oldest first; a ticket is its rank of admission
  sort,      \* of the tickets so far: "run" or "plan"
  life,      \* Task::state, cancelled and failed taken together as "failed"
  flagged,   \* tickets whose cancellation was asked for
  kept,      \* tickets that hold their outcome
  library,   \* the map: [file, cached, flaw], see below
  calls,     \* caller -> the call in progress or its answer
  spent,     \* calls made so far
  reached,   \* history: ticket -> the latest stage its readers were told
  sweep      \* the client that pages: [only, offset, seen, stayed, done]

answerVars == <<table, sort, life, flagged, kept, library, calls, spent, reached, sweep>>

-----------------------------------------------------------------------------
(* Errors. *)

(* The kind a failed check is answered with (ServiceError::kind,           *)
(* map_kind).                                                              *)
KindOf(check) ==
  CASE check \in {"shape", "values", "empty", "image", "query", "format", "channel",
                  "points", "script", "cells", "loads", "readable"}           -> "invalid"
    [] check = "size"                                              -> "too_large"
    [] check \in {"known", "stored", "listed", "layer", "chunk", "batch"}    -> "not_found"
    [] check \in {"ended", "live", "asked", "held", "base"}        -> "conflict"
    [] check \in {"kept", "paged", "fresh", "patchable"}           -> "unsupported"
    [] check = "room"                                              -> "busy"
    [] check \in {"reads", "opens", "intact"}                      -> "internal"

HttpStatus(kind) ==
  CASE kind = "invalid" -> 400 [] kind = "not_found" -> 404 [] kind = "conflict" -> 409
    [] kind = "too_large" -> 413 [] kind = "unsupported" -> 415 [] kind = "busy" -> 503
    [] kind = "internal" -> 500

GrpcCode(kind) ==
  CASE kind = "invalid" -> "InvalidArgument" [] kind = "not_found" -> "NotFound"
    [] kind = "conflict" -> "FailedPrecondition" [] kind = "too_large" -> "ResourceExhausted"
    [] kind = "unsupported" -> "Unimplemented" [] kind = "busy" -> "Unavailable"
    [] kind = "internal" -> "Internal"

-----------------------------------------------------------------------------
(* The builders both doors call. *)

(* MapStore::get, then entry.open().  The disk store reads and parses a    *)
(* file it does not hold; the file may be gone once it was found.          *)
Lookup == <<"stored", "reads", "loads">>
OpenMap == Lookup \o <<"opens">>

MetadataDto == <<"readable">>
GridDto == <<"layer">>
ChunkDto == <<"layer", "cells", "fresh", "intact", "chunk">>
Section == <<"readable">>
PrmSection == <<"fresh", "batch", "readable">>
AddImage == <<"empty", "image">>
ApplyEdit == <<"image", "script", "patchable">>
ValidateRequest == <<"values">>

(* submit_simulation and submit_planning: resolve_map, admit.              *)
SubmitTask == ValidateRequest \o Lookup \o <<"room">>

(* submit_synthetic_map: no map is looked up.                              *)
SubmitBuild == ValidateRequest \o <<"room">>

Bug_Finished == <<"kept", "ended">>

(* `finished`: a run that has not succeeded, then an outcome that is gone. *)
Finished == <<"ended", "kept">>

(* `result_dto`: an outcome that is gone is a conflict here, and a run has *)
(* its data elsewhere.                                                     *)
ResultOf == <<"ended", "held", "paged">>

(* Task::cancel: the state is read, and the flag stored a moment later.    *)
CancelTask == <<"live", "asked">>

-----------------------------------------------------------------------------
(* The handlers of HTTP: what axum extracts is checked before anything.    *)

HttpMetadata == <<"shape">> \o OpenMap \o MetadataDto
HttpDownload == <<"shape">> \o Lookup
HttpRemove == <<"shape", "listed">>
HttpGrid == <<"shape">> \o OpenMap \o GridDto
HttpChunk == <<"shape">> \o OpenMap \o ChunkDto \o <<"format">>
HttpSection == <<"shape">> \o OpenMap \o Section
HttpRoadmap == <<"shape">> \o OpenMap \o PrmSection
HttpSkeleton == <<"shape">> \o OpenMap
HttpImport == <<"size", "shape">> \o AddImage
HttpInspect == <<"size", "empty", "image">>
HttpEdit == <<"size", "shape", "empty">> \o ApplyEdit
HttpPatch == <<"size", "shape", "empty", "image", "base">>
HttpFeasibility == <<"size", "shape", "points">> \o OpenMap
HttpSubmit == <<"size", "shape">> \o SubmitTask
HttpBuild == <<"size", "shape">> \o SubmitBuild
HttpState == <<"shape", "known">>
HttpCancel == <<"shape", "known">> \o CancelTask
HttpRead == <<"shape", "known">> \o Finished
HttpSensors == HttpRead \o <<"query", "channel">>
HttpExport == <<"shape", "format", "known">> \o Finished
HttpResult == <<"shape", "known">> \o ResultOf

Http(op) ==
  CASE op = "metadata" -> HttpMetadata [] op = "image" -> HttpDownload
    [] op = "remove" -> HttpRemove [] op = "grid" -> HttpGrid
    [] op = "chunk" -> HttpChunk [] op = "section" -> HttpSection
    [] op = "roadmap" -> HttpRoadmap [] op = "skeleton" -> HttpSkeleton
    [] op = "import" -> HttpImport [] op = "inspect" -> HttpInspect
    [] op = "edit" -> HttpEdit [] op = "patch" -> HttpPatch
    [] op = "feasibility" -> HttpFeasibility
    [] op \in {"submit", "plan"} -> HttpSubmit [] op = "build" -> HttpBuild
    [] op = "state" -> HttpState [] op = "ref" -> HttpState
    [] op = "cancel" -> HttpCancel
    [] op \in {"summary", "truth", "compare"} -> HttpRead
    [] op = "sensors" -> HttpSensors [] op = "export" -> HttpExport
    [] op = "result" -> HttpResult

(* The handlers of gRPC.  A message that does not fit its integers is      *)
(* found out after the map was opened.                                     *)

RpcCancel == <<"known">> \o CancelTask
RpcMetadata == OpenMap \o MetadataDto
RpcRemove == <<"listed">>
RpcGrid == OpenMap \o <<"shape">> \o GridDto
RpcChunk == OpenMap \o <<"shape">> \o ChunkDto
RpcSection == OpenMap \o Section
RpcRoadmap == OpenMap \o PrmSection
RpcSkeleton == OpenMap
RpcImport == <<"size">> \o AddImage
RpcInspect == <<"image">>
RpcEdit == <<"shape">> \o ApplyEdit
Bug_RpcSubmit == <<"shape">> \o Lookup \o <<"room">>

RpcSubmit == <<"shape">> \o SubmitTask
RpcBuild == <<"shape">> \o SubmitBuild
RpcState == <<"known">>
RpcRead == <<"known">> \o Finished
RpcSensors == RpcRead \o <<"channel">>
RpcResult == <<"known">> \o ResultOf

Rpc(op) ==
  CASE op = "metadata" -> RpcMetadata [] op = "remove" -> RpcRemove
    [] op = "grid" -> RpcGrid [] op = "chunk" -> RpcChunk
    [] op = "section" -> RpcSection [] op = "roadmap" -> RpcRoadmap
    [] op = "skeleton" -> RpcSkeleton [] op = "import" -> RpcImport
    [] op = "inspect" -> RpcInspect [] op = "edit" -> RpcEdit
    [] op \in {"submit", "plan"} -> RpcSubmit [] op = "build" -> RpcBuild
    [] op = "state" -> RpcState [] op = "ref" -> RpcState
    [] op = "cancel" -> RpcCancel
    [] op \in {"summary", "truth"} -> RpcRead
    [] op = "sensors" -> RpcSensors [] op = "result" -> RpcResult

Doors == {"http", "rpc"}
HttpOnly == {"image", "patch", "feasibility", "export", "compare"}
Shared == {"metadata", "remove", "grid", "chunk", "section", "roadmap", "skeleton", "import",
           "inspect", "edit", "submit", "plan", "build", "state", "ref", "cancel", "summary", "truth",
           "sensors", "result"}

Checks(door, op) == IF door = "http" THEN Http(op) ELSE Rpc(op)

-----------------------------------------------------------------------------
(* What the checks look at. *)

Ended == {"succeeded", "failed"}

(* Faults of the request alone, or of what it names on the map.            *)
Flaws == {"shape", "size", "values", "empty", "image", "format", "query", "channel", "points",
          "script", "patchable", "base", "layer", "cells", "fresh", "batch", "chunk"}

ASSUME AsksAssumption ==
  /\ Asks \subseteq [door : Doors, op : Shared \cup HttpOnly, ticket : Nat, flaws : SUBSET Flaws]
  /\ \A ask \in Asks : ask.op \in HttpOnly => ask.door = "http"

(* library.file: what is on disk under the map's name, "torn" if it does   *)
(* not parse; library.flaw: what of the image does not decode, "section"   *)
(* or "chunk", or "sound".                                                 *)
InFlight == Cardinality({t \in DOMAIN life : life[t] \notin Ended})

(* ask: [door, op, ticket, flaws]; entry: the flaw of the entry the call   *)
(* holds, "none" before it holds one.  An entry's bytes were parsed when   *)
(* it was made, so it opens.                                               *)
Passes(check, ask, entry) ==
  CASE check \in Flaws      -> check \notin ask.flaws
    [] check = "known"      -> ask.ticket \in Range(table)
    [] check = "ended"      -> life[ask.ticket] = "succeeded"
    [] check \in {"kept", "held"} -> ask.ticket \in kept
    [] check = "paged"      -> sort[ask.ticket] # "run"
    [] check = "live"       -> life[ask.ticket] \notin Ended
    [] check = "stored"     -> library.cached \/ library.file # "none"
    [] check = "listed"     -> library.cached
    [] check = "reads"      -> entry # "none" \/ library.file # "none"
    [] check = "loads"      -> entry # "none" \/ library.file # "torn"
    [] check \in {"opens", "asked"} -> TRUE
    [] check = "readable"   -> entry # "section"
    [] check = "intact"     -> entry # "chunk"
    [] check = "room"       -> InFlight < Room

-----------------------------------------------------------------------------
(* The table of tasks. *)

(* The oldest `excess` of a sequence of tasks.                             *)
Oldest(tasks, excess) == {tasks[i] : i \in {j \in DOMAIN tasks : j <= excess}}

Without(tasks, gone) ==
  FoldLeft(LAMBDA rest, t : IF t \in gone THEN rest ELSE Append(rest, t), <<>>, tasks)

(* prune_results: of the outcomes in the table, those beyond the bound.    *)
Outlived(tasks) ==
  LET holding == SelectSeq(tasks, LAMBDA t : t \in kept)
  IN  Oldest(holding, Len(holding) - KeepResults)

(* prune: the entries beyond the bound, of those that have ended.  The new *)
(* ticket has not.                                                         *)
Over(tasks) == Without(tasks, {t \in Range(tasks) : t \notin DOMAIN life \/ life[t] \notin Ended})

Bug_Dropped(tasks) ==
  IF Len(tasks) > KeepTasks THEN Oldest(Over(tasks), Len(tasks) - KeepTasks + 1) ELSE {}

Dropped(tasks) == Oldest(Over(tasks), Len(tasks) - KeepTasks)

(* try_admit, under one lock: the newest ticket, and what it pushes out.   *)
Admit(kind) ==
  LET tasks == Append(table, Len(sort) + 1)
  IN  /\ Len(sort) < MaxTickets
      /\ sort' = Append(sort, kind)
      /\ life' = Append(life, "queued")
      /\ reached' = Append(reached, 0)
      /\ kept' = kept \ Outlived(tasks)
      /\ table' = Without(tasks, Dropped(tasks))

taskVars == <<table, sort, life, kept, reached>>

-----------------------------------------------------------------------------
(* Calls. *)

Submits == {"submit", "plan", "build"}
AboutATask == {"state", "ref", "cancel", "summary", "truth", "sensors", "result"}
Reads == {"summary", "truth", "sensors", "export", "compare"}

(* Told of a run's data in this order: it is not there yet (or never will  *)
(* be), here it is, it was evicted, the run is forgotten.                  *)
Stage(kind) ==
  CASE kind = "conflict" -> 0 [] kind = "unsupported" -> 2 [] kind = "not_found" -> 3
    [] OTHER -> 1

Idle == [at |-> "idle"]

Todo(call) == Checks(call.ask.door, call.ask.op)

BeginCall(c, ask) ==
  /\ calls[c].at \in {"idle", "answered"}
  /\ spent < MaxCalls
  /\ ask.ticket \in DOMAIN life \/ ask.op \in Submits
  /\ calls' = [calls EXCEPT ![c] =
                 [at |-> "checking", ask |-> ask, next |-> 1, entry |-> "none", kind |-> "ok",
                  floor |-> IF ask.op \in Reads THEN reached[ask.ticket] ELSE 0]]
  /\ spent' = spent + 1
  /\ UNCHANGED <<taskVars, flagged, library, sweep>>

(* The entry a call holds once the check has passed, and what is cached.   *)
Entry(call, check) ==
  IF (check = "stored" /\ library.cached) \/ (check = "loads" /\ call.entry = "none")
  THEN library.flaw
  ELSE call.entry

Cached(check) == IF check = "loads" THEN TRUE ELSE library.cached

Removed == [file |-> "none", cached |-> FALSE, flaw |-> "sound"]

Tell(ask, kind) ==
  IF ask.op \in Reads /\ kind # "invalid"
  THEN reached' = [reached EXCEPT ![ask.ticket] = IF Stage(kind) > @ THEN Stage(kind) ELSE @]
  ELSE UNCHANGED reached

(* The next check passes.                                                  *)
Pass(c) ==
  LET call  == calls[c]
      check == Todo(call)[call.next]
  IN  /\ call.at = "checking"
      /\ call.next < Len(Todo(call))
      /\ Passes(check, call.ask, call.entry)
      /\ calls' = [calls EXCEPT ![c].next = @ + 1, ![c].entry = Entry(call, check)]
      /\ library' = [library EXCEPT !.cached = IF call.entry = "none" THEN Cached(check) ELSE @]
      /\ UNCHANGED <<taskVars, flagged, spent, sweep>>

(* It fails: the call is answered with what it stands for.  A removal that *)
(* found no entry has deleted the file.                                    *)
Refuse(c) ==
  LET call  == calls[c]
      check == Todo(call)[call.next]
  IN  /\ call.at = "checking"
      /\ ~Passes(check, call.ask, call.entry)
      /\ calls' = [calls EXCEPT ![c].at = "answered", ![c].kind = KindOf(check)]
      /\ Tell(call.ask, KindOf(check))
      /\ library' = IF check = "listed" THEN Removed ELSE library
      /\ UNCHANGED <<table, sort, life, kept, flagged, spent, sweep>>

(* The last one passes, and the call has its effect.                       *)
Accept(c) ==
  LET call  == calls[c]
      ask   == call.ask
      check == Todo(call)[call.next]
  IN  /\ call.at = "checking"
      /\ call.next = Len(Todo(call))
      /\ Passes(check, ask, call.entry)
      /\ calls' = [calls EXCEPT ![c].at = "answered"]
      /\ IF ask.op \in Submits
         THEN Admit(IF ask.op = "submit" THEN "run" ELSE "plan")
         ELSE Tell(ask, "ok") /\ UNCHANGED <<table, sort, life, kept>>
      /\ flagged' = IF ask.op = "cancel" THEN flagged \cup {ask.ticket} ELSE flagged
      /\ library' = IF ask.op = "remove"
                    THEN Removed
                    ELSE [library EXCEPT !.cached =
                            IF call.entry = "none" THEN Cached(check) ELSE @]
      /\ UNCHANGED <<spent, sweep>>

-----------------------------------------------------------------------------
(* The rest of the service, meanwhile. *)

(* A whole submission of another client.                                   *)
Arrive(kind) ==
  /\ InFlight < Room
  /\ Admit(kind)
  /\ UNCHANGED <<flagged, library, calls, spent, sweep>>

(* A worker takes a task, unless it was cancelled first, and ends it.      *)
Work(t) ==
  /\ \/ /\ life[t] = "queued"
        /\ life' = [life EXCEPT ![t] = IF t \in flagged THEN "failed" ELSE "running"]
        /\ UNCHANGED kept
     \/ /\ life[t] = "running"
        /\ \/ life' = [life EXCEPT ![t] = "succeeded"] /\ kept' = kept \cup {t}
           \/ life' = [life EXCEPT ![t] = "failed"] /\ UNCHANGED kept
  /\ UNCHANGED <<table, sort, reached, flagged, library, calls, spent, sweep>>

(* Another process writes the file of a map that is in no library yet.     *)
WriteFile(file, flaw) ==
  /\ library.file = "none" /\ ~library.cached
  /\ library' = [file |-> file, cached |-> FALSE, flaw |-> flaw]
  /\ UNCHANGED <<taskVars, flagged, calls, spent, sweep>>

(* A client pages through the task list, the newest first, `only` of one   *)
(* kind or of all, by the offset of what it was given.  stayed: what was   *)
(* listed throughout.                                                      *)
Listed(only) == Reverse(Without(table, {t \in Range(table) : only \notin {"all", sort[t]}}))

OpenSweep(only) ==
  /\ sweep.done
  /\ sweep' = [only |-> only, offset |-> 0, seen |-> {}, stayed |-> Range(Listed(only)),
               done |-> FALSE]
  /\ UNCHANGED <<taskVars, flagged, library, calls, spent>>

NextPage ==
  LET listed == Listed(sweep.only)
      page   == SubSeq(listed, sweep.offset + 1, Min({sweep.offset + PageSize, Len(listed)}))
  IN  /\ ~sweep.done
      /\ sweep' = [sweep EXCEPT !.offset = @ + Len(page), !.seen = @ \cup Range(page),
                                !.stayed = @ \cap Range(listed), !.done = page = <<>>]
      /\ UNCHANGED <<taskVars, flagged, library, calls, spent>>

-----------------------------------------------------------------------------
AnswersInit ==
  /\ table = <<>> /\ sort = <<>> /\ life = <<>> /\ reached = <<>>
  /\ flagged = {} /\ kept = {}
  /\ library = Removed
  /\ calls = [c \in Caller |-> Idle]
  /\ spent = 0
  /\ sweep = [only |-> "all", offset |-> 0, seen |-> {}, stayed |-> {}, done |-> TRUE]

AnswersNext ==
  \/ \E c \in Caller : Pass(c) \/ Refuse(c) \/ Accept(c) \/ \E ask \in Asks : BeginCall(c, ask)
  \/ \E kind \in {"run", "plan"} : Arrive(kind)
  \/ \E t \in DOMAIN life : Work(t)
  \/ \E file \in {"sound", "torn"}, flaw \in {"sound", "section", "chunk"} : WriteFile(file, flaw)
  \/ \E only \in {"all", "run"} : OpenSweep(only)
  \/ NextPage

AnswersSpec == AnswersInit /\ [][AnswersNext]_answerVars

-----------------------------------------------------------------------------
(* Properties. *)

AnswersTypeOK ==
  /\ Len(sort) <= MaxTickets /\ DOMAIN life = DOMAIN sort /\ DOMAIN reached = DOMAIN sort
  /\ Range(table) \subseteq DOMAIN life /\ flagged \subseteq DOMAIN life
  /\ kept \subseteq {t \in DOMAIN life : life[t] = "succeeded"}
  /\ Range(life) \subseteq {"queued", "running"} \cup Ended
  /\ library \in [file : {"none", "sound", "torn"}, cached : BOOLEAN,
                  flaw : {"sound", "section", "chunk"}]
  /\ spent \in 0..MaxCalls
  /\ \A c \in Caller : calls[c] = Idle \/ calls[c].next \in DOMAIN Todo(calls[c])
  /\ sweep.stayed \subseteq DOMAIN life /\ sweep.seen \subseteq DOMAIN life

(* What a call would be answered now, were nothing to happen in between:   *)
(* the checks of its door, and those of them that fail.                    *)
Sequence == [door \in Doors |-> [op \in Shared |-> Checks(door, op)]]

Verdict(checks, wrong) ==
  LET failing == {i \in DOMAIN checks : checks[i] \in wrong}
  IN  IF failing = {} THEN "ok" ELSE KindOf(checks[Min(failing)])

OfATask == {"known", "ended", "kept", "held", "paged", "live"}
OfTheService == {"stored", "listed", "reads", "loads", "opens", "readable", "intact", "room", "asked"}

(* Which fail whatever the request is like (t: the task, 0 if it has none).*)
FailNow(t) ==
  LET entry == IF library.cached \/ library.file = "sound" THEN library.flaw ELSE "none"
  IN  {check \in OfTheService \cup (IF t = 0 THEN {} ELSE OfATask) :
         ~Passes(check, [ticket |-> t, flaws |-> {}], entry)}

(* What only one door can find wrong.  A call of gRPC has no query and no  *)
(* format; its messages come typed, and only of some is a part parsed by   *)
(* the handler; how long one may be is the transport's to say, but for an  *)
(* import, which is counted as it comes.                                   *)
Parsed == {"grid", "chunk", "edit", "submit", "plan", "build"}

Peculiar(op) ==
  {"query", "format"} \cup (IF op \in Parsed THEN {} ELSE {"shape"})
                      \cup (IF op = "import" THEN {} ELSE {"size"})

(* What is wrong with requests that can be made at either door; nothing is *)
(* no image.                                                               *)
Comparable(op, flaws) ==
  flaws \cap Peculiar(op) = {} /\ ("empty" \in flaws => "image" \in flaws)

Compared ==
  [op \in Shared |-> {flaws \in SUBSET ((Range(Http(op)) \cup Range(Rpc(op))) \cap Flaws) :
                        Comparable(op, flaws)}]

(* gRPC opens the map before it finds that a number does not fit.          *)
ParsedLate(op, flaws) == op \in {"grid", "chunk"} /\ "shape" \in flaws

(* A client of gRPC and one of HTTP are told the same of the same call,    *)
(* whatever is wrong with it: each door writes its checks down for itself, *)
(* and what either checks the other must check too.  Both say ok, or both  *)
(* refuse for the same reason (or, if gRPC parses late, for some reason),  *)
(* and it is the server's fault at the one door whenever at the other.     *)
DoorsAgree ==
  \A t \in {0} \cup DOMAIN life :
    LET now == FailNow(t)
    IN  \A op \in Shared : (t # 0) = (op \in AboutATask) =>
          \A flaws \in Compared[op] :
            LET http == Verdict(Sequence["http"][op], now \cup flaws)
                rpc  == Verdict(Sequence["rpc"][op], now \cup flaws)
            IN  /\ (http = "ok") = (rpc = "ok")
                /\ http = rpc \/ ParsedLate(op, flaws)
                /\ (http # "ok" /\ HttpStatus(http) >= 500) =
                     (rpc # "ok" /\ GrpcCode(rpc) \in {"Internal", "Unavailable"})

(* What the readers of a run are told of its data goes one way: not yet,   *)
(* here it is, evicted, forgotten.  A call that began after another was    *)
(* answered is not told less, whatever happened between their checks.      *)
AnswersMoveForward ==
  \A c \in Caller :
    calls[c].at = "answered" /\ calls[c].ask.op \in Reads /\ calls[c].ask.flaws = {} =>
      Stage(calls[c].kind) >= calls[c].floor

(* A client that pages through all tasks has seen every one of them that   *)
(* was in the list from its first page to its last, however many were      *)
(* admitted and forgotten meanwhile: what an admission puts in front it    *)
(* takes away behind at most once.                                         *)
SweepMissesNothing ==
  sweep.done /\ sweep.only = "all" => sweep.stayed \subseteq sweep.seen
=============================================================================
