----------------------------- MODULE MapLibrary ------------------------------
(***************************************************************************)
(* The map library of crates/service/src/store under its clients: imports, *)
(* removals, reads, and planning tasks, which name a map when they are     *)
(* submitted and look it up again when they run.                           *)
(*                                                                         *)
(* The disk store keeps an image file per map and a cache of entries; its  *)
(* operations touch the two in separate steps, and a process may end       *)
(* between any two of them.  Files may also be put into the directory by   *)
(* another process.  The memory store does each operation under its lock   *)
(* and keeps the newest entries only.                                      *)
(*                                                                         *)
(* An operation in progress is a record [pc, id, then, image, answer]:     *)
(* `then` says what a lookup is for, or that a removal deleted the file;    *)
(* an operation that ended stays at "done" with its answer.  Names, summaries and listing order are left    *)
(* out, and so are several processes serving one directory.                *)
(***************************************************************************)
EXTENDS EnvironmentCache, FiniteSets

CONSTANTS Client,
          Fresh,        \* identifiers next_id makes; each is made once
          Foreign,      \* identifiers of files another process writes
          ImageOf,      \* [Fresh \cup Foreign -> images]
          Keep,         \* MemoryMapStore.keep
          MaxRestarts   \* bound

Id == Fresh \cup Foreign
Image == {ImageOf[id] : id \in Id}
Absent == "absent"
Partial == "partial"
None == "none"

ASSUME LibraryAssumption ==
  /\ IsFiniteSet(Id) /\ Fresh \cap Foreign = {}
  /\ Image \cap {Absent, Partial, None} = {}
  /\ Keep \in Nat \ {0} /\ MaxRestarts \in Nat
  /\ Size \in [Image -> Nat]

VARIABLES disk,      \* which of the two stores is configured
          files,     \* the image files, by identifier
          entries,   \* the store's entries; `at` tells older from newer
          ops,       \* per client the operation in progress
          cache,     \* TaskContext.environments
          issued,    \* identifiers made, and foreign files written
          known,     \* identifiers a client may have seen
          restarts,
          acked,     \* history: imports answered, oldest first
          asked,     \* history: identifiers some removal was asked for
          gone,      \* history: identifiers whose removal was answered
          overtaken  \* history: removed while a read of the file was under way

vars == <<disk, files, entries, ops, cache, issued, known, restarts,
          acked, asked, gone, overtaken>>

Idle == [pc |-> "done", id |-> None, then |-> None, image |-> None, answer |-> None]

Free(c) == ops[c].pc = "done"
At(c, pc) == ops[c].pc = pc
Goes(c, pc) == ops' = [ops EXCEPT ![c].pc = pc]
Ends(c, answer) == ops' = [ops EXCEPT ![c].pc = "done", ![c].answer = answer]

Starts(c, pc, id, then) ==
  /\ Free(c)
  /\ ops' = [ops EXCEPT ![c] = [pc |-> pc, id |-> id, then |-> then,
                                image |-> None, answer |-> None]]

Listed == {e.id : e \in entries}

(* push_back: behind every entry.                                          *)
Pushed(store, id, image) ==
  store \cup {[id |-> id, image |-> image, at |-> Max({0} \cup {e.at + 1 : e \in store})]}

-----------------------------------------------------------------------------
(* Imports: add_image, DiskMapStore::insert, MemoryMapStore::insert.       *)

(* add_image, up to the identifier: next_id makes one that is not in use.  *)
Import(c, id) ==
  /\ id \notin issued
  /\ issued' = issued \cup {id}
  /\ Starts(c, IF disk THEN "create" ELSE "insert", id, None)
  /\ UNCHANGED <<disk, files, entries, cache, known, restarts, acked, asked, gone, overtaken>>

(* fs::write: the file is there before its contents are.                   *)
CreateFile(c) ==
  /\ At(c, "create")
  /\ files' = [files EXCEPT ![ops[c].id] = Partial]
  /\ Goes(c, "write")
  /\ UNCHANGED <<disk, entries, cache, issued, known, restarts, acked, asked, gone, overtaken>>

WriteFile(c) ==
  /\ At(c, "write")
  /\ files' = [files EXCEPT ![ops[c].id] = ImageOf[ops[c].id]]
  /\ Goes(c, "push")
  /\ UNCHANGED <<disk, entries, cache, issued, known, restarts, acked, asked, gone, overtaken>>

(* A full disk: the error is returned and the file stays as it is.         *)
WriteFails(c) ==
  /\ At(c, "write")
  /\ Ends(c, "error")
  /\ UNCHANGED <<disk, files, entries, cache, issued, known, restarts, acked, asked, gone,
                 overtaken>>

Acknowledge(c) ==
  /\ Ends(c, "ok")
  /\ known' = known \cup {ops[c].id}
  /\ acked' = Append(acked, ops[c].id)
  /\ UNCHANGED <<disk, files, cache, issued, restarts, asked, gone, overtaken>>

PushEntry(c) ==
  /\ At(c, "push")
  /\ entries' = Pushed(entries, ops[c].id, ImageOf[ops[c].id])
  /\ Acknowledge(c)

Newer(store, e) == {f \in store : f.at > e.at}

Bug_InsertEntry(c) ==
  /\ At(c, "insert")
  /\ LET more == Pushed(entries, ops[c].id, ImageOf[ops[c].id])
     IN entries' = {e \in more : Cardinality(more) - Cardinality(Newer(more, e)) <= Keep}
  /\ Acknowledge(c)

(* The memory store pops the oldest entries while there are too many.      *)
InsertEntry(c) ==
  /\ At(c, "insert")
  /\ LET more == Pushed(entries, ops[c].id, ImageOf[ops[c].id])
     IN entries' = {e \in more : Cardinality(Newer(more, e)) < Keep}
  /\ Acknowledge(c)

(* Another process puts a file into the directory, in two steps as well.   *)
WriteForeign(id) ==
  /\ disk
  /\ \/ id \notin issued /\ files' = [files EXCEPT ![id] = Partial]
     \/ files[id] = Partial /\ files' = [files EXCEPT ![id] = ImageOf[id]]
  /\ issued' = issued \cup {id} /\ known' = known \cup {id}
  /\ UNCHANGED <<disk, entries, ops, cache, restarts, acked, asked, gone, overtaken>>

-----------------------------------------------------------------------------
(* Removals.                                                               *)

RemoveMap(c, id) ==
  /\ Starts(c, IF disk THEN "stat" ELSE "retain", id, None)
  /\ asked' = asked \cup {id}
  /\ UNCHANGED <<disk, files, entries, cache, issued, known, restarts, acked, gone, overtaken>>

Bug_StatFile(c) ==
  /\ At(c, "stat")
  /\ Goes(c, IF ops[c].id \in Listed THEN "unlink" ELSE "retain")
  /\ UNCHANGED <<disk, files, entries, cache, issued, known, restarts, acked, asked, gone,
                 overtaken>>

StatFile(c) ==
  /\ At(c, "stat")
  /\ Goes(c, IF files[ops[c].id] # Absent THEN "unlink" ELSE "retain")
  /\ UNCHANGED <<disk, files, entries, cache, issued, known, restarts, acked, asked, gone,
                 overtaken>>

(* Another removal may have deleted the file since: remove_file then fails *)
(* and the entry is left to that removal.                                  *)
UnlinkFile(c) ==
  /\ At(c, "unlink")
  /\ IF files[ops[c].id] = Absent
     THEN Ends(c, "error") /\ UNCHANGED files
     ELSE /\ ops' = [ops EXCEPT ![c].pc = "retain", ![c].then = "deleted"]
          /\ files' = [files EXCEPT ![ops[c].id] = Absent]
  /\ UNCHANGED <<disk, entries, cache, issued, known, restarts, acked, asked, gone, overtaken>>

Reading(id) == \E c \in Client : ops[c].id = id /\ ops[c].pc = "enter"

(* entries.retain, and the answer: NotFound when there was no entry and    *)
(* there is no file.                                                       *)
RetainEntries(c) ==
  LET id == ops[c].id
      found == id \in Listed
  IN /\ At(c, "retain")
     /\ entries' = {e \in entries : e.id # id}
     /\ Ends(c, IF found \/ files[id] # Absent THEN "ok" ELSE "notfound")
     /\ gone' = gone \cup {id}
     /\ overtaken' = IF Reading(id) THEN overtaken \cup {id} ELSE overtaken
     /\ UNCHANGED <<disk, files, cache, issued, known, restarts, acked, asked>>

-----------------------------------------------------------------------------
(* Lookups, MapStore::get, for whatever they are made: "reply" hands the   *)
(* image out, "queue" belongs to a submission, "plan" to a running task.   *)

Delivered(c, image) ==
  ops' = [ops EXCEPT ![c].image = image,
                     ![c].pc = CASE ops[c].then = "reply" -> "done"
                                 [] ops[c].then = "queue" -> "queued"
                                 [] OTHER -> "take",
                     ![c].answer = IF ops[c].then = "reply" THEN "ok" ELSE None]

Get(c, id, then) ==
  /\ Starts(c, "find", id, then)
  /\ UNCHANGED <<disk, files, entries, cache, issued, known, restarts, acked, asked, gone,
                 overtaken>>

(* The entries are looked through under the read lock; the lock is not     *)
(* held while the file is looked for, read and checked.                    *)
FindEntry(c) ==
  /\ At(c, "find")
  /\ IF ops[c].id \in Listed
     THEN \E e \in entries : e.id = ops[c].id /\ Delivered(c, e.image)
     ELSE IF disk THEN Goes(c, "isfile") ELSE Ends(c, "notfound")
  /\ UNCHANGED <<disk, files, entries, cache, issued, known, restarts, acked, asked, gone,
                 overtaken>>

FindFile(c) ==
  /\ At(c, "isfile")
  /\ IF files[ops[c].id] = Absent THEN Ends(c, "notfound") ELSE Goes(c, "read")
  /\ UNCHANGED <<disk, files, entries, cache, issued, known, restarts, acked, asked, gone,
                 overtaken>>

Bug_ReadFile(c) ==
  /\ At(c, "read")
  /\ IF files[ops[c].id] = Absent THEN Ends(c, "error")
     ELSE ops' = [ops EXCEPT ![c].pc = "enter", ![c].image = files[ops[c].id]]
  /\ UNCHANGED <<disk, files, entries, cache, issued, known, restarts, acked, asked, gone,
                 overtaken>>

(* load_entry: a partial file fails its check.                             *)
ReadFile(c) ==
  /\ At(c, "read")
  /\ IF files[ops[c].id] \in {Absent, Partial} THEN Ends(c, "error")
     ELSE ops' = [ops EXCEPT ![c].pc = "enter", ![c].image = files[ops[c].id]]
  /\ UNCHANGED <<disk, files, entries, cache, issued, known, restarts, acked, asked, gone,
                 overtaken>>

Bug_EnterRead(c) ==
  /\ At(c, "enter")
  /\ entries' = Pushed(entries, ops[c].id, ops[c].image)
  /\ Delivered(c, ops[c].image)
  /\ UNCHANGED <<disk, files, cache, issued, known, restarts, acked, asked, gone, overtaken>>

EnterRead(c) ==
  /\ At(c, "enter")
  /\ entries' = IF ops[c].id \in Listed THEN entries
                ELSE Pushed(entries, ops[c].id, ops[c].image)
  /\ Delivered(c, ops[c].image)
  /\ UNCHANGED <<disk, files, cache, issued, known, restarts, acked, asked, gone, overtaken>>

-----------------------------------------------------------------------------
(* Planning tasks: TaskRunner::resolve_map at the submission; map_source   *)
(* and EnvironmentCache::get_or_load in the worker.                        *)

(* A request that names no map takes the only one.                         *)
SubmitUnnamed(c) ==
  /\ Cardinality(entries) = 1
  /\ \E e \in entries : Starts(c, "queued", e.id, "plan")
  /\ UNCHANGED <<disk, files, entries, cache, issued, known, restarts, acked, asked, gone,
                 overtaken>>

Run(c) ==
  /\ At(c, "queued")
  /\ ops' = [ops EXCEPT ![c].pc = "find", ![c].then = "plan", ![c].image = None]
  /\ UNCHANGED <<disk, files, entries, cache, issued, known, restarts, acked, asked, gone,
                 overtaken>>

Planned(c, environment) ==
  ops' = [ops EXCEPT ![c].pc = "done", ![c].answer = "ok", ![c].image = environment]

TakeEnvironment(c) ==
  /\ At(c, "take")
  /\ IF Positions(cache, ops[c].image) # {}
     THEN /\ Planned(c, cache[Found(cache, ops[c].image)].environment)
          /\ cache' = Used(cache, ops[c].image)
     ELSE Goes(c, "load") /\ UNCHANGED cache
  /\ UNCHANGED <<disk, files, entries, issued, known, restarts, acked, asked, gone, overtaken>>

(* The environment was loaded outside the lock.                            *)
StoreEnvironment(c) ==
  /\ At(c, "load")
  /\ cache' = Stored(cache, ops[c].image, ops[c].image)
  /\ Planned(c, ops[c].image)
  /\ UNCHANGED <<disk, files, entries, issued, known, restarts, acked, asked, gone, overtaken>>

-----------------------------------------------------------------------------
Whole == {id \in Id : files[id] \notin {Absent, Partial}}

Loaded == {[id |-> id, image |-> files[id], at |-> 0] : id \in Whole}

(* The process ends anywhere and starts again: DiskMapStore::load keeps    *)
(* what it can read; the memory store starts empty.                        *)
Restart ==
  /\ restarts < MaxRestarts /\ restarts' = restarts + 1
  /\ ops' = [c \in Client |-> Idle] /\ cache' = <<>>
  /\ entries' = Loaded /\ known' = known \cup Whole
  /\ acked' = IF disk THEN acked ELSE <<>>
  /\ UNCHANGED <<disk, files, issued, asked, gone, overtaken>>

Init ==
  /\ disk \in BOOLEAN
  /\ files = [id \in Id |-> Absent] /\ entries = {}
  /\ ops = [c \in Client |-> Idle] /\ cache = <<>>
  /\ issued = {} /\ known = {} /\ restarts = 0
  /\ acked = <<>> /\ asked = {} /\ gone = {} /\ overtaken = {}

Step(c) ==
  \/ CreateFile(c) \/ WriteFile(c) \/ WriteFails(c) \/ PushEntry(c) \/ InsertEntry(c)
  \/ StatFile(c) \/ UnlinkFile(c) \/ RetainEntries(c)
  \/ FindEntry(c) \/ FindFile(c) \/ ReadFile(c) \/ EnterRead(c)
  \/ Run(c) \/ TakeEnvironment(c) \/ StoreEnvironment(c)

Request(c) ==
  \/ \E id \in Fresh : Import(c, id)
  \/ \E id \in known : RemoveMap(c, id) \/ Get(c, id, "reply") \/ Get(c, id, "queue")
  \/ SubmitUnnamed(c)

Next ==
  \/ \E c \in Client : Step(c) \/ Request(c)
  \/ \E id \in Foreign : WriteForeign(id)
  \/ Restart

Spec == Init /\ [][Next]_vars

-----------------------------------------------------------------------------
(* Properties.                                                             *)

Pcs == {"done", "create", "write", "push", "insert", "stat", "unlink", "retain",
        "find", "isfile", "read", "enter", "queued", "take", "load"}

Op == [pc : Pcs, id : Id \cup {None}, then : {None, "reply", "queue", "plan", "deleted"},
       image : Image \cup {None}, answer : {None, "ok", "notfound", "error"}]

TypeOK ==
  /\ disk \in BOOLEAN /\ restarts \in 0..MaxRestarts
  /\ files \in [Id -> Image \cup {Absent, Partial}]
  /\ entries \subseteq [id : Id, image : Image, at : Nat]
  /\ ops \in [Client -> Op]
  /\ cache \in Seq([key : Image, environment : Image])
  /\ {issued, known, asked, gone, overtaken} \subseteq SUBSET Id
  /\ acked \in Seq(Fresh)

(* A map is listed once, also when a read of its file and an import or a   *)
(* removal meet, and the memory store holds no more maps than it may.      *)
ListedOnce ==
  /\ \A e, f \in entries : e.id = f.id => e = f
  /\ disk \/ Cardinality(entries) <= Keep

(* An import that was answered is listed from then on, and its file is     *)
(* whole, until somebody asks for its removal: through restarts on disk,   *)
(* and in memory until as many newer ones came as are kept.                *)
NothingAcknowledgedIsLost ==
  \A i \in DOMAIN acked :
    /\ acked[i] \notin asked
    /\ disk \/ Len(acked) - i < Keep
    => acked[i] \in Listed /\ (disk => files[acked[i]] = ImageOf[acked[i]])

(* A map whose removal was answered is gone: no list, lookup, restart or   *)
(* other removal finds it again.  The exception is a file of another       *)
(* process that some request had read when the removal came by.            *)
RemovedStaysRemoved ==
  \A id \in gone \ overtaken :
    /\ id \notin Listed /\ files[id] = Absent
    /\ overtaken \subseteq Foreign

(* What the library answered stays true: an import by the map, a removal   *)
(* by its absence, through restarts and whatever requests meet.            *)
LibraryIsDurable == NothingAcknowledgedIsLost /\ RemovedStaysRemoved

(* Whatever is handed out or planned on is the image that was stored under *)
(* the name that was given, and no partial one.                            *)
AnswersAreTheMap ==
  \A c \in Client : ops[c].image # None => ops[c].image = ImageOf[ops[c].id]

(* The cache of environments is within both its bounds, whoever stores.    *)
CacheWithinBounds == WithinBounds(cache)

(* disk.rs:118-120: an image written by another process "is supported      *)
(* rather than an error".  A removal that deleted such a file does not      *)
(* answer that there is no such map.                                       *)
RemovalFindsTheMap ==
  \A c \in Client : ~(ops[c].then = "deleted" /\ Free(c) /\ ops[c].answer = "notfound")
=============================================================================
