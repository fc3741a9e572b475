-------------------------- MODULE MapLibraryProofs ---------------------------
(***************************************************************************)
(* Proofs about MapLibrary, for any set of clients and of identifiers.     *)
(***************************************************************************)
EXTENDS MapLibrary, FiniteSetTheorems, SequenceTheorems, WellFoundedInduction, TLAPS

Importing == {"create", "write", "push", "insert"}
Removing == {"stat", "unlink", "retain"}

(* A file is what was stored under its name, or a part of it; a map that   *)
(* was made here and answered for has a whole file or none, and no file    *)
(* when it is not listed.                                                  *)
FilesSound ==
  /\ known \subseteq issued
  /\ \A id \in Id :
       /\ files[id] \in {Absent, Partial, ImageOf[id]}
       /\ files[id] # Absent => disk /\ id \in issued
  /\ \A id \in Fresh \cap known :
       /\ files[id] # Partial
       /\ id \notin Listed => files[id] = Absent

EntriesSound ==
  /\ IsFiniteSet(entries) /\ \E b \in Nat : \A e \in entries : e.at <= b
  /\ \A e \in entries : e.id \in known /\ e.image = ImageOf[e.id]
  /\ \A e, f \in entries : e.id = f.id => e = f

(* In memory: no two entries have the same place, and there are not too    *)
(* many of them.                                                           *)
MemoryOrdered ==
  disk \/ /\ \A e, f \in entries : e.at = f.at => e = f
          /\ Cardinality(entries) <= Keep

(* What the place of an operation says of the map it is about.             *)
OpSound(c) ==
  /\ ops[c].pc \in Importing =>
       /\ ops[c].id \in Fresh /\ ops[c].id \in issued /\ ops[c].id \notin known
       /\ disk <=> ops[c].pc # "insert"
  /\ ops[c].pc = "push" => files[ops[c].id] = ImageOf[ops[c].id]
  /\ ops[c].pc \notin Importing \cup {"done"} => ops[c].id \in known
  /\ ops[c].pc \in Removing => ops[c].id \in asked
  /\ ops[c].pc = "retain" => files[ops[c].id] = Absent
  /\ ops[c].pc = "isfile" => disk /\ (ops[c].id \in Fresh => ops[c].id \notin Listed)
  /\ ops[c].pc \in {"read", "enter"} => disk /\ ops[c].id \in Foreign
  /\ ops[c].pc \in {"enter", "take", "load"} => ops[c].image # None
  /\ ops[c].image # None => ops[c].image = ImageOf[ops[c].id]

OpsSound == \A c \in Client : OpSound(c)

OneImporter ==
  \A c, d \in Client :
    ops[c].pc \in Importing /\ ops[d].pc \in Importing /\ ops[c].id = ops[d].id => c = d

CacheHonest == \A i \in DOMAIN cache : cache[i].key = cache[i].environment

RemovedSound ==
  /\ gone \subseteq known /\ overtaken \subseteq Foreign
  /\ \A id \in gone \ overtaken :
       /\ id \notin Listed /\ files[id] = Absent
       /\ \A c \in Client : ops[c].pc = "enter" => ops[c].id # id

(* Imports that were answered, and in memory how many entries are newer.   *)
AckedSound ==
  \A i \in DOMAIN acked :
    /\ acked[i] \in known
    /\ disk /\ acked[i] \notin asked =>
         acked[i] \in Listed /\ files[acked[i]] = ImageOf[acked[i]]
    /\ ~disk /\ acked[i] \notin asked /\ Len(acked) - i < Keep =>
         \E e \in entries :
           e.id = acked[i] /\ Cardinality(Newer(entries, e)) <= Len(acked) - i

LibraryInvariant ==
  /\ TypeOK /\ FilesSound /\ EntriesSound /\ MemoryOrdered /\ OpsSound /\ OneImporter
  /\ CacheHonest /\ RemovedSound /\ AckedSound

-----------------------------------------------------------------------------
(* A set of naturals with a bound has a greatest element.                  *)
LEMMA MaxExists ==
  ASSUME NEW S \in SUBSET Nat, S # {}, NEW b \in Nat, \A n \in S : n <= b
  PROVE  Max(S) \in S /\ \A n \in S : n <= Max(S)
<1> DEFINE T == {b - n : n \in S}
<1>1. T \subseteq Nat /\ T # {}
  OBVIOUS
<1>2. PICK least \in T : \A y \in T : ~(<<y, least>> \in OpToRel(<, Nat))
  BY <1>1, WFMin, NatLessThanWellFounded, Zenon
<1>3. \A y \in Nat, z \in Nat : y < z => <<y, z>> \in OpToRel(<, Nat)
  BY DEF OpToRel
<1>4. PICK m \in S : least = b - m
  OBVIOUS
<1>5. \A n \in S : n <= m
  <2> SUFFICES ASSUME NEW n \in S, ~(n <= m) PROVE FALSE
    OBVIOUS
  <2>1. b - n \in T /\ b - n \in Nat /\ least \in Nat /\ b - n < least
    BY <1>4
  <2>2. QED
    BY <2>1, <1>2, <1>3
<1>6. \E x \in S : \A y \in S : x >= y
  BY <1>5
<1>7. QED
  BY <1>6 DEF Max

(* What push_back does to the entries.                                     *)
LEMMA PushedEffect ==
  ASSUME NEW store \in SUBSET [id : Id, image : Image, at : Nat], IsFiniteSet(store),
         NEW b \in Nat, \A e \in store : e.at <= b,
         NEW id \in Id, NEW image \in Image
  PROVE  \E new \in [id : Id, image : Image, at : Nat] :
           /\ new.id = id /\ new.image = image
           /\ \A e \in store : e.at < new.at
           /\ new.at <= b + 1
           /\ Pushed(store, id, image) = store \cup {new}
           /\ IsFiniteSet(Pushed(store, id, image))
           /\ Cardinality(Pushed(store, id, image)) = Cardinality(store) + 1
<1> DEFINE S == {0} \cup {e.at + 1 : e \in store}
           new == [id |-> id, image |-> image, at |-> Max(S)]
<1>1. S \in SUBSET Nat /\ S # {} /\ \A n \in S : n <= b + 1
  OBVIOUS
<1>2. Max(S) \in S /\ \A n \in S : n <= Max(S)
  <2> HIDE DEF S
  <2> DEFINE h == b + 1
  <2>1. h \in Nat /\ \A n \in S : n <= h
    BY <1>1
  <2> HIDE DEF h
  <2>2. QED
    BY <1>1, <2>1, MaxExists
<1>3. \A e \in store : e.at + 1 <= Max(S)
  BY <1>2
<1>4. Max(S) \in Nat /\ Max(S) <= b + 1
  BY <1>1, <1>2
<1>5. Pushed(store, id, image) = store \cup {new}
  BY DEF Pushed
<1> HIDE DEF S
<1>6. new \in [id : Id, image : Image, at : Nat] /\ \A e \in store : e.at < new.at
  BY <1>3, <1>4
<1>7. new \notin store
  BY <1>6
<1>8. /\ IsFiniteSet(store \cup {new})
      /\ Cardinality(store \cup {new}) = Cardinality(store) + 1
  BY <1>7, FS_AddElement
<1>9. QED
  BY <1>4, <1>5, <1>6, <1>8

-----------------------------------------------------------------------------
(* What the small steps of an operation do to `ops`.                       *)

Others(c) == /\ ops' \in [Client -> Op]
             /\ \A d \in Client \ {c} : ops'[d] = ops[d]

LEMMA GoesEffect ==
  ASSUME TypeOK, NEW c \in Client, NEW pc \in Pcs, Goes(c, pc)
  PROVE  Others(c) /\ ops'[c].pc = pc /\ ops'[c].id = ops[c].id /\ ops'[c].image = ops[c].image
<1>1. ops \in [Client -> Op] /\ ops[c] \in Op
  BY DEF TypeOK
<1>2. ops' = [ops EXCEPT ![c] = [ops[c] EXCEPT !.pc = pc]]
  BY <1>1 DEF Goes, Op
<1>3. [ops[c] EXCEPT !.pc = pc] \in Op
  BY <1>1 DEF Op
<1>4. QED
  BY <1>1, <1>2, <1>3 DEF Others, Op

LEMMA EndsEffect ==
  ASSUME TypeOK, NEW c \in Client, NEW answer \in {None, "ok", "notfound", "error"}, Ends(c, answer)
  PROVE  Others(c) /\ ops'[c].pc = "done" /\ ops'[c].id = ops[c].id /\ ops'[c].image = ops[c].image
<1>1. ops \in [Client -> Op] /\ ops[c] \in Op
  BY DEF TypeOK
<1>2. ops' = [ops EXCEPT ![c] = [ops[c] EXCEPT !.pc = "done", !.answer = answer]]
  BY <1>1 DEF Ends, Op
<1>3. [ops[c] EXCEPT !.pc = "done", !.answer = answer] \in Op
  BY <1>1 DEF Op, Pcs
<1>4. QED
  BY <1>1, <1>2, <1>3 DEF Others, Op

LEMMA StartsEffect ==
  ASSUME TypeOK, NEW c \in Client, NEW pc \in Pcs, NEW id \in Id,
         NEW then \in {None, "reply", "queue", "plan"}, Starts(c, pc, id, then)
  PROVE  Others(c) /\ ops'[c].pc = pc /\ ops'[c].id = id /\ ops'[c].image = None
<1> DEFINE o == [pc |-> pc, id |-> id, then |-> then, image |-> None, answer |-> None]
<1>1. ops \in [Client -> Op] /\ ops' = [ops EXCEPT ![c] = o]
  BY DEF TypeOK, Starts
<1>2. o \in Op /\ o.pc = pc /\ o.id = id /\ o.image = None
  BY DEF Op
<1> HIDE DEF o
<1>3. QED
  BY <1>1, <1>2 DEF Others

LEMMA DeliveredEffect ==
  ASSUME TypeOK, NEW c \in Client, NEW image \in Image, Delivered(c, image)
  PROVE  /\ Others(c) /\ ops'[c].pc \in {"done", "queued", "take"} /\ ops'[c].id = ops[c].id
         /\ ops'[c].image = image
<1> DEFINE pc == CASE ops[c].then = "reply" -> "done" [] ops[c].then = "queue" -> "queued" [] OTHER -> "take"
           answer == IF ops[c].then = "reply" THEN "ok" ELSE None
           o == [ops[c] EXCEPT !.image = image, !.pc = pc, !.answer = answer]
<1>1. ops \in [Client -> Op] /\ ops[c] \in Op
  BY DEF TypeOK
<1>2. pc \in {"done", "queued", "take"} /\ answer \in {None, "ok"}
  OBVIOUS
<1>3. ops' = [ops EXCEPT ![c].image = image, ![c].pc = pc, ![c].answer = answer]
  BY DEF Delivered
<1> HIDE DEF pc, answer
<1>4. ops' = [ops EXCEPT ![c] = o]
  BY <1>1, <1>3 DEF Op
<1>5. o \in Op /\ o.pc = pc /\ o.id = ops[c].id /\ o.image = image
  BY <1>1, <1>2 DEF Op, Pcs
<1> HIDE DEF o
<1>6. QED
  BY <1>1, <1>2, <1>4, <1>5 DEF Others

LEMMA PlannedEffect ==
  ASSUME TypeOK, NEW c \in Client, NEW image \in Image, Planned(c, image)
  PROVE  /\ Others(c) /\ ops'[c].pc = "done" /\ ops'[c].id = ops[c].id
         /\ ops'[c].image = image
<1> DEFINE o == [ops[c] EXCEPT !.pc = "done", !.answer = "ok", !.image = image]
<1>1. ops \in [Client -> Op] /\ ops[c] \in Op
  BY DEF TypeOK
<1>2. ops' = [ops EXCEPT ![c] = o]
  BY <1>1 DEF Planned, Op
<1>3. o \in Op /\ o.pc = "done" /\ o.id = ops[c].id /\ o.image = image
  BY <1>1 DEF Op, Pcs
<1> HIDE DEF o
<1>4. QED
  BY <1>1, <1>2, <1>3 DEF Others

-----------------------------------------------------------------------------
LEMMA ImageFacts ==
  /\ \A id \in Id : ImageOf[id] \in Image /\ ImageOf[id] \notin {Absent, Partial, None}
  /\ Fresh \subseteq Id /\ Foreign \subseteq Id
  /\ Absent # Partial /\ Absent # None
BY LibraryAssumption DEF Id, Image, Absent, Partial, None

Shared == <<disk, files, entries, issued, known, acked, asked, gone, overtaken>>

(* A step of one operation that leaves the library as it is.               *)
LEMMA QuietStep ==
  ASSUME LibraryInvariant, NEW c \in Client, Others(c), UNCHANGED Shared,
         restarts' = restarts,
         cache' \in Seq([key : Image, environment : Image]), CacheHonest',
         OpSound(c)', ops'[c].pc \notin Importing,
         ops'[c].pc = "enter" => files[ops'[c].id] # Absent
  PROVE  LibraryInvariant'
<1> USE DEF LibraryInvariant
<1>1. /\ disk' = disk /\ files' = files /\ entries' = entries /\ issued' = issued
      /\ known' = known /\ acked' = acked /\ asked' = asked /\ gone' = gone
      /\ overtaken' = overtaken
  BY DEF Shared
<1>2. TypeOK'
  BY <1>1 DEF TypeOK, Others
<1>3. FilesSound' /\ EntriesSound' /\ MemoryOrdered'
  BY <1>1 DEF FilesSound, EntriesSound, MemoryOrdered, Listed
<1>4. OpsSound'
  <2>1. ASSUME NEW d \in Client \ {c} PROVE OpSound(d)'
    <3>1. ops'[d] = ops[d] /\ OpSound(d)
      BY DEF Others, OpsSound
    <3>2. QED
      BY <1>1, <3>1 DEF OpSound, Listed
  <2>2. QED
    BY <2>1 DEF OpsSound
<1>5. OneImporter'
  BY DEF OneImporter, Others
<1>6. RemovedSound'
  BY <1>1 DEF RemovedSound, Others, Listed
<1>7. AckedSound'
  BY <1>1 DEF AckedSound, Listed, Newer
<1>8. QED
  BY <1>2, <1>3, <1>4, <1>5, <1>6, <1>7

LEMMA StatFileStep ==
  ASSUME LibraryInvariant, NEW c \in Client, StatFile(c)
  PROVE  LibraryInvariant'
<1> USE DEF LibraryInvariant
<1>1. OpSound(c) /\ ops[c].pc = "stat" /\ UNCHANGED Shared /\ UNCHANGED <<cache, restarts>>
  BY DEF StatFile, At, OpsSound, Shared
<1>2. PICK pc \in {"unlink", "retain"} :
        Goes(c, pc) /\ (pc = "retain" => files[ops[c].id] = Absent)
  BY DEF StatFile
<1>3. /\ Others(c) /\ ops'[c].pc = pc /\ ops'[c].id = ops[c].id
      /\ ops'[c].image = ops[c].image
  BY <1>2, GoesEffect DEF Pcs
<1>4. OpSound(c)'
  BY <1>1, <1>2, <1>3 DEF OpSound, Importing, Removing, Shared
<1>5. QED
  BY <1>1, <1>3, <1>4, QuietStep DEF Importing, TypeOK, CacheHonest

LEMMA GetStep ==
  ASSUME LibraryInvariant, NEW c \in Client, NEW id \in known,
         NEW then \in {"reply", "queue"}, Get(c, id, then)
  PROVE  LibraryInvariant'
<1> USE DEF LibraryInvariant
<1>1. UNCHANGED Shared /\ UNCHANGED <<cache, restarts>> /\ id \in Id
  BY DEF Get, Shared, TypeOK
<1>2. Others(c) /\ ops'[c].pc = "find" /\ ops'[c].id = id /\ ops'[c].image = None
  BY <1>1, StartsEffect DEF Get, Pcs
<1>3. OpSound(c)'
  BY <1>1, <1>2 DEF OpSound, Importing, Removing, Shared
<1>4. QED
  BY <1>1, <1>2, <1>3, QuietStep DEF Importing, TypeOK, CacheHonest

LEMMA SubmitUnnamedStep ==
  ASSUME LibraryInvariant, NEW c \in Client, SubmitUnnamed(c)
  PROVE  LibraryInvariant'
<1> USE DEF LibraryInvariant
<1>1. UNCHANGED Shared /\ UNCHANGED <<cache, restarts>>
  BY DEF SubmitUnnamed, Shared
<1>2. PICK e \in entries : Starts(c, "queued", e.id, "plan")
  BY DEF SubmitUnnamed
<1>3. e.id \in known /\ e.id \in Id
  BY DEF EntriesSound, TypeOK
<1>4. Others(c) /\ ops'[c].pc = "queued" /\ ops'[c].id = e.id /\ ops'[c].image = None
  BY <1>2, <1>3, StartsEffect DEF Pcs
<1>5. OpSound(c)'
  BY <1>1, <1>3, <1>4 DEF OpSound, Importing, Removing, Shared
<1>6. QED
  BY <1>1, <1>4, <1>5, QuietStep DEF Importing, TypeOK, CacheHonest

LEMMA FindEntryStep ==
  ASSUME LibraryInvariant, NEW c \in Client, FindEntry(c)
  PROVE  LibraryInvariant'
<1> USE DEF LibraryInvariant
<1>1. OpSound(c) /\ ops[c].pc = "find" /\ UNCHANGED Shared /\ UNCHANGED <<cache, restarts>>
  BY DEF FindEntry, At, OpsSound, Shared
<1>2. CASE ops[c].id \in Listed
  <2>1. PICK e \in entries : e.id = ops[c].id /\ Delivered(c, e.image)
    BY <1>2 DEF FindEntry
  <2>2. e.image \in Image /\ e.image = ImageOf[ops[c].id]
    BY <2>1 DEF EntriesSound, TypeOK
  <2>3. /\ Others(c) /\ ops'[c].pc \in {"done", "queued", "take"}
        /\ ops'[c].id = ops[c].id /\ ops'[c].image = e.image
    BY <2>1, <2>2, DeliveredEffect
  <2>4. OpSound(c)'
    BY <1>1, <2>2, <2>3, LibraryAssumption DEF OpSound, Importing, Removing, Shared
  <2>5. QED
    BY <1>1, <2>3, <2>4, QuietStep DEF Importing, TypeOK, CacheHonest
<1>3. CASE ops[c].id \notin Listed
  <2>1. (disk /\ Goes(c, "isfile")) \/ Ends(c, "notfound")
    BY <1>3 DEF FindEntry
  <2>2. /\ Others(c) /\ ops'[c].pc \in {"isfile", "done"} /\ ops'[c].id = ops[c].id
        /\ ops'[c].image = ops[c].image /\ (ops'[c].pc = "isfile" => disk)
    BY <2>1, GoesEffect, EndsEffect DEF Pcs
  <2>3. OpSound(c)'
    BY <1>1, <1>3, <2>2 DEF OpSound, Importing, Removing, Shared, Listed
  <2>4. QED
    BY <1>1, <2>2, <2>3, QuietStep DEF Importing, TypeOK, CacheHonest
<1>4. QED
  BY <1>2, <1>3

LEMMA FindFileStep ==
  ASSUME LibraryInvariant, NEW c \in Client, FindFile(c)
  PROVE  LibraryInvariant'
<1> USE DEF LibraryInvariant
<1>1. OpSound(c) /\ ops[c].pc = "isfile" /\ UNCHANGED Shared /\ UNCHANGED <<cache, restarts>>
  BY DEF FindFile, At, OpsSound, Shared
<1>2. Ends(c, "notfound") \/ (files[ops[c].id] # Absent /\ Goes(c, "read"))
  <2>1. CASE files[ops[c].id] = Absent
    BY <2>1 DEF FindFile
  <2>2. CASE files[ops[c].id] # Absent
    BY <2>2 DEF FindFile
  <2>3. QED
    BY <2>1, <2>2
<1>3. /\ Others(c) /\ ops'[c].pc \in {"read", "done"} /\ ops'[c].id = ops[c].id
      /\ ops'[c].image = ops[c].image
      /\ (ops'[c].pc = "read" => files[ops[c].id] # Absent)
  <2>1. CASE Ends(c, "notfound")
    BY <2>1, EndsEffect
  <2>2. CASE files[ops[c].id] # Absent /\ Goes(c, "read")
    BY <2>2, GoesEffect DEF Pcs
  <2>3. QED
    BY <1>2, <2>1, <2>2
<1>4. ops'[c].pc = "read" => disk /\ ops[c].id \in Foreign
  BY <1>1, <1>3 DEF OpSound, Importing, FilesSound, TypeOK, Id
<1>5. OpSound(c)'
  BY <1>1, <1>3, <1>4 DEF OpSound, Importing, Removing, Shared
<1>6. QED
  BY <1>1, <1>3, <1>5, QuietStep DEF Importing, TypeOK, CacheHonest

LEMMA ReadFileStep ==
  ASSUME LibraryInvariant, NEW c \in Client, ReadFile(c)
  PROVE  LibraryInvariant'
<1> USE DEF LibraryInvariant
<1>1. OpSound(c) /\ ops[c].pc = "read" /\ UNCHANGED Shared /\ UNCHANGED <<cache, restarts>>
  BY DEF ReadFile, At, OpsSound, Shared
<1>2. CASE files[ops[c].id] \in {Absent, Partial}
  <2>1. Others(c) /\ ops'[c].pc = "done" /\ ops'[c].id = ops[c].id /\ ops'[c].image = ops[c].image
    BY <1>2, EndsEffect DEF ReadFile
  <2>2. OpSound(c)'
    BY <1>1, <2>1 DEF OpSound, Importing, Removing, Shared
  <2>3. QED
    BY <1>1, <2>1, <2>2, QuietStep DEF Importing, TypeOK, CacheHonest
<1>3. CASE files[ops[c].id] \notin {Absent, Partial}
  <2> DEFINE image == files[ops[c].id]
  <2>1. ops[c].id \in Id /\ ops[c].id \in known /\ ops[c].id \in Foreign /\ disk
    BY <1>1 DEF OpSound, Importing, TypeOK
  <2>2. image = ImageOf[ops[c].id] /\ image \in Image /\ image # None
    BY <1>3, <2>1, ImageFacts DEF FilesSound
  <2>3. ops \in [Client -> Op] /\ ops[c] \in Op
    BY DEF TypeOK
  <2>4. ops' = [ops EXCEPT ![c] = [ops[c] EXCEPT !.pc = "enter", !.image = image]]
    BY <1>3, <2>3 DEF ReadFile, Op
  <2>5. [ops[c] EXCEPT !.pc = "enter", !.image = image] \in Op
    BY <2>2, <2>3 DEF Op, Pcs
  <2>6. Others(c) /\ ops'[c].pc = "enter" /\ ops'[c].id = ops[c].id /\ ops'[c].image = image
    BY <2>3, <2>4, <2>5 DEF Others, Op
  <2>7. OpSound(c)'
    BY <1>1, <2>1, <2>2, <2>6 DEF OpSound, Importing, Removing, Shared
  <2>8. QED
    BY <1>1, <1>3, <2>6, <2>7, QuietStep DEF Importing, TypeOK, CacheHonest
<1>4. QED
  BY <1>2, <1>3

LEMMA RunStep ==
  ASSUME LibraryInvariant, NEW c \in Client, Run(c)
  PROVE  LibraryInvariant'
<1> USE DEF LibraryInvariant
<1>1. OpSound(c) /\ ops[c].pc = "queued" /\ UNCHANGED Shared /\ UNCHANGED <<cache, restarts>>
  BY DEF Run, At, OpsSound, Shared
<1> DEFINE o == [ops[c] EXCEPT !.pc = "find", !.then = "plan", !.image = None]
<1>2. ops \in [Client -> Op] /\ ops[c] \in Op /\ ops' = [ops EXCEPT ![c] = o]
  BY DEF TypeOK, Run, Op
<1>3. o \in Op /\ o.pc = "find" /\ o.id = ops[c].id /\ o.image = None
  BY <1>2 DEF Op, Pcs
<1> HIDE DEF o
<1>4. Others(c) /\ ops'[c].pc = "find" /\ ops'[c].id = ops[c].id /\ ops'[c].image = None
  BY <1>2, <1>3 DEF Others
<1>5. OpSound(c)'
  BY <1>1, <1>4 DEF OpSound, Importing, Removing, Shared
<1>6. QED
  BY <1>1, <1>4, <1>5, QuietStep DEF Importing, TypeOK, CacheHonest

LEMMA WriteFailsStep ==
  ASSUME LibraryInvariant, NEW c \in Client, WriteFails(c)
  PROVE  LibraryInvariant'
<1> USE DEF LibraryInvariant
<1>1. OpSound(c) /\ ops[c].pc = "write" /\ UNCHANGED Shared /\ UNCHANGED <<cache, restarts>>
  BY DEF WriteFails, At, OpsSound, Shared
<1>2. Others(c) /\ ops'[c].pc = "done" /\ ops'[c].id = ops[c].id /\ ops'[c].image = ops[c].image
  BY EndsEffect DEF WriteFails
<1>3. OpSound(c)'
  BY <1>1, <1>2 DEF OpSound, Importing, Removing, Shared
<1>4. QED
  BY <1>1, <1>2, <1>3, QuietStep DEF Importing, TypeOK, CacheHonest

-----------------------------------------------------------------------------
(* The cache of environments.                                              *)

LEMMA EntryOf ==
  ASSUME NEW E, NEW s \in Seq(E), NEW i \in DOMAIN s
  PROVE  s[i] \in E
OBVIOUS

(* t holds entries of s only, each place of s once.                        *)
Rearranged(t, s) ==
  /\ Len(t) = Len(s)
  /\ \E p \in [1..Len(s) -> 1..Len(s)] :
       /\ \A j, k \in 1..Len(s) : p[j] = p[k] => j = k
       /\ \A j \in 1..Len(s) : t[j] = s[p[j]]

(* A lookup finds an entry of its key, and moves it without losing one.    *)
LEMMA UsedEffect ==
  ASSUME NEW E, NEW s \in Seq(E), NEW key, Positions(s, key) # {}
  PROVE  /\ Found(s, key) \in DOMAIN s /\ s[Found(s, key)].key = key
         /\ Used(s, key) \in Seq(E) /\ Rearranged(Used(s, key), s)
<1>1. Positions(s, key) \subseteq Nat
  BY DEF Positions
<1>2. \E i \in Positions(s, key) : \A j \in Positions(s, key) : ~(<<j, i>> \in OpToRel(<, Nat))
  BY <1>1, WFMin, NatLessThanWellFounded, Zenon
<1>3. \A y \in Nat, z \in Nat : y < z => <<y, z>> \in OpToRel(<, Nat)
  BY DEF OpToRel
<1>4. \E i \in Positions(s, key) : \A j \in Positions(s, key) : i <= j
  <2>1. PICK i \in Positions(s, key) :
          \A j \in Positions(s, key) : ~(<<j, i>> \in OpToRel(<, Nat))
    BY <1>2
  <2>2. ASSUME NEW j \in Positions(s, key) PROVE i <= j
    <3>1. i \in Nat /\ j \in Nat
      BY <1>1
    <3>2. ~(j < i)
      BY <1>3, <2>1, <3>1, Zenon
    <3>3. QED
      BY <3>1, <3>2
  <2>3. QED
    BY <2>2
<1>5. Found(s, key) \in Positions(s, key)
  BY <1>4 DEF Found
<1> DEFINE i == Found(s, key)
<1>6. i \in 1..Len(s) /\ s[i].key = key
  BY <1>5 DEF Positions
<1> HIDE DEF i
<1> DEFINE front == SubSeq(s, 1, i - 1)
           back == SubSeq(s, i + 1, Len(s))
<1>7. /\ front \in Seq(E) /\ Len(front) = i - 1
      /\ \A j \in 1..i - 1 : front[j] = s[j]
  BY <1>6, SubSeqProperties
<1>8. /\ back \in Seq(E) /\ Len(back) = Len(s) - i
      /\ \A j \in 1..Len(s) - i : back[j] = s[i + j]
  BY <1>6, SubSeqProperties
<1> HIDE DEF front, back
<1>9. Used(s, key) = <<s[i]>> \o front \o back
  BY DEF Used, i, front, back
<1>10. s[i] \in E /\ <<s[i]>> \in Seq(E) /\ Len(<<s[i]>>) = 1
  BY <1>6
<1> DEFINE half == <<s[i]>> \o front
<1>11. /\ half \in Seq(E) /\ Len(half) = i
       /\ half[1] = s[i] /\ \A j \in 2..i : half[j] = s[j - 1]
  <2>1. half \in Seq(E) /\ Len(half) = i
    BY <1>6, <1>7, <1>10
  <2>2. half[1] = s[i] /\ \A j \in 2..i : half[j] = front[j - 1]
    BY <1>6, <1>7, <1>10
  <2>3. \A j \in 2..i : j - 1 \in 1..Len(s) /\ half[j] = s[j - 1]
    BY <1>6, <1>7, <2>2
  <2>4. QED
    BY <1>6, <2>1, <2>2, <2>3
<1> HIDE DEF half
<1>12. /\ half \o back \in Seq(E) /\ Len(half \o back) = Len(s)
       /\ \A j \in 1..i : (half \o back)[j] = half[j]
       /\ \A j \in i + 1 .. Len(s) : (half \o back)[j] = back[j - i]
  <2>1. /\ half \o back \in Seq(E) /\ Len(half \o back) = Len(half) + Len(back)
        /\ \A j \in 1..Len(half) + Len(back) :
             (half \o back)[j] = IF j <= Len(half) THEN half[j] ELSE back[j - Len(half)]
    BY ZenonT(60), <1>8, <1>11, ConcatProperties
  <2>2. Len(s) \in Nat
    OBVIOUS
  <2>3. QED
    BY <1>6, <1>8, <1>11, <2>1, <2>2
<1>13. \A j \in i + 1 .. Len(s) : j \in 1..Len(s) /\ (half \o back)[j] = s[j]
  <2>1. Len(s) \in Nat
    OBVIOUS
  <2>2. SUFFICES ASSUME NEW j \in i + 1 .. Len(s)
                 PROVE  j \in 1..Len(s) /\ (half \o back)[j] = s[j]
    OBVIOUS
  <2>3. j \in 1..Len(s) /\ j - i \in 1..Len(s) - i /\ i + (j - i) = j
    BY <1>6, <2>1
  <2>4. (half \o back)[j] = back[j - i]
    BY <1>12
  <2>5. back[j - i] = s[i + (j - i)]
    BY <1>8, <2>3
  <2>6. QED
    BY <2>3, <2>4, <2>5
<1> DEFINE used == half \o back
           p == [j \in 1..Len(s) |-> IF j = 1 THEN i ELSE IF j <= i THEN j - 1 ELSE j]
<1>14. Used(s, key) = used
  BY <1>9 DEF half
<1>15. p \in [1..Len(s) -> 1..Len(s)] /\ \A j, k \in 1..Len(s) : p[j] = p[k] => j = k
  BY <1>6
<1>16. ASSUME NEW j \in 1..Len(s) PROVE used[j] = s[p[j]]
  <2>1. CASE j = 1
    BY <1>6, <1>11, <1>12, <2>1
  <2>2. CASE j # 1 /\ j <= i
    BY <1>6, <1>11, <1>12, <2>2
  <2>3. CASE ~(j <= i)
    <3>1. j \in i + 1 .. Len(s)
      BY <1>6, <2>3
    <3>2. p[j] = j
      BY <1>6, <2>3
    <3>3. QED
      BY <1>13, <3>1, <3>2
  <2>4. QED
    BY <2>1, <2>2, <2>3
<1> HIDE DEF used, p
<1>17. used \in Seq(E) /\ Len(used) = Len(s)
  BY <1>12 DEF used
<1>18. Rearranged(used, s)
  BY <1>15, <1>16, <1>17 DEF Rearranged
<1>19. QED
  BY <1>6, <1>14, <1>17, <1>18 DEF i

(* What is left after an eviction is a beginning, and within the budget    *)
(* unless it is the newest entry alone.                                    *)
LEMMA EvictedEffect ==
  ASSUME NEW E, NEW s \in Seq(E), s # <<>>
  PROVE  \E n \in DOMAIN s :
           /\ Evicted(s) = SubSeq(s, 1, n)
           /\ n = 1 \/ HeldBytes(SubSeq(s, 1, n)) <= Budget
<1> DEFINE S == {n \in DOMAIN s : n = 1 \/ HeldBytes(SubSeq(s, 1, n)) <= Budget}
<1>1. S \in SUBSET Nat /\ S # {} /\ Len(s) \in Nat /\ \A n \in S : n <= Len(s)
  <2>1. 1 \in S /\ DOMAIN s = 1..Len(s)
    OBVIOUS
  <2>2. QED
    BY <2>1
<1>2. Max(S) \in S
  <2> HIDE DEF S
  <2> DEFINE b == Len(s)
  <2>1. b \in Nat /\ \A n \in S : n <= b
    BY <1>1
  <2> HIDE DEF b
  <2>2. QED
    BY <1>1, <2>1, MaxExists
<1>3. QED
  BY <1>2 DEF Evicted

(* Storing an environment: it is in front, what follows was there before,  *)
(* and both bounds hold again.                                             *)
LEMMA StoredEffect ==
  ASSUME NEW E, NEW s \in Seq(E), NEW key, NEW environment, Entry(key, environment) \in E
  PROVE  /\ Stored(s, key, environment) \in Seq(E)
         /\ \A i \in DOMAIN Stored(s, key, environment) :
              \/ Stored(s, key, environment)[i] = Entry(key, environment)
              \/ \E j \in DOMAIN s : Stored(s, key, environment)[i] = s[j]
         /\ WithinBounds(Stored(s, key, environment))
<1> DEFINE new == Entry(key, environment)
           all == <<new>> \o s
           top == IF Len(all) < Slots THEN Len(all) ELSE Slots
           kept == SubSeq(all, 1, top)
<1>1. /\ all \in Seq(E) /\ Len(all) = Len(s) + 1 /\ all[1] = new
      /\ \A i \in 2..Len(all) : all[i] = s[i - 1]
  <2> HIDE DEF new
  <2>1. QED
    BY DEF new
<1> HIDE DEF new, all
<1>2. top \in 1..Len(all) /\ top <= Slots /\ Len(all) \in Nat
  BY <1>1, CacheAssumption
<1> HIDE DEF top
<1>3. /\ kept \in Seq(E) /\ Len(kept) = top
      /\ \A i \in 1..top : kept[i] = all[i]
  BY <1>1, <1>2, SubSeqProperties
<1>4. Stored(s, key, environment) = Evicted(kept)
  BY DEF Stored, Truncated, kept, top, all, new
<1> HIDE DEF kept
<1>5. kept # <<>>
  BY <1>2, <1>3
<1>6. PICK n \in DOMAIN kept :
        /\ Evicted(kept) = SubSeq(kept, 1, n)
        /\ n = 1 \/ HeldBytes(SubSeq(kept, 1, n)) <= Budget
  BY <1>3, <1>5, EvictedEffect
<1> DEFINE left == SubSeq(kept, 1, n)
<1>7. n \in 1..top
  BY <1>3, <1>6
<1>8. /\ left \in Seq(E) /\ Len(left) = n
      /\ \A i \in 1..n : left[i] = kept[i]
  BY <1>2, <1>3, <1>7, SubSeqProperties
<1> HIDE DEF left
<1>9. \A i \in 1..n : left[i] = all[i] /\ i \in 1..Len(all)
  BY <1>2, <1>3, <1>7, <1>8
<1>10. \A i \in 1..n : left[i] = new \/ \E j \in 1..Len(s) : left[i] = s[j]
  <2> SUFFICES ASSUME NEW i \in 1..n, i # 1 PROVE \E j \in 1..Len(s) : left[i] = s[j]
    BY <1>1, <1>9
  <2>1. i - 1 \in 1..Len(s) /\ all[i] = s[i - 1]
    BY <1>1, <1>2, <1>7, <1>9
  <2>2. QED
    BY <1>9, <2>1
<1>11. WithinBounds(left)
  <2>1. n # 1 => HeldBytes(left) <= Budget
    BY <1>6 DEF left
  <2>2. Len(left) = n /\ n <= Slots /\ n \in Nat
    <3>1. n \in Int /\ n <= top /\ 1 <= n /\ top <= Slots /\ top \in Int /\ Slots \in Int
      BY <1>2, <1>7, CacheAssumption
    <3>2. QED
      BY <1>8, <3>1
  <2>3. QED
    BY <2>1, <2>2 DEF WithinBounds
<1>12. QED
  BY <1>4, <1>6, <1>8, <1>10, <1>11 DEF left, new

LEMMA TakeEnvironmentStep ==
  ASSUME LibraryInvariant, NEW c \in Client, TakeEnvironment(c)
  PROVE  LibraryInvariant'
<1> USE DEF LibraryInvariant
<1> DEFINE key == ops[c].image
           E == [key : Image, environment : Image]
<1>1. OpSound(c) /\ ops[c].pc = "take" /\ UNCHANGED Shared /\ UNCHANGED restarts
  BY DEF TakeEnvironment, At, OpsSound, Shared
<1>2. key = ImageOf[ops[c].id] /\ cache \in Seq(E)
  BY <1>1 DEF OpSound, TypeOK
<1>3. CASE Positions(cache, key) # {}
  <2> DEFINE i == Found(cache, key)
  <2>1. /\ i \in DOMAIN cache /\ cache[i].key = key
        /\ Used(cache, key) \in Seq(E) /\ Rearranged(Used(cache, key), cache)
    BY <1>2, <1>3, UsedEffect
  <2>2. cache' = Used(cache, key) /\ Planned(c, cache[i].environment)
    BY <1>3 DEF TakeEnvironment
  <2> HIDE DEF i
  <2>3. cache[i].environment = key /\ cache[i].environment \in Image
    <3>1. cache[i] \in E
      BY <1>2, <2>1, EntryOf, Zenon
    <3>2. QED
      BY <2>1, <3>1 DEF CacheHonest
  <2>4. Others(c) /\ ops'[c].pc = "done" /\ ops'[c].id = ops[c].id /\ ops'[c].image = key
    BY <2>2, <2>3, PlannedEffect
  <2>5. OpSound(c)'
    BY <1>1, <1>2, <2>4 DEF OpSound, Importing, Removing, Shared
  <2>6. CacheHonest'
    <3>1. PICK p \in [1..Len(cache) -> 1..Len(cache)] :
            \A n \in 1..Len(cache) : cache'[n] = cache[p[n]]
      BY <2>1, <2>2 DEF Rearranged
    <3>2. DOMAIN cache' = 1..Len(cache) /\ DOMAIN cache = 1..Len(cache)
      BY <1>2, <2>1, <2>2 DEF Rearranged
    <3>3. QED
      BY <3>1, <3>2 DEF CacheHonest
  <2>7. QED
    BY <1>1, <2>1, <2>2, <2>4, <2>5, <2>6, QuietStep DEF Importing
<1>4. CASE Positions(cache, key) = {}
  <2>1. Goes(c, "load") /\ cache' = cache
    BY <1>4 DEF TakeEnvironment
  <2>2. Others(c) /\ ops'[c].pc = "load" /\ ops'[c].id = ops[c].id /\ ops'[c].image = ops[c].image
    BY <2>1, GoesEffect DEF Pcs
  <2>3. OpSound(c)'
    BY <1>1, <2>2 DEF OpSound, Importing, Removing, Shared
  <2>4. QED
    BY <1>1, <2>1, <2>2, <2>3, QuietStep DEF Importing, TypeOK, CacheHonest
<1>5. QED
  BY <1>3, <1>4

LEMMA StoreEnvironmentStep ==
  ASSUME LibraryInvariant, NEW c \in Client, StoreEnvironment(c)
  PROVE  LibraryInvariant'
<1> USE DEF LibraryInvariant
<1> DEFINE key == ops[c].image
           E == [key : Image, environment : Image]
           stored == Stored(cache, key, key)
<1>1. OpSound(c) /\ ops[c].pc = "load" /\ UNCHANGED Shared /\ UNCHANGED restarts
  BY DEF StoreEnvironment, At, OpsSound, Shared
<1>2. cache \in Seq(E) /\ key = ImageOf[ops[c].id] /\ key \in Image
  BY <1>1 DEF OpSound, TypeOK, Op
<1>3. Entry(key, key) \in E /\ Entry(key, key).key = Entry(key, key).environment
  BY <1>2 DEF Entry
<1>4. /\ stored \in Seq(E)
      /\ \A i \in DOMAIN stored : stored[i] = Entry(key, key) \/ \E j \in DOMAIN cache : stored[i] = cache[j]
  <2> HIDE DEF key, E
  <2>1. QED
    BY <1>2, <1>3, StoredEffect
<1>5. cache' = stored /\ Planned(c, key)
  BY DEF StoreEnvironment
<1> HIDE DEF stored
<1>6. Others(c) /\ ops'[c].pc = "done" /\ ops'[c].id = ops[c].id /\ ops'[c].image = key
  BY <1>2, <1>5, PlannedEffect
<1>7. OpSound(c)'
  BY <1>1, <1>2, <1>6 DEF OpSound, Importing, Removing, Shared
<1>8. CacheHonest'
  BY <1>3, <1>4, <1>5 DEF CacheHonest
<1>9. QED
  BY <1>1, <1>4, <1>5, <1>6, <1>7, <1>8, QuietStep DEF Importing

-----------------------------------------------------------------------------
(* Steps that change what the clients know or asked for.                   *)

LEMMA ImportStep ==
  ASSUME LibraryInvariant, NEW c \in Client, NEW id \in Fresh, Import(c, id)
  PROVE  LibraryInvariant'
<1> USE DEF LibraryInvariant
<1>1. /\ id \in Id /\ id \notin issued /\ issued' = issued \cup {id} /\ id \notin known
      /\ UNCHANGED <<disk, files, entries, cache, known, restarts, acked, asked, gone, overtaken>>
  BY ImageFacts DEF Import, FilesSound
<1> DEFINE pc == IF disk THEN "create" ELSE "insert"
<1>2. pc \in Pcs /\ pc \in Importing /\ pc # "push" /\ (disk <=> pc # "insert")
  BY DEF Pcs, Importing, TypeOK
<1>3. Starts(c, pc, id, None)
  BY DEF Import
<1> HIDE DEF pc
<1>4. Others(c) /\ ops'[c].pc = pc /\ ops'[c].id = id /\ ops'[c].image = None
  BY <1>1, <1>2, <1>3, StartsEffect
<1>5. TypeOK'
  BY <1>1, <1>4 DEF TypeOK, Others
<1>6. FilesSound' /\ EntriesSound' /\ MemoryOrdered' /\ CacheHonest'
  BY <1>1 DEF FilesSound, EntriesSound, MemoryOrdered, CacheHonest, Listed
<1>7. OpSound(c)'
  BY <1>1, <1>2, <1>4 DEF OpSound, Importing, Removing
<1>8. ASSUME NEW d \in Client \ {c} PROVE OpSound(d)'
  <2>1. ops'[d] = ops[d] /\ OpSound(d)
    BY <1>4 DEF Others, OpsSound
  <2>2. QED
    BY <1>1, <2>1 DEF OpSound, Listed
<1>9. OneImporter'
  <2>1. ASSUME NEW d \in Client \ {c}, ops'[d].pc \in Importing PROVE ops'[d].id # id
    <3>1. ops'[d] = ops[d] /\ OpSound(d)
      BY <1>4 DEF Others, OpsSound
    <3>2. QED
      BY <1>1, <2>1, <3>1 DEF OpSound
  <2>2. QED
    BY <1>4, <2>1 DEF OneImporter, Others
<1>10. RemovedSound'
  BY <1>1, <1>2, <1>4 DEF RemovedSound, Others, Listed, Importing
<1>11. AckedSound'
  BY <1>1 DEF AckedSound, Listed, Newer
<1>12. QED
  BY <1>5, <1>6, <1>7, <1>8, <1>9, <1>10, <1>11 DEF OpsSound

LEMMA RemoveMapStep ==
  ASSUME LibraryInvariant, NEW c \in Client, NEW id \in known, RemoveMap(c, id)
  PROVE  LibraryInvariant'
<1> USE DEF LibraryInvariant
<1>1. /\ id \in Id /\ asked' = asked \cup {id}
      /\ UNCHANGED <<disk, files, entries, cache, issued, known, restarts, acked, gone, overtaken>>
  BY DEF RemoveMap, TypeOK
<1> DEFINE pc == IF disk THEN "stat" ELSE "retain"
<1>2. pc \in Pcs /\ pc \in {"stat", "retain"} /\ (pc = "retain" => ~disk)
  BY DEF Pcs, TypeOK
<1>3. Starts(c, pc, id, None)
  BY DEF RemoveMap
<1> HIDE DEF pc
<1>4. Others(c) /\ ops'[c].pc = pc /\ ops'[c].id = id /\ ops'[c].image = None
  BY <1>1, <1>2, <1>3, StartsEffect
<1>5. TypeOK'
  BY <1>1, <1>4 DEF TypeOK, Others
<1>6. FilesSound' /\ EntriesSound' /\ MemoryOrdered' /\ CacheHonest'
  BY <1>1 DEF FilesSound, EntriesSound, MemoryOrdered, CacheHonest, Listed
<1>7. ~disk => files[id] = Absent
  BY <1>1 DEF FilesSound
<1>8. OpSound(c)'
  BY <1>1, <1>2, <1>4, <1>7 DEF OpSound, Importing, Removing
<1>9. ASSUME NEW d \in Client \ {c} PROVE OpSound(d)'
  <2>1. ops'[d] = ops[d] /\ OpSound(d)
    BY <1>4 DEF Others, OpsSound
  <2>2. QED
    BY <1>1, <2>1 DEF OpSound, Listed
<1>10. OneImporter'
  BY <1>2, <1>4 DEF OneImporter, Others, Importing
<1>11. RemovedSound'
  BY <1>1, <1>2, <1>4 DEF RemovedSound, Others, Listed
<1>12. AckedSound'
  BY <1>1 DEF AckedSound, Listed, Newer
<1>13. QED
  BY <1>5, <1>6, <1>8, <1>9, <1>10, <1>11, <1>12 DEF OpsSound

-----------------------------------------------------------------------------
(* Steps that change a file.                                               *)

(* The file of an import that was not answered yet may change: nothing but *)
(* that import depends on it.                                              *)
LEMMA UnansweredFile ==
  ASSUME LibraryInvariant, NEW c \in Client, NEW image \in {Partial, ImageOf[ops[c].id]},
         NEW pc \in {"write", "push"}, ops[c].pc \in {"create", "write"}, Goes(c, pc),
         pc = "push" => image = ImageOf[ops[c].id],
         files' = [files EXCEPT ![ops[c].id] = image],
         UNCHANGED <<disk, entries, cache, issued, known, restarts, acked, asked, gone, overtaken>>
  PROVE  LibraryInvariant'
<1> USE DEF LibraryInvariant
<1> DEFINE id == ops[c].id
<1>1. /\ OpSound(c) /\ id \in Fresh /\ id \in issued /\ id \notin known /\ id \in Id /\ disk
  BY ImageFacts DEF OpsSound, OpSound, Importing
<1>2. /\ Others(c) /\ ops'[c].pc = pc /\ ops'[c].id = id /\ ops'[c].image = ops[c].image
  BY GoesEffect DEF Pcs
<1> HIDE DEF id
<1>3. /\ files' \in [Id -> Image \cup {Absent, Partial}] /\ files'[id] = image
      /\ \A j \in Id \ {id} : files'[j] = files[j]
      /\ image \in {Partial, ImageOf[id]}
  BY <1>1, ImageFacts DEF TypeOK, id
<1>4. TypeOK'
  BY <1>2, <1>3 DEF TypeOK, Others
<1>5. FilesSound'
  BY <1>1, <1>3 DEF FilesSound, Listed
<1>6. EntriesSound' /\ MemoryOrdered' /\ CacheHonest'
  BY DEF EntriesSound, MemoryOrdered, CacheHonest, Listed
<1>7. OpSound(c)'
  BY <1>1, <1>2, <1>3 DEF OpSound, Importing, Removing, id
<1>8. ASSUME NEW d \in Client \ {c} PROVE OpSound(d)'
  <2>1. ops'[d] = ops[d] /\ OpSound(d)
    BY <1>2 DEF Others, OpsSound
  <2>2. ops[d].pc = "push" => ops[d].id \in Id \ {id}
    BY <2>1, ImageFacts DEF OpSound, Importing, OneImporter, id
  <2>3. ops[d].pc = "retain" => ops[d].id \in Id \ {id}
    BY <1>1, <2>1 DEF OpSound, Importing, TypeOK
  <2>4. QED
    BY <1>3, <2>1, <2>2, <2>3 DEF OpSound, Listed
<1>9. OneImporter'
  BY <1>2 DEF OneImporter, Others, Importing, id
<1>10. RemovedSound'
  BY SMTT(30), <1>1, <1>2, <1>3 DEF RemovedSound, Others, Listed, TypeOK
<1>11. AckedSound'
  <2>1. ASSUME NEW i \in DOMAIN acked PROVE acked[i] \in Id \ {id}
    BY <1>1, ImageFacts, EntryOf DEF AckedSound, TypeOK
  <2>2. QED
    BY <1>3, <2>1 DEF AckedSound, Listed, Newer
<1>12. QED
  BY <1>4, <1>5, <1>6, <1>7, <1>8, <1>9, <1>10, <1>11 DEF OpsSound

LEMMA CreateFileStep ==
  ASSUME LibraryInvariant, NEW c \in Client, CreateFile(c)
  PROVE  LibraryInvariant'
BY UnansweredFile DEF CreateFile, At

LEMMA WriteFileStep ==
  ASSUME LibraryInvariant, NEW c \in Client, WriteFile(c)
  PROVE  LibraryInvariant'
BY UnansweredFile DEF WriteFile, At

(* A deletion: the map is known and its removal was asked for.             *)
LEMMA UnlinkFileStep ==
  ASSUME LibraryInvariant, NEW c \in Client, UnlinkFile(c)
  PROVE  LibraryInvariant'
<1> USE DEF LibraryInvariant
<1> DEFINE id == ops[c].id
<1>1. /\ OpSound(c) /\ ops[c].pc = "unlink" /\ id \in known /\ id \in Id /\ id \in asked
      /\ UNCHANGED <<disk, entries, cache, issued, known, restarts, acked, asked, gone, overtaken>>
  BY DEF UnlinkFile, At, OpsSound, OpSound, Importing, Removing, TypeOK
<1>2. CASE files[id] = Absent
  <2>1. Ends(c, "error") /\ files' = files
    BY <1>2 DEF UnlinkFile
  <2>2. Others(c) /\ ops'[c].pc = "done" /\ ops'[c].id = id /\ ops'[c].image = ops[c].image
    BY <2>1, EndsEffect
  <2>3. OpSound(c)'
    BY <1>1, <2>2 DEF OpSound, Importing, Removing
  <2>4. QED
    BY <1>1, <2>1, <2>2, <2>3, QuietStep DEF Importing, TypeOK, CacheHonest, Shared
<1>3. CASE files[id] # Absent
  <2> DEFINE o == [ops[c] EXCEPT !.pc = "retain", !.then = "deleted"]
  <2>1. ops \in [Client -> Op] /\ ops[c] \in Op
    BY DEF TypeOK
  <2>2. ops' = [ops EXCEPT ![c] = o]
    BY <1>3, <2>1 DEF UnlinkFile, Op
  <2>3. o \in Op /\ o.pc = "retain" /\ o.id = id /\ o.image = ops[c].image
    BY <2>1 DEF Op, Pcs
  <2> HIDE DEF o
  <2>4. Others(c) /\ ops'[c].pc = "retain" /\ ops'[c].id = id /\ ops'[c].image = ops[c].image
    BY <2>1, <2>2, <2>3 DEF Others
  <2> HIDE DEF id
  <2>5. /\ files' \in [Id -> Image \cup {Absent, Partial}] /\ files'[id] = Absent
        /\ \A j \in Id \ {id} : files'[j] = files[j]
    BY <1>1, <1>3 DEF UnlinkFile, TypeOK, id
  <2>6. TypeOK'
    BY <1>1, <2>4, <2>5 DEF TypeOK, Others
  <2>7. FilesSound'
    BY <1>1, <2>5, ImageFacts DEF FilesSound, Listed
  <2>8. EntriesSound' /\ MemoryOrdered' /\ CacheHonest'
    BY <1>1 DEF EntriesSound, MemoryOrdered, CacheHonest, Listed
  <2>9. OpSound(c)'
    BY <1>1, <2>4, <2>5 DEF OpSound, Importing, Removing, id
  <2>10. ASSUME NEW d \in Client \ {c} PROVE OpSound(d)'
    <3>1. ops'[d] = ops[d] /\ OpSound(d)
      BY <2>4 DEF Others, OpsSound
    <3>2. ops[d].pc = "push" => ops[d].id \in Id \ {id}
      BY <1>1, <3>1, ImageFacts DEF OpSound, Importing
    <3>3. ops[d].pc = "retain" => ops[d].id \in Id
      BY <3>1 DEF OpSound, Importing, TypeOK
    <3>4. ops[d].pc = "retain" => files'[ops[d].id] = Absent
      BY <2>5, <3>1, <3>3 DEF OpSound
    <3>5. QED
      BY <1>1, <2>5, <3>1, <3>2, <3>4 DEF OpSound, Listed
  <2>11. OneImporter'
    BY <2>4 DEF OneImporter, Others, Importing
  <2>12. RemovedSound'
    <3>1. ASSUME NEW j \in Id, files[j] = Absent PROVE files'[j] = Absent
      BY <2>5, <3>1
    <3>2. QED
      BY <1>1, <2>4, <3>1 DEF RemovedSound, Others, Listed, TypeOK
  <2>13. AckedSound'
    <3>1. ASSUME NEW i \in DOMAIN acked PROVE acked[i] \in Id
      BY ImageFacts, EntryOf DEF TypeOK
    <3>2. QED
      BY <1>1, <2>5, <3>1 DEF AckedSound, Listed, Newer
  <2>14. QED
    BY <2>6, <2>7, <2>8, <2>9, <2>10, <2>11, <2>12, <2>13 DEF OpsSound
<1>4. QED
  BY <1>2, <1>3

(* Another process writes its file: no request knows it yet, or the file   *)
(* was there in part.                                                      *)
LEMMA WriteForeignStep ==
  ASSUME LibraryInvariant, NEW id \in Foreign, WriteForeign(id)
  PROVE  LibraryInvariant'
<1> USE DEF LibraryInvariant
<1>1. /\ id \in Id /\ id \notin Fresh /\ disk
      /\ issued' = issued \cup {id} /\ known' = known \cup {id}
      /\ UNCHANGED <<disk, entries, ops, cache, restarts, acked, asked, gone, overtaken>>
  BY ImageFacts, LibraryAssumption DEF WriteForeign
<1>2. PICK image \in {Partial, ImageOf[id]} :
        /\ files' = [files EXCEPT ![id] = image]
        /\ id \notin issued \/ files[id] = Partial
  BY DEF WriteForeign
<1>3. /\ files' \in [Id -> Image \cup {Absent, Partial}] /\ files'[id] = image
      /\ \A j \in Id \ {id} : files'[j] = files[j]
  BY <1>1, <1>2, ImageFacts DEF TypeOK
<1>4. TypeOK'
  BY <1>1, <1>3 DEF TypeOK
<1>5. FilesSound'
  BY <1>1, <1>2, <1>3, ImageFacts DEF FilesSound, Listed
<1>6. EntriesSound' /\ MemoryOrdered' /\ CacheHonest' /\ OneImporter'
  BY <1>1 DEF EntriesSound, MemoryOrdered, CacheHonest, OneImporter, Listed
<1>7. ASSUME NEW j \in known, files[j] = Absent PROVE j # id
  BY <1>2, <1>7 DEF FilesSound, Absent, Partial
<1>8. ASSUME NEW d \in Client PROVE OpSound(d)'
  <2>1. ops'[d] = ops[d] /\ OpSound(d)
    BY <1>1 DEF OpsSound
  <2>2. ops[d].pc \in Importing => ops[d].id \in Id \ {id}
    BY <1>1, <2>1, ImageFacts DEF OpSound
  <2>3. ops[d].pc = "retain" => ops[d].id \in Id \ {id}
    BY <1>7, <2>1 DEF OpSound, Importing, TypeOK
  <2>4. QED
    BY <1>1, <1>3, <2>1, <2>2, <2>3 DEF OpSound, Listed, Importing
<1>9. RemovedSound'
  <2>1. ASSUME NEW j \in gone \ overtaken PROVE j \in Id \ {id}
    BY <1>7, <2>1 DEF RemovedSound, TypeOK
  <2>2. QED
    BY <1>1, <1>3, <2>1 DEF RemovedSound, Listed
<1>10. AckedSound'
  <2>1. ASSUME NEW i \in DOMAIN acked PROVE acked[i] \in Id \ {id}
    BY <1>1, ImageFacts, EntryOf DEF TypeOK
  <2>2. QED
    BY <1>1, <1>3, <2>1 DEF AckedSound, Listed, Newer
<1>11. QED
  BY <1>4, <1>5, <1>6, <1>8, <1>9, <1>10 DEF OpsSound

-----------------------------------------------------------------------------
(* Steps that change the entries.                                          *)

LEMMA OneMore ==
  ASSUME NEW S, NEW x, IsFiniteSet(S)
  PROVE  Cardinality(S) \in Nat /\ Cardinality(S \cup {x}) <= Cardinality(S) + 1
<1>1. Cardinality(S) \in Nat
  BY FS_CardinalityType
<1>2. Cardinality(S \cup {x}) = IF x \in S THEN Cardinality(S) ELSE Cardinality(S) + 1
  BY FS_AddElement, Zenon
<1>3. QED
  BY <1>1, <1>2

(* Of entries in different places, fewer than Keep have fewer than Keep    *)
(* newer ones behind them.                                                 *)
LEMMA KeptFit ==
  ASSUME NEW store \in SUBSET [id : Id, image : Image, at : Nat], IsFiniteSet(store),
         \A e, f \in store : e.at = f.at => e = f
  PROVE  Cardinality({e \in store : Cardinality(Newer(store, e)) < Keep}) <= Keep
<1> DEFINE K == {e \in store : Cardinality(Newer(store, e)) < Keep}
           rank == [e \in K |-> Cardinality(Newer(store, e))]
           places == 0..Keep - 1
<1>1. \A e \in store : IsFiniteSet(Newer(store, e)) /\ Cardinality(Newer(store, e)) \in Nat
  <2>1. \A e \in store : Newer(store, e) \in SUBSET store
    BY DEF Newer
  <2>2. QED
    BY <2>1, FS_Subset, FS_CardinalityType
<1>2. Keep \in Nat /\ Keep >= 1
  BY LibraryAssumption
<1>3. rank \in [K -> places]
  BY <1>1, <1>2
<1>4. ASSUME NEW e \in store, NEW f \in store, e.at < f.at
      PROVE  Cardinality(Newer(store, f)) < Cardinality(Newer(store, e))
  <2>1. Newer(store, f) \in SUBSET Newer(store, e)
    BY <1>4 DEF Newer
  <2>2. f \in Newer(store, e) /\ f \notin Newer(store, f)
    BY <1>4 DEF Newer
  <2>3. /\ Cardinality(Newer(store, f)) <= Cardinality(Newer(store, e))
        /\ Cardinality(Newer(store, f)) # Cardinality(Newer(store, e))
    BY <1>1, <2>1, <2>2, FS_Subset
  <2>4. QED
    BY <1>1, <2>3
<1>5. ASSUME NEW e \in K, NEW f \in K, rank[e] = rank[f] PROVE e = f
  <2>1. e.at \in Nat /\ f.at \in Nat /\ rank[e] \in Nat
    BY <1>1
  <2>2. ~(e.at < f.at) /\ ~(f.at < e.at)
    BY <1>1, <1>4, <1>5
  <2>3. e.at = f.at
    BY <2>1, <2>2
  <2>4. QED
    BY <2>3
<1>6. rank \in Injection(K, places)
  <2> HIDE DEF rank, K, places
  <2>1. QED
    BY <1>3, <1>5 DEF Injection, IsInjective
<1>7. IsFiniteSet(places) /\ Cardinality(places) = Keep
  BY <1>2, FS_Interval
<1>8. Cardinality(K) <= Cardinality(places)
  <2> HIDE DEF rank, K, places
  <2>1. QED
    BY <1>6, <1>7, FS_Injection
<1>9. QED
  BY <1>7, <1>8

(* An answer to an import makes a name known that nobody else uses.        *)
LEMMA AnsweredNames ==
  ASSUME LibraryInvariant, NEW c \in Client, ops[c].pc \in {"push", "insert"}, Acknowledge(c)
  PROVE  /\ ops[c].id \in Fresh /\ ops[c].id \in Id /\ ops[c].id \in issued
         /\ ops[c].id \notin known /\ ops[c].id \notin Listed
         /\ known' = known \cup {ops[c].id} /\ acked' = Append(acked, ops[c].id)
         /\ UNCHANGED <<disk, files, cache, issued, restarts, asked, gone, overtaken>>
         /\ Others(c) /\ ops'[c].pc = "done" /\ ops'[c].id = ops[c].id
         /\ ops'[c].image = ops[c].image
         /\ acked' \in Seq(Fresh) /\ Len(acked') = Len(acked) + 1
         /\ acked'[Len(acked) + 1] = ops[c].id
         /\ \A i \in DOMAIN acked : acked'[i] = acked[i]
<1> USE DEF LibraryInvariant
<1> DEFINE id == ops[c].id
<1>1. OpSound(c)
  BY DEF OpsSound
<1>2. id \in Fresh /\ id \in Id /\ id \in issued /\ id \notin known /\ id \notin Listed
  BY <1>1, ImageFacts DEF OpSound, Importing, EntriesSound, Listed
<1>3. /\ Ends(c, "ok") /\ known' = known \cup {id} /\ acked' = Append(acked, id)
      /\ UNCHANGED <<disk, files, cache, issued, restarts, asked, gone, overtaken>>
  BY DEF Acknowledge
<1>4. Others(c) /\ ops'[c].pc = "done" /\ ops'[c].id = id /\ ops'[c].image = ops[c].image
  BY <1>3, EndsEffect
<1>5. acked \in Seq(Fresh)
  BY DEF TypeOK
<1> HIDE DEF id
<1>6. /\ acked' \in Seq(Fresh) /\ Len(acked') = Len(acked) + 1
      /\ acked'[Len(acked) + 1] = id /\ \A i \in DOMAIN acked : acked'[i] = acked[i]
  BY <1>2, <1>3, <1>5
<1>7. QED
  BY <1>2, <1>3, <1>4, <1>6 DEF id

(* What the answer to an import leaves to show is about the entries only.  *)
LEMMA AnswerKeeps ==
  ASSUME LibraryInvariant, NEW c \in Client, ops[c].pc \in {"push", "insert"}, Acknowledge(c),
         Listed' \subseteq Listed \cup {ops[c].id}, disk => Listed' = Listed \cup {ops[c].id},
         entries' \subseteq [id : Id, image : Image, at : Nat]
  PROVE  TypeOK' /\ FilesSound' /\ OpsSound' /\ OneImporter' /\ CacheHonest' /\ RemovedSound'
<1> USE DEF LibraryInvariant
<1> DEFINE id == ops[c].id
<1>1. /\ id \in Fresh /\ id \in Id /\ id \in issued /\ id \notin known /\ id \notin Listed
      /\ known' = known \cup {id}
      /\ UNCHANGED <<disk, files, cache, issued, restarts, asked, gone, overtaken>>
      /\ Others(c) /\ ops'[c].pc = "done" /\ ops'[c].id = id /\ ops'[c].image = ops[c].image
      /\ acked' \in Seq(Fresh)
  BY AnsweredNames
<1>2. OpSound(c)
  BY DEF OpsSound
<1>3. TypeOK'
  BY <1>1 DEF TypeOK, Others
<1>4. FilesSound'
  <2>1. disk => files[id] = ImageOf[id] /\ files[id] # Partial
    BY <1>1, <1>2, ImageFacts DEF OpSound, Importing
  <2>2. ~disk => \A j \in Id : files[j] = Absent
    BY DEF FilesSound
  <2>3. QED
    BY <1>1, <2>1, <2>2, ImageFacts DEF FilesSound
<1>5. OpSound(c)'
  BY <1>1, <1>2 DEF OpSound, Importing, Removing
<1>6. ASSUME NEW d \in Client \ {c} PROVE OpSound(d)'
  <2>1. ops'[d] = ops[d] /\ OpSound(d)
    BY <1>1 DEF Others, OpsSound
  <2>2. ops[d].pc \in Importing => ops[d].id # id
    BY DEF OneImporter, Importing
  <2>3. ops[d].pc = "isfile" => ops[d].id # id
    BY <1>1, <2>1 DEF OpSound, Importing
  <2>4. QED
    BY <1>1, <2>1, <2>2, <2>3 DEF OpSound
<1>7. OneImporter'
  BY <1>1 DEF OneImporter, Others, Importing
<1>8. CacheHonest'
  BY <1>1 DEF CacheHonest
<1>9. RemovedSound'
  <2>1. ASSUME NEW j \in gone PROVE j # id
    BY <1>1 DEF RemovedSound
  <2>2. QED
    BY <1>1, <2>1 DEF RemovedSound, Others
<1>10. QED
  BY <1>3, <1>4, <1>5, <1>6, <1>7, <1>8, <1>9 DEF OpsSound

LEMMA PushEntryStep ==
  ASSUME LibraryInvariant, NEW c \in Client, PushEntry(c)
  PROVE  LibraryInvariant'
<1> USE DEF LibraryInvariant
<1> DEFINE id == ops[c].id
<1>1. ops[c].pc = "push" /\ Acknowledge(c) /\ entries' = Pushed(entries, id, ImageOf[id]) /\ OpSound(c)
  BY DEF PushEntry, At, OpsSound
<1>2. /\ id \in Id /\ id \notin known /\ id \notin Listed /\ ImageOf[id] \in Image
      /\ known' = known \cup {id} /\ disk' = disk /\ files' = files /\ asked' = asked
      /\ disk /\ files[id] = ImageOf[id]
      /\ Len(acked') = Len(acked) + 1 /\ acked' \in Seq(Fresh) /\ acked'[Len(acked) + 1] = id
      /\ \A i \in DOMAIN acked : acked'[i] = acked[i]
  BY <1>1, AnsweredNames, ImageFacts DEF OpSound, Importing
<1>3. PICK b \in Nat : \A e \in entries : e.at <= b
  BY DEF EntriesSound
<1>4. entries \in SUBSET [id : Id, image : Image, at : Nat] /\ IsFiniteSet(entries)
  BY DEF EntriesSound, TypeOK
<1> DEFINE image == ImageOf[id]
<1> HIDE DEF id
<1>5. PICK new \in [id : Id, image : Image, at : Nat] :
        /\ new.id = id /\ new.image = ImageOf[id] /\ new.at <= b + 1
        /\ entries' = entries \cup {new} /\ IsFiniteSet(entries')
  <2>1. id \in Id /\ image \in Image /\ entries' = Pushed(entries, id, image)
    BY <1>1, <1>2
  <2> HIDE DEF image
  <2>2. \E new \in [id : Id, image : Image, at : Nat] :
          /\ new.id = id /\ new.image = image /\ new.at <= b + 1
          /\ Pushed(entries, id, image) = entries \cup {new}
          /\ IsFiniteSet(Pushed(entries, id, image))
    BY SMTT(30), <1>3, <1>4, <2>1, PushedEffect
  <2>3. QED
    BY <2>1, <2>2 DEF image
<1>6. Listed' = Listed \cup {id} /\ entries' \subseteq [id : Id, image : Image, at : Nat]
  BY <1>4, <1>5 DEF Listed
<1>7. TypeOK' /\ FilesSound' /\ OpsSound' /\ OneImporter' /\ CacheHonest' /\ RemovedSound'
  BY <1>1, <1>6, AnswerKeeps DEF id
<1>8. EntriesSound'
  <2>1. b + 1 \in Nat /\ \A e \in entries' : e.at <= b + 1
    BY <1>3, <1>4, <1>5
  <2>2. \A e \in entries' : e.id \in known' /\ e.image = ImageOf[e.id]
    BY <1>2, <1>5 DEF EntriesSound
  <2>3. \A e, f \in entries' : e.id = f.id => e = f
    BY <1>2, <1>5 DEF EntriesSound, Listed
  <2>4. QED
    BY <1>5, <2>1, <2>2, <2>3 DEF EntriesSound
<1>9. MemoryOrdered'
  BY <1>2 DEF MemoryOrdered
<1>10. AckedSound'
  <2>1. ASSUME NEW i \in DOMAIN acked'
        PROVE  acked'[i] \in known' /\ (acked'[i] \notin asked => acked'[i] \in Listed' /\ files[acked'[i]] = ImageOf[acked'[i]])
    <3>1. CASE i = Len(acked) + 1
      BY <1>2, <1>6, <3>1
    <3>2. CASE i # Len(acked) + 1
      <4>1. i \in DOMAIN acked
        BY <1>2, <3>2 DEF TypeOK
      <4>2. QED
        BY <1>2, <1>6, <4>1 DEF AckedSound
    <3>3. QED
      BY <3>1, <3>2
  <2>2. QED
    BY <1>2, <2>1 DEF AckedSound
<1>11. QED
  BY <1>7, <1>8, <1>9, <1>10

LEMMA InsertEntryStep ==
  ASSUME LibraryInvariant, NEW c \in Client, InsertEntry(c)
  PROVE  LibraryInvariant'
<1> USE DEF LibraryInvariant
<1> DEFINE id == ops[c].id
           more == Pushed(entries, id, ImageOf[id])
           R == [id : Id, image : Image, at : Nat]
<1>1. /\ ops[c].pc = "insert" /\ Acknowledge(c) /\ OpSound(c)
      /\ entries' = {e \in more : Cardinality(Newer(more, e)) < Keep}
  BY DEF InsertEntry, At, OpsSound
<1>2. /\ id \in Id /\ id \notin known /\ id \notin Listed /\ ImageOf[id] \in Image
      /\ known' = known \cup {id} /\ disk' = disk /\ files' = files /\ asked' = asked
      /\ ~disk
      /\ Len(acked') = Len(acked) + 1 /\ acked' \in Seq(Fresh) /\ acked'[Len(acked) + 1] = id
      /\ \A i \in DOMAIN acked : acked'[i] = acked[i]
  BY <1>1, AnsweredNames, ImageFacts DEF OpSound, Importing
<1>3. PICK b \in Nat : \A e \in entries : e.at <= b
  BY DEF EntriesSound
<1>4. entries \in SUBSET R /\ IsFiniteSet(entries)
  BY DEF EntriesSound, TypeOK
<1>5. \A e, f \in entries : e.at = f.at => e = f
  BY <1>2 DEF MemoryOrdered
<1> HIDE DEF id
<1>6. PICK new \in R :
        /\ new.id = id /\ new.image = ImageOf[id]
        /\ \A e \in entries : e.at < new.at
        /\ new.at <= b + 1
        /\ more = entries \cup {new} /\ IsFiniteSet(more)
  <2> DEFINE image == ImageOf[id]
  <2>1. id \in Id /\ image \in Image /\ more = Pushed(entries, id, image)
    BY <1>2
  <2> HIDE DEF image, more
  <2>2. IsFiniteSet(entries) /\ id \in Id /\ image \in Image
    BY <1>4, <2>1
  <2>3. entries \in SUBSET [id : Id, image : Image, at : Nat] /\ \A e \in entries : e.at <= b
    BY <1>3, <1>4
  <2>4. \E new \in [id : Id, image : Image, at : Nat] :
          /\ new.id = id /\ new.image = image
          /\ \A e \in entries : e.at < new.at
          /\ new.at <= b + 1
          /\ Pushed(entries, id, image) = entries \cup {new}
          /\ IsFiniteSet(Pushed(entries, id, image))
          /\ Cardinality(Pushed(entries, id, image)) = Cardinality(entries) + 1
    <3> HIDE DEF R
    <3>1. QED
      BY <2>2, <2>3, PushedEffect
  <2>5. QED
    BY <2>1, <2>4 DEF image
<1>7. more \in SUBSET R /\ entries' \in SUBSET more
  BY <1>1, <1>4, <1>6
<1> HIDE DEF more
<1>8. \A e, f \in more : (e.at = f.at => e = f) /\ (e.id = f.id => e = f)
  <2>1. \A e \in entries : e.at # new.at /\ e.id # new.id
    BY <1>2, <1>4, <1>6 DEF Listed
  <2>2. QED
    BY <1>5, <1>6, <2>1 DEF EntriesSound
<1>9. IsFiniteSet(entries') /\ Cardinality(entries') <= Keep
  <2>1. Cardinality(entries') <= Keep
    BY <1>1, <1>6, <1>7, <1>8, KeptFit
  <2>2. QED
    BY <1>6, <1>7, <2>1, FS_Subset
<1>10. TypeOK' /\ FilesSound' /\ OpsSound' /\ OneImporter' /\ CacheHonest' /\ RemovedSound'
  <2>1. Listed' \subseteq Listed \cup {id} /\ entries' \subseteq R
    BY <1>6, <1>7 DEF Listed
  <2>2. QED
    BY <1>1, <1>2, <2>1, AnswerKeeps DEF id
<1>11. EntriesSound'
  <2>1. b + 1 \in Nat /\ \A e \in entries' : e.at <= b + 1
    BY <1>3, <1>4, <1>6, <1>7
  <2>2. \A e \in entries' : e.id \in known' /\ e.image = ImageOf[e.id]
    BY <1>2, <1>6, <1>7 DEF EntriesSound
  <2>3. QED
    BY <1>7, <1>8, <1>9, <2>1, <2>2 DEF EntriesSound
<1>12. MemoryOrdered'
  BY <1>7, <1>8, <1>9 DEF MemoryOrdered
<1>13. ASSUME NEW e \in more
       PROVE  /\ IsFiniteSet(Newer(more, e)) /\ Cardinality(Newer(more, e)) \in Nat
              /\ Cardinality(Newer(entries', e)) <= Cardinality(Newer(more, e))
              /\ Cardinality(Newer(entries', e)) \in Nat
  <2>1. Newer(more, e) \in SUBSET more /\ Newer(entries', e) \in SUBSET Newer(more, e)
    BY <1>7 DEF Newer
  <2>2. QED
    BY <1>6, <2>1, FS_Subset, FS_CardinalityType
<1>14. AckedSound'
  <2>1. ASSUME NEW i \in DOMAIN acked', acked'[i] \notin asked, Len(acked') - i < Keep
        PROVE  \E e \in entries' : e.id = acked'[i] /\ Cardinality(Newer(entries', e)) <= Len(acked') - i
    <3>1. CASE i = Len(acked) + 1
      <4>1. Newer(more, new) = {}
        BY <1>4, <1>6 DEF Newer
      <4>2. Cardinality(Newer(more, new)) = 0 /\ Len(acked') - i = 0
        BY <1>2, <3>1, <4>1, FS_EmptySet
      <4>3. new \in entries' /\ new.id = acked'[i]
        BY <1>1, <1>2, <1>6, <2>1, <3>1, <4>2 DEF more
      <4>4. Cardinality(Newer(entries', new)) <= 0
        BY <1>6, <1>13, <4>2
      <4>5. QED
        BY <4>2, <4>3, <4>4
    <3>2. CASE i # Len(acked) + 1
      <4>1. /\ i \in DOMAIN acked /\ acked'[i] = acked[i] /\ Len(acked) - i < Keep
            /\ Len(acked') - i = (Len(acked) - i) + 1 /\ Len(acked) - i \in Nat
        BY <1>2, <2>1, <3>2, LibraryAssumption DEF TypeOK
      <4>2. PICK e \in entries : e.id = acked[i] /\ Cardinality(Newer(entries, e)) <= Len(acked) - i
        BY <1>2, <2>1, <4>1 DEF AckedSound
      <4>3. IsFiniteSet(Newer(entries, e)) /\ Cardinality(Newer(entries, e)) \in Nat
        <5>1. Newer(entries, e) \in SUBSET entries
          BY DEF Newer
        <5>2. QED
          BY <1>4, <5>1, FS_Subset, FS_CardinalityType
      <4>4. Newer(more, e) = Newer(entries, e) \cup {new} /\ e \in more
        BY <1>4, <1>6 DEF Newer
      <4> DEFINE before == Cardinality(Newer(entries, e))
                 between == Cardinality(Newer(more, e))
                 after == Cardinality(Newer(entries', e))
                 k == Len(acked) - i
      <4>5. between <= before + 1
        BY <4>3, <4>4, OneMore
      <4>6. between \in Nat /\ after \in Nat /\ after <= between /\ before \in Nat /\ before <= k
        BY <1>13, <4>2, <4>3, <4>4
      <4>7. k \in Nat /\ Keep \in Nat /\ Len(acked') - i = k + 1 /\ k + 1 < Keep
        BY <2>1, <4>1, LibraryAssumption
      <4> HIDE DEF before, between, after, k
      <4>8. between < Keep /\ after <= k + 1
        BY <4>5, <4>6, <4>7
      <4>9. e \in entries'
        BY <1>1, <4>4, <4>8 DEF between, more
      <4>10. Cardinality(Newer(entries', e)) <= Len(acked') - i
        BY <4>7, <4>8 DEF after
      <4>11. QED
        BY <4>1, <4>2, <4>9, <4>10
    <3>3. QED
      BY <3>1, <3>2
  <2>2. ASSUME NEW i \in DOMAIN acked' PROVE acked'[i] \in known'
    <3>1. i = Len(acked) + 1 \/ i \in DOMAIN acked
      BY <1>2 DEF TypeOK
    <3>2. QED
      BY <1>2, <3>1 DEF AckedSound
  <2>3. QED
    BY <1>2, <2>1, <2>2 DEF AckedSound
<1>15. QED
  BY <1>10, <1>11, <1>12, <1>14

LEMMA EnterReadStep ==
  ASSUME LibraryInvariant, NEW c \in Client, EnterRead(c)
  PROVE  LibraryInvariant'
<1> USE DEF LibraryInvariant
<1> DEFINE id == ops[c].id
           image == ops[c].image
<1>1. /\ OpSound(c) /\ ops[c].pc = "enter" /\ disk /\ id \in known /\ id \in Foreign /\ id \in Id
      /\ image = ImageOf[id] /\ image \in Image /\ Delivered(c, image)
      /\ UNCHANGED <<disk, files, cache, issued, known, restarts, acked, asked, gone, overtaken>>
  BY ImageFacts DEF EnterRead, At, OpsSound, OpSound, Importing
<1>2. /\ Others(c) /\ ops'[c].pc \in {"done", "queued", "take"} /\ ops'[c].id = id
      /\ ops'[c].image = image
  BY <1>1, DeliveredEffect
<1>3. OpSound(c)'
  BY <1>1, <1>2, ImageFacts DEF OpSound, Importing, Removing
<1>4. CASE id \in Listed
  <2>1. entries' = entries
    BY <1>4 DEF EnterRead
  <2>2. QED
    BY <1>1, <1>2, <1>3, <2>1, QuietStep DEF Importing, TypeOK, CacheHonest, Shared
<1>5. CASE id \notin Listed
  <2>1. PICK b \in Nat : \A e \in entries : e.at <= b
    BY DEF EntriesSound
  <2>2. entries \in SUBSET [id : Id, image : Image, at : Nat] /\ IsFiniteSet(entries)
    BY DEF EntriesSound, TypeOK
  <2>3. entries' = Pushed(entries, id, image)
    BY <1>5 DEF EnterRead
  <2>4. OpSound(c) /\ (\A d \in Client : ops[d].pc = "enter" => ops[d].id \in Foreign)
    BY DEF OpsSound, OpSound
  <2>5. id \notin gone \ overtaken
    BY <1>1 DEF RemovedSound
  <2> HIDE DEF id, image
  <2>6. PICK new \in [id : Id, image : Image, at : Nat] :
          /\ new.id = id /\ new.image = image /\ new.at <= b + 1
          /\ entries' = entries \cup {new} /\ IsFiniteSet(entries')
    <3>1. \E new \in [id : Id, image : Image, at : Nat] :
            /\ new.id = id /\ new.image = image /\ new.at <= b + 1
            /\ Pushed(entries, id, image) = entries \cup {new}
            /\ IsFiniteSet(Pushed(entries, id, image))
      BY <1>1, <2>1, <2>2, PushedEffect
    <3>2. QED
      BY <2>3, <3>1
  <2>7. Listed' = Listed \cup {id} /\ entries' \subseteq [id : Id, image : Image, at : Nat]
    BY <2>2, <2>6 DEF Listed
  <2>8. TypeOK'
    BY <1>1, <1>2, <2>7 DEF TypeOK, Others
  <2>9. FilesSound'
    BY <1>1, <2>7 DEF FilesSound
  <2>10. EntriesSound'
    <3>1. b + 1 \in Nat /\ \A e \in entries' : e.at <= b + 1
      BY <2>1, <2>2, <2>6
    <3>2. \A e \in entries' : e.id \in known' /\ e.image = ImageOf[e.id]
      BY <1>1, <2>6 DEF EntriesSound
    <3>3. \A e, f \in entries' : e.id = f.id => e = f
      BY <1>5, <2>6 DEF EntriesSound, Listed
    <3>4. QED
      BY <2>6, <3>1, <3>2, <3>3 DEF EntriesSound
  <2>11. MemoryOrdered' /\ CacheHonest'
    BY <1>1 DEF MemoryOrdered, CacheHonest
  <2>12. ASSUME NEW d \in Client \ {c} PROVE OpSound(d)'
    <3>1. ops'[d] = ops[d] /\ OpSound(d)
      BY <1>2 DEF Others, OpsSound
    <3>2. id \notin Fresh
      BY <1>1, LibraryAssumption
    <3>3. QED
      BY <1>1, <2>7, <3>1, <3>2 DEF OpSound
  <2>13. OneImporter'
    BY <1>2 DEF OneImporter, Others, Importing
  <2>14. RemovedSound'
    BY <1>1, <1>2, <2>5, <2>7 DEF RemovedSound, Others
  <2>15. AckedSound'
    BY <1>1, <2>7 DEF AckedSound
  <2>16. QED
    BY <1>3, <2>8, <2>9, <2>10, <2>11, <2>12, <2>13, <2>14, <2>15 DEF OpsSound
<1>6. QED
  BY <1>4, <1>5

LEMMA RetainEntriesStep ==
  ASSUME LibraryInvariant, NEW c \in Client, RetainEntries(c)
  PROVE  LibraryInvariant'
<1> USE DEF LibraryInvariant
<1> DEFINE id == ops[c].id
<1>1. /\ OpSound(c) /\ ops[c].pc = "retain" /\ id \in known /\ id \in Id /\ id \in asked
      /\ files[id] = Absent
      /\ entries' = {e \in entries : e.id # id} /\ gone' = gone \cup {id}
      /\ overtaken' = IF Reading(id) THEN overtaken \cup {id} ELSE overtaken
      /\ UNCHANGED <<disk, files, cache, issued, known, restarts, acked, asked>>
  BY DEF RetainEntries, At, OpsSound, OpSound, Importing, Removing, TypeOK
<1>2. Others(c) /\ ops'[c].pc = "done" /\ ops'[c].id = id /\ ops'[c].image = ops[c].image
  <2>1. PICK answer \in {"ok", "notfound"} : Ends(c, answer)
    BY DEF RetainEntries
  <2>2. QED
    BY <2>1, EndsEffect
<1>3. Reading(id) => id \in Foreign
  BY DEF Reading, OpsSound, OpSound
<1>4. OpSound(c)'
  BY <1>1, <1>2 DEF OpSound, Importing, Removing
<1> HIDE DEF id
<1>5. Listed' = Listed \ {id} /\ entries' \in SUBSET entries
  BY <1>1 DEF Listed
<1>6. TypeOK'
  BY <1>1, <1>2, <1>5 DEF TypeOK, Others
<1>7. FilesSound'
  BY <1>1, <1>5 DEF FilesSound
<1>8. IsFiniteSet(entries') /\ Cardinality(entries') <= Cardinality(entries)
      /\ Cardinality(entries') \in Nat /\ Cardinality(entries) \in Nat
  BY <1>5, FS_Subset, FS_CardinalityType DEF EntriesSound
<1>9. EntriesSound'
  BY <1>1, <1>5, <1>8 DEF EntriesSound
<1>10. MemoryOrdered'
  <2>1. ~disk => Cardinality(entries') <= Keep
    BY <1>8, LibraryAssumption DEF MemoryOrdered
  <2>2. QED
    BY <1>1, <1>5, <2>1 DEF MemoryOrdered
<1>11. ASSUME NEW d \in Client \ {c} PROVE OpSound(d)'
  <2>1. ops'[d] = ops[d] /\ OpSound(d)
    BY <1>2 DEF Others, OpsSound
  <2>2. QED
    BY <1>1, <1>5, <2>1 DEF OpSound
<1>12. OneImporter' /\ CacheHonest'
  BY <1>1, <1>2 DEF OneImporter, Others, Importing, CacheHonest
<1>13. RemovedSound'
  <2>1. gone' \subseteq known' /\ overtaken' \subseteq Foreign
    BY <1>1, <1>3 DEF RemovedSound
  <2>2. ASSUME NEW j \in gone' \ overtaken', NEW d \in Client, ops'[d].pc = "enter", ops'[d].id = j
        PROVE  FALSE
    <3>1. d # c /\ ops[d].pc = "enter" /\ ops[d].id = j
      BY <1>2, <2>2 DEF Others
    <3>2. j # id
      BY <1>1, <2>2, <3>1 DEF Reading
    <3>3. j \in gone \ overtaken
      BY <1>1, <2>2, <3>2
    <3>4. QED
      BY <3>1, <3>3 DEF RemovedSound
  <2>3. ASSUME NEW j \in gone' \ overtaken' PROVE j \notin Listed' /\ files'[j] = Absent
    BY <1>1, <1>5, <2>3 DEF RemovedSound
  <2>4. QED
    BY <2>1, <2>2, <2>3 DEF RemovedSound
<1>14. AckedSound'
  <2>1. ASSUME NEW i \in DOMAIN acked, ~disk, acked[i] \notin asked, Len(acked) - i < Keep
        PROVE  \E e \in entries' : e.id = acked[i] /\ Cardinality(Newer(entries', e)) <= Len(acked) - i
    <3>1. PICK e \in entries : e.id = acked[i] /\ Cardinality(Newer(entries, e)) <= Len(acked) - i
      BY <2>1 DEF AckedSound
    <3>2. e \in entries'
      BY <1>1, <2>1, <3>1
    <3>3. Newer(entries, e) \in SUBSET entries /\ Newer(entries', e) \in SUBSET Newer(entries, e)
      BY <1>5 DEF Newer
    <3>4. /\ IsFiniteSet(Newer(entries, e))
          /\ Cardinality(Newer(entries', e)) <= Cardinality(Newer(entries, e))
          /\ Cardinality(Newer(entries', e)) \in Nat /\ Cardinality(Newer(entries, e)) \in Nat
      BY <3>3, FS_Subset, FS_CardinalityType DEF EntriesSound
    <3> DEFINE after == Cardinality(Newer(entries', e))
               before == Cardinality(Newer(entries, e))
               k == Len(acked) - i
    <3>5. after <= before /\ after \in Nat /\ before \in Nat /\ before <= k /\ k \in Int
      BY <3>1, <3>4 DEF TypeOK
    <3> HIDE DEF after, before, k
    <3>6. after <= k
      BY <3>5
    <3>7. QED
      BY <3>1, <3>2, <3>6 DEF after, k
  <2>2. ASSUME NEW i \in DOMAIN acked, acked[i] \notin asked, disk
        PROVE  acked[i] \in Listed' /\ files[acked[i]] = ImageOf[acked[i]]
    BY <1>1, <1>5, <2>2 DEF AckedSound
  <2>3. acked' = acked /\ asked' = asked /\ disk' = disk /\ known' = known /\ files' = files
    BY <1>1
  <2>4. QED
    BY <2>1, <2>2, <2>3 DEF AckedSound
<1>15. QED
  BY <1>4, <1>6, <1>7, <1>9, <1>10, <1>11, <1>12, <1>13, <1>14 DEF OpsSound

-----------------------------------------------------------------------------
(* A restart lists what is whole.                                          *)
LEMMA RestartStep ==
  ASSUME LibraryInvariant, Restart
  PROVE  LibraryInvariant'
<1> USE DEF LibraryInvariant
<1>1. /\ entries' = Loaded /\ known' = known \cup Whole /\ cache' = <<>>
      /\ acked' = (IF disk THEN acked ELSE <<>>)
      /\ UNCHANGED <<disk, files, issued, asked, gone, overtaken>>
      /\ restarts' \in 0..MaxRestarts
  <2>1. restarts < MaxRestarts /\ restarts' = restarts + 1
    BY DEF Restart
  <2>2. restarts' \in 0..MaxRestarts
    BY <2>1, LibraryAssumption DEF TypeOK
  <2>3. QED
    BY <2>2 DEF Restart
<1>2. \A c \in Client : ops'[c] = Idle
  BY DEF Restart
<1>3. Idle.pc = "done" /\ Idle.image = None /\ Idle.id = None /\ Idle \in Op
  BY DEF Idle, Op, Pcs
<1>4. Whole \subseteq Id /\ \A id \in Whole : files[id] = ImageOf[id] /\ id \in issued /\ disk
  BY ImageFacts DEF Whole, FilesSound
<1>5. \A e \in Loaded : e.id \in Whole /\ e.image = ImageOf[e.id] /\ e.at = 0
  BY <1>4 DEF Loaded
<1>6. Loaded \subseteq [id : Id, image : Image, at : Nat]
  BY <1>4, ImageFacts DEF Loaded
<1>7. \A e, f \in Loaded : e.id = f.id => e = f
  BY DEF Loaded
<1>8. Listed' = Whole
  <2>1. Listed' \subseteq Whole
    BY <1>1, <1>5 DEF Listed
  <2>2. ASSUME NEW id \in Whole PROVE id \in Listed'
    <3>1. [id |-> id, image |-> files[id], at |-> 0] \in entries'
      BY <1>1 DEF Loaded
    <3>2. QED
      BY <3>1 DEF Listed
  <2>3. QED
    BY <2>1, <2>2
<1>9. IsFiniteSet(Loaded)
  <2> DEFINE name == [e \in Loaded |-> e.id]
  <2>1. name \in [Loaded -> Whole] /\ \A e, f \in Loaded : name[e] = name[f] => e = f
    BY <1>5, <1>7
  <2>2. IsFiniteSet(Whole)
    BY <1>4, LibraryAssumption, FS_Subset
  <2> HIDE DEF name
  <2>3. name \in Injection(Loaded, Whole)
    BY <2>1 DEF Injection, IsInjective
  <2>4. QED
    BY <2>2, <2>3, FS_Injection
<1>10. TypeOK'
  <2>1. ops' \in [Client -> Op]
    BY <1>3 DEF Restart
  <2>2. acked' \in Seq(Fresh)
    BY <1>1 DEF TypeOK
  <2>3. QED
    BY <1>1, <1>4, <1>6, <2>1, <2>2 DEF TypeOK
<1>11. FilesSound'
  <2>1. known' \subseteq issued'
    BY <1>1, <1>4 DEF FilesSound
  <2>2. ASSUME NEW id \in Fresh \cap known'
        PROVE  files[id] # Partial /\ (id \notin Whole => files[id] = Absent)
    BY <1>1, <1>4, <2>2, ImageFacts DEF FilesSound, Whole
  <2>3. QED
    BY <1>1, <1>8, <2>1, <2>2 DEF FilesSound
<1>12. EntriesSound'
  BY <1>1, <1>5, <1>7, <1>9 DEF EntriesSound
<1>13. MemoryOrdered'
  <2>1. ~disk => Loaded = {}
    BY <1>4, <1>5
  <2>2. ~disk => Cardinality(Loaded) <= Keep
    BY <2>1, FS_EmptySet, LibraryAssumption
  <2>3. QED
    BY <1>1, <2>1, <2>2 DEF MemoryOrdered
<1>14. OpsSound' /\ OneImporter'
  BY <1>2, <1>3 DEF OpsSound, OpSound, OneImporter, Importing, Removing
<1>15. CacheHonest'
  BY <1>1 DEF CacheHonest
<1>16. RemovedSound'
  <2>1. \A id \in gone \ overtaken : id \notin Whole
    BY DEF RemovedSound, Whole
  <2>2. QED
    BY <1>1, <1>2, <1>3, <1>8, <2>1 DEF RemovedSound
<1>17. AckedSound'
  <2>1. ASSUME disk, NEW i \in DOMAIN acked, acked[i] \notin asked PROVE acked[i] \in Whole
    <3>1. files[acked[i]] = ImageOf[acked[i]] /\ acked[i] \in Id
      BY <2>1, ImageFacts, EntryOf DEF AckedSound, TypeOK
    <3>2. QED
      BY <3>1, ImageFacts DEF Whole
  <2>2. QED
    BY <1>1, <1>8, <2>1 DEF AckedSound
<1>18. QED
  BY <1>10, <1>11, <1>12, <1>13, <1>14, <1>15, <1>16, <1>17

-----------------------------------------------------------------------------
LEMMA InitInvariant == Init => LibraryInvariant
<1> SUFFICES ASSUME Init PROVE LibraryInvariant
  OBVIOUS
<1>1. /\ disk \in BOOLEAN /\ files = [id \in Id |-> Absent] /\ entries = {}
      /\ ops = [c \in Client |-> Idle] /\ cache = <<>> /\ issued = {} /\ known = {}
      /\ restarts = 0 /\ acked = <<>> /\ asked = {} /\ gone = {} /\ overtaken = {}
  BY DEF Init
<1>2. Idle.pc = "done" /\ Idle.image = None /\ Idle.id = None /\ Idle \in Op
  BY DEF Idle, Op, Pcs
<1>3. TypeOK
  BY <1>1, <1>2, LibraryAssumption DEF TypeOK
<1>4. FilesSound /\ OpsSound /\ OneImporter /\ CacheHonest /\ RemovedSound /\ AckedSound
  BY <1>1, <1>2 DEF FilesSound, OpsSound, OpSound, OneImporter, Importing, Removing,
                    CacheHonest, RemovedSound, AckedSound
<1>5. EntriesSound /\ MemoryOrdered
  BY <1>1, FS_EmptySet, LibraryAssumption DEF EntriesSound, MemoryOrdered
<1>6. QED
  BY <1>3, <1>4, <1>5 DEF LibraryInvariant

LEMMA StutterKeeps == LibraryInvariant /\ UNCHANGED vars => LibraryInvariant'
<1> SUFFICES ASSUME LibraryInvariant, UNCHANGED vars PROVE LibraryInvariant'
  OBVIOUS
<1>1. /\ disk' = disk /\ files' = files /\ entries' = entries /\ ops' = ops /\ cache' = cache
      /\ issued' = issued /\ known' = known /\ restarts' = restarts /\ acked' = acked
      /\ asked' = asked /\ gone' = gone /\ overtaken' = overtaken
  BY DEF vars
<1>2. TypeOK' /\ FilesSound' /\ EntriesSound' /\ MemoryOrdered'
  BY <1>1 DEF LibraryInvariant, TypeOK, FilesSound, EntriesSound, MemoryOrdered, Listed
<1>3. OpsSound' /\ OneImporter' /\ CacheHonest' /\ RemovedSound'
  BY <1>1 DEF LibraryInvariant, OpsSound, OpSound, OneImporter, CacheHonest, RemovedSound, Listed
<1>4. AckedSound'
  BY <1>1 DEF LibraryInvariant, AckedSound, Listed, Newer
<1>5. QED
  BY <1>2, <1>3, <1>4 DEF LibraryInvariant

LEMMA NextKeeps == LibraryInvariant /\ Next => LibraryInvariant'
<1> SUFFICES ASSUME LibraryInvariant, Next PROVE LibraryInvariant'
  OBVIOUS
<1>1. ASSUME NEW c \in Client, Step(c) PROVE LibraryInvariant'
  BY <1>1, CreateFileStep, WriteFileStep, WriteFailsStep, PushEntryStep, InsertEntryStep,
     StatFileStep, UnlinkFileStep, RetainEntriesStep, FindEntryStep, FindFileStep, ReadFileStep,
     EnterReadStep, RunStep, TakeEnvironmentStep, StoreEnvironmentStep DEF Step
<1>2. ASSUME NEW c \in Client, Request(c) PROVE LibraryInvariant'
  BY <1>2, ImportStep, RemoveMapStep, GetStep, SubmitUnnamedStep DEF Request
<1>3. ASSUME NEW id \in Foreign, WriteForeign(id) PROVE LibraryInvariant'
  BY <1>3, WriteForeignStep
<1>4. CASE Restart
  BY <1>4, RestartStep
<1>5. QED
  BY <1>1, <1>2, <1>3, <1>4 DEF Next

(* What every state of the library satisfies, whatever was in between.     *)
THEOREM LibrarySound == Spec => []LibraryInvariant
<1>1. LibraryInvariant /\ [Next]_vars => LibraryInvariant'
  BY NextKeeps, StutterKeeps
<1>2. QED
  BY InitInvariant, <1>1, PTL DEF Spec

-----------------------------------------------------------------------------
(* Every variable keeps its type; in particular no operation is ever about *)
(* a name that nobody made, and what the caches hold are images.           *)
THEOREM LibraryTypes == Spec => []TypeOK
<1>1. LibraryInvariant => TypeOK
  BY DEF LibraryInvariant
<1>2. QED
  BY <1>1, LibrarySound, PTL

(* A map is listed once, whatever imports, reads and removals meet, and    *)
(* the memory store keeps within its bound: disk.rs and memory.rs.         *)
THEOREM EveryMapListedOnce == Spec => []ListedOnce
<1>1. LibraryInvariant => ListedOnce
  BY DEF LibraryInvariant, EntriesSound, MemoryOrdered, ListedOnce
<1>2. QED
  BY <1>1, LibrarySound, PTL

(* An import that was answered stays listed and whole until its removal is *)
(* asked for, through any number of restarts of the disk store.            *)
THEOREM AcknowledgedStays == Spec => []NothingAcknowledgedIsLost
<1>1. LibraryInvariant => NothingAcknowledgedIsLost
  BY DEF LibraryInvariant, AckedSound, NothingAcknowledgedIsLost, Listed
<1>2. QED
  BY <1>1, LibrarySound, PTL

(* A map whose removal was answered does not come back, with the exception *)
(* that RemovedStaysRemoved names.                                         *)
THEOREM RemovedForGood == Spec => []RemovedStaysRemoved
<1>1. LibraryInvariant => RemovedStaysRemoved
  BY DEF LibraryInvariant, RemovedSound, RemovedStaysRemoved
<1>2. QED
  BY <1>1, LibrarySound, PTL

(* What the library answered stays true, of imports and of removals.       *)
THEOREM LibraryDurable == Spec => []LibraryIsDurable
<1>1. NothingAcknowledgedIsLost /\ RemovedStaysRemoved => LibraryIsDurable
  BY DEF LibraryIsDurable
<1>2. QED
  BY <1>1, AcknowledgedStays, RemovedForGood, PTL

(* Answers and plans use the image that was stored under the name.         *)
THEOREM AnswersTrue == Spec => []AnswersAreTheMap
<1>1. LibraryInvariant => AnswersAreTheMap
  BY DEF LibraryInvariant, OpsSound, OpSound, AnswersAreTheMap
<1>2. QED
  BY <1>1, LibrarySound, PTL

-----------------------------------------------------------------------------
(* The bounds of the cache.  An entry that is used moves to the front; the *)
(* bytes of the entries move with them, so there are as many as before.    *)

CachedEntry == [key : Image, environment : Image]

LEMMA BytesAre ==
  ASSUME NEW s, NEW x
  PROVE  x \in Bytes(s) <=> \E i \in DOMAIN s : x \in {i} \X (1..Size[s[i].environment])
BY DEF Bytes

LEMMA SizeOfEntry ==
  ASSUME NEW s \in Seq(CachedEntry), NEW i \in 1..Len(s)
  PROVE  Size[s[i].environment] \in Nat
<1>1. s[i] \in CachedEntry
  BY EntryOf
<1>2. QED
  BY <1>1, LibraryAssumption DEF CachedEntry

LEMMA BytesFinite ==
  ASSUME NEW s \in Seq(CachedEntry)
  PROVE  IsFiniteSet(Bytes(s)) /\ HeldBytes(s) \in Nat
<1> DEFINE part == [i \in 1..Len(s) |-> {i} \X (1..Size[s[i].environment])]
           parts == {part[i] : i \in 1..Len(s)}
<1>1. IsFiniteSet(1..Len(s))
  BY FS_Interval
<1>2. part \in Surjection(1..Len(s), parts)
  BY DEF Surjection
<1>3. IsFiniteSet(parts)
  <2> HIDE DEF part, parts
  <2>1. QED
    BY <1>1, <1>2, FS_Surjection
<1>4. ASSUME NEW i \in 1..Len(s) PROVE IsFiniteSet(part[i])
  <2> DEFINE n == Size[s[i].environment]
  <2>1. n \in Nat
    BY SizeOfEntry
  <2> HIDE DEF n
  <2>2. IsFiniteSet(1..n)
    BY <2>1, FS_Interval
  <2>3. IsFiniteSet({i})
    BY FS_Singleton
  <2>4. IsFiniteSet({i} \X (1..n))
    BY <2>2, <2>3, FS_Product
  <2>5. QED
    BY <2>4 DEF n
<1>5. IsFiniteSet(UNION parts)
  <2>1. \A T \in parts : IsFiniteSet(T)
    BY <1>4
  <2> HIDE DEF parts
  <2>2. QED
    BY <1>3, <2>1, FS_UNION
<1>6. Bytes(s) = UNION parts
  BY DEF Bytes
<1>7. QED
  BY <1>5, <1>6, FS_CardinalityType DEF HeldBytes

(* A list whose entries are entries of another one, each once, holds no    *)
(* more bytes.                                                             *)
LEMMA MovedBytes ==
  ASSUME NEW s \in Seq(CachedEntry), NEW t \in Seq(CachedEntry), Rearranged(t, s)
  PROVE  HeldBytes(t) <= HeldBytes(s)
<1> Len(t) = Len(s)
  BY DEF Rearranged
<1> PICK p \in [1..Len(s) -> 1..Len(s)] :
      /\ \A j, k \in 1..Len(s) : p[j] = p[k] => j = k
      /\ \A j \in 1..Len(s) : t[j] = s[p[j]]
  BY DEF Rearranged
<1> DEFINE move == [x \in Bytes(t) |-> <<p[x[1]], x[2]>>]
<1>1. ASSUME NEW x \in Bytes(t)
      PROVE  /\ x = <<x[1], x[2]>> /\ x[1] \in 1..Len(s)
             /\ <<p[x[1]], x[2]>> \in Bytes(s)
  <2>1. PICK i \in 1..Len(t) : x \in {i} \X (1..Size[t[i].environment])
    BY BytesAre
  <2>2. x = <<x[1], x[2]>> /\ x[1] = i /\ x[2] \in 1..Size[s[p[i]].environment]
    BY <2>1
  <2>3. p[i] \in DOMAIN s /\ <<p[i], x[2]>> \in {p[i]} \X (1..Size[s[p[i]].environment])
    BY <2>2
  <2>4. <<p[i], x[2]>> \in Bytes(s)
    BY <2>3, BytesAre, Zenon
  <2>5. QED
    BY <2>2, <2>4
<1>2. move \in [Bytes(t) -> Bytes(s)]
  BY <1>1
<1>3. ASSUME NEW x \in Bytes(t), NEW y \in Bytes(t), move[x] = move[y] PROVE x = y
  <2>1. p[x[1]] = p[y[1]] /\ x[2] = y[2]
    BY <1>3
  <2>2. x[1] = y[1]
    BY <1>1, <2>1
  <2>3. x = <<x[1], x[2]>> /\ y = <<y[1], y[2]>>
    BY <1>1
  <2>4. <<x[1], x[2]>> = <<y[1], y[2]>>
    BY <2>1, <2>2
  <2>5. QED
    BY <2>3, <2>4, Zenon
<1> HIDE DEF move
<1>4. move \in Injection(Bytes(t), Bytes(s))
  BY <1>2, <1>3 DEF Injection, IsInjective
<1>5. QED
  BY <1>4, BytesFinite, FS_Injection DEF HeldBytes

LEMMA UsedWithinBounds ==
  ASSUME NEW s \in Seq(CachedEntry), NEW key, Positions(s, key) # {}, WithinBounds(s)
  PROVE  WithinBounds(Used(s, key))
<1>1. Used(s, key) \in Seq(CachedEntry) /\ Rearranged(Used(s, key), s)
  BY UsedEffect
<1>2. HeldBytes(Used(s, key)) <= HeldBytes(s) /\ Len(Used(s, key)) = Len(s)
  BY <1>1, MovedBytes DEF Rearranged
<1>3. HeldBytes(Used(s, key)) \in Nat /\ HeldBytes(s) \in Nat
  BY <1>1, BytesFinite
<1>4. QED
  BY <1>2, <1>3, CacheAssumption DEF WithinBounds

(* The cache of environments keeps within its slots and its bytes, whoever *)
(* loads and stores at the same time: environment_cache.rs.                *)
THEOREM CacheIsBounded == Spec => []CacheWithinBounds
<1> DEFINE Inv == LibraryInvariant /\ CacheWithinBounds
<1>1. Init => Inv
  <2>1. ASSUME Init PROVE CacheWithinBounds
    <3>1. cache = <<>> /\ Len(cache) = 0
      BY <2>1 DEF Init
    <3>2. QED
      BY <3>1, CacheAssumption DEF CacheWithinBounds, WithinBounds
  <2>2. QED
    BY <2>1, InitInvariant
<1>2. Inv /\ [Next]_vars => Inv'
  <2> SUFFICES ASSUME Inv, [Next]_vars PROVE Inv'
    OBVIOUS
  <2>1. LibraryInvariant'
    BY NextKeeps, StutterKeeps
  <2>2. cache \in Seq(CachedEntry)
    BY DEF LibraryInvariant, TypeOK, CachedEntry
  <2>3. ASSUME UNCHANGED cache PROVE CacheWithinBounds'
    BY <2>3 DEF CacheWithinBounds
  <2>4. ASSUME NEW c \in Client, TakeEnvironment(c), ~UNCHANGED cache PROVE CacheWithinBounds'
    <3>1. Positions(cache, ops[c].image) # {} /\ cache' = Used(cache, ops[c].image)
      BY <2>4 DEF TakeEnvironment
    <3>2. QED
      BY <2>2, <3>1, UsedWithinBounds DEF CacheWithinBounds
  <2>5. ASSUME NEW c \in Client, StoreEnvironment(c) PROVE CacheWithinBounds'
    <3> DEFINE key == ops[c].image
    <3>1. cache' = Stored(cache, key, key) /\ OpSound(c) /\ ops[c].pc = "load"
      BY <2>5 DEF StoreEnvironment, At, LibraryInvariant, OpsSound
    <3>2. key \in Image
      BY <3>1 DEF OpSound, LibraryInvariant, TypeOK, Op
    <3>3. Entry(key, key) \in CachedEntry
      BY <3>2 DEF Entry, CachedEntry
    <3> HIDE DEF key
    <3>4. WithinBounds(Stored(cache, key, key))
      BY <2>2, <3>3, StoredEffect
    <3>5. QED
      BY <3>1, <3>4 DEF CacheWithinBounds
  <2>6. ASSUME Restart PROVE CacheWithinBounds'
    <3>1. cache' = <<>> /\ Len(<<>>) = 0
      BY <2>6 DEF Restart
    <3>2. QED
      BY <3>1, CacheAssumption DEF CacheWithinBounds, WithinBounds
  <2>7. ASSUME NEW c \in Client, Step(c) PROVE CacheWithinBounds'
    <3>1. UNCHANGED cache \/ TakeEnvironment(c) \/ StoreEnvironment(c)
      BY <2>7 DEF Step, CreateFile, WriteFile, WriteFails, PushEntry, InsertEntry, Acknowledge,
                  StatFile, UnlinkFile, RetainEntries, FindEntry, FindFile, ReadFile, EnterRead, Run
    <3>2. QED
      BY <2>3, <2>4, <2>5, <3>1
  <2>8. ASSUME NEW c \in Client, Request(c) PROVE CacheWithinBounds'
    BY <2>3, <2>8 DEF Request, Import, RemoveMap, Get, SubmitUnnamed
  <2>9. ASSUME NEW id \in Foreign, WriteForeign(id) PROVE CacheWithinBounds'
    BY <2>3, <2>9 DEF WriteForeign
  <2>10. ASSUME UNCHANGED vars PROVE CacheWithinBounds'
    BY <2>3, <2>10 DEF vars
  <2>11. QED
    BY <2>1, <2>6, <2>7, <2>8, <2>9, <2>10 DEF Next
<1>3. QED
  BY <1>1, <1>2, PTL DEF Spec

=============================================================================
