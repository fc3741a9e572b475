------------------------------ MODULE MapImage -------------------------------
(***************************************************************************)
(* The map image of crates/map-format: how `MapBuilder` and `MapWriter`    *)
(* lay one out, how a `Patch` turns an image into the next one without     *)
(* moving a byte of it, and what a `Map` opened over an image hands out.   *)
(*                                                                         *)
(* An image is a run of blocks addressed by position, sealed by a hash     *)
(* over all of them.  The header points at the meta block and the chunk    *)
(* directory; the skeleton has no pointer and is looked for behind the     *)
(* meta block and the extension area.  Chunk contents are model values, a  *)
(* CRC or hash stands for what it covers, and codecs, shapes, lengths and  *)
(* alignment are left out.                                                 *)
(*                                                                         *)
(* A derived layer is a cache of other layers.  The builder records what   *)
(* its sources hash to; the reader compares that with what they hash to    *)
(* now, and refuses the layer when they differ.                            *)
(***************************************************************************)
EXTENDS Naturals, Sequences, FiniteSets, SequencesExt

CONSTANTS Layer,        \* ids of the layers a map may carry
          Chunk,        \* (level, chunk id) pairs of a chunked layer
          Content,      \* what a stored chunk may hold
          Info,         \* values of a metadata record
          FirstInfo,    \* the one the builder writes
          Builds,       \* bound: the layers added to the builder, in order
          CacheSlots,   \* chunks a reader keeps decoded
          MaxPatches,   \* bound: patches written
          MaxImages     \* bound: images made, the first by the builder

Derived == Layer \cap {"slope", "edt", "prm", "kpath", "cost"}
Feature == Layer \cap {"surface"}
Sections == {"kpath"}           \* stored as one payload
Whole == "whole"
Garbage == "garbage"            \* what damage leaves of a payload
None == "none"

ASSUME MapAssumption ==
  /\ IsFiniteSet(Layer) /\ IsFiniteSet(Chunk) /\ Chunk # {}
  /\ IsFiniteSet(Content) /\ Garbage \notin Content /\ None \notin Content
  /\ FirstInfo \in Info /\ None \notin Info
  /\ {CacheSlots, MaxPatches, MaxImages} \subseteq Nat /\ MaxImages >= 1

VARIABLES pending,   \* MapBuilder.chunks: what the builder will write
          images,    \* the images made so far, as they lie on disk
          patches,   \* the patch files written so far
          reader,    \* a Map opened over one of the images, or NoReader
          answer,    \* what the last read of a chunk returned
          truth,     \* history: what each image says
          origin     \* history: what the layers held when the caches were built

vars == <<pending, images, patches, reader, answer, truth, origin>>

KeysOf(l) == IF l \in Sections THEN {<<l, Whole>>} ELSE {l} \X Chunk
Key == UNION {KeysOf(l) : l \in Layer}

(* What can be added: a layer with a content for each of its keys.          *)
Addition == UNION {[layer : {l}, data : [KeysOf(l) -> Content]] : l \in Layer}

ASSUME BuildsAssumption == Builds \subseteq Seq(Addition)

-----------------------------------------------------------------------------
(* Fingerprints.  The one of a layer covers its chunks' CRCs, the one of a  *)
(* derived layer covers those of its sources.                               *)

LayerFingerprint(l, crc) ==
  [layer |-> l, chunks |-> {<<k, crc[k]>> : k \in {q \in DOMAIN crc : q[1] = l}}]

(* fingerprint::derived_fingerprint, over the sources that are in the file. *)
DerivedFingerprint(sources, present, crc) ==
  {LayerFingerprint(s, crc) : s \in sources \cap present}

(* The builder's table and the reader's, which have to agree item for item. *)
SourceLayersOf(l, present) ==
  CASE l = "slope" -> {"elevation"}
    [] l = "edt"   -> {"hard"}
    [] l = "prm"   -> (Feature \cap present) \cup {"elevation", "hard", "direction"}
    [] l = "kpath" -> {"prm", "hard"}
    [] l = "cost"  -> (Feature \cap present) \cup {"hard"}
    [] OTHER       -> {}

SourcesOf(l, present) ==
  CASE l = "slope" -> {"elevation"}
    [] l = "edt"   -> {"hard"}
    [] l = "prm"   -> (Feature \cap present) \cup {"elevation", "hard", "direction"}
    [] l = "kpath" -> {"prm", "hard"}
    [] l = "cost"  -> (Feature \cap present) \cup {"hard"}
    [] OTHER       -> {}

-----------------------------------------------------------------------------
(* Blocks and images.                                                       *)

Payload(d)  == [kind |-> "payload", data |-> d]
MetaBlock(m) == [kind |-> "meta", data |-> m]
Extension   == [kind |-> "ext", data |-> None]
Skeleton(n) == [kind |-> "skeleton", data |-> n]
Directory(d) == [kind |-> "dir", data |-> d]

(* The footer's hash covers the header and every block before it.           *)
FileHash(blocks, metaAt, extAt, dirAt) == <<blocks, metaAt, extAt, dirAt>>

Sealed(blocks, metaAt, extAt, dirAt) ==
  [blocks |-> blocks, metaAt |-> metaAt, extAt |-> extAt, dirAt |-> dirAt,
   hash |-> FileHash(blocks, metaAt, extAt, dirAt)]

(* The directory is keyed by layer, level and chunk: a record that is       *)
(* already there is replaced.                                               *)
Upsert(dir, key, record) ==
  [k \in DOMAIN dir \cup {key} |-> IF k = key THEN record ELSE dir[k]]

(* Appends payloads and enters each under its key.                          *)
AppendChunks(blocks, dir, chunks) ==
  FoldLeft(LAMBDA acc, c :
             [blocks |-> Append(acc.blocks, Payload(c.data)),
              dir |-> Upsert(acc.dir, c.key,
                             [at |-> Len(acc.blocks) + 1, crc |-> c.data])],
           [blocks |-> blocks, dir |-> dir], chunks)

MetaOf(image) == image.blocks[image.metaAt].data
DirectoryOf(image) == image.blocks[image.dirAt].data

(* Where the reader looks for the skeleton: behind the meta block and the   *)
(* extension area.                                                          *)
SkeletonOf(image) == image.blocks[image.metaAt + 2]

-----------------------------------------------------------------------------
(* Building an image.                                                       *)

LastOf(chunks) ==
  LET keys == {chunks[i].key : i \in DOMAIN chunks}
      last(k) == CHOOSE i \in DOMAIN chunks :
                   /\ chunks[i].key = k
                   /\ \A j \in DOMAIN chunks : chunks[j].key = k => j <= i
  IN [k \in keys |-> chunks[last(k)].data]

Bug_FingerprintedChunks == LastOf(Reverse(pending))

(* A key written twice is represented by its last record, as in the         *)
(* directory.                                                               *)
FingerprintedChunks == LastOf(pending)

PresentLayers == {pending[i].key[1] : i \in DOMAIN pending}

DerivedTable ==
  [l \in PresentLayers \cap Derived |->
     DerivedFingerprint(SourceLayersOf(l, PresentLayers), PresentLayers,
                        FingerprintedChunks)]

(* The partition of the proxy layer, here the hard mask: its nodes carry    *)
(* aggregates of what that layer holds.                                     *)
ProxyChunks(content) ==
  [k \in {q \in DOMAIN content : q[1] = "hard"} |-> content[k]]

(* MapBuilder::add_layer, and the sections and batches added the same way:  *)
(* every chunk of the layer joins what was added before, also when the      *)
(* layer had been added already.                                            *)
AddLayer(chunks, add) ==
  LET keys == SetToSeq(KeysOf(add.layer))
  IN chunks \o [i \in DOMAIN keys |-> [key |-> keys[i], data |-> add.data[keys[i]]]]

(* MapBuilder::build_to_bytes through MapWriter: prologue, chunks in the    *)
(* order they were added, directory, footer.                                *)
Build ==
  LET meta == [layers |-> PresentLayers, derived |-> DerivedTable, info |-> FirstInfo]
      content == LastOf(pending)
      nodes == ProxyChunks(content)
      prologue == <<MetaBlock(meta), Extension, Skeleton(nodes)>>
      body == AppendChunks(prologue, <<>>, pending)
      blocks == Append(body.blocks, Directory(body.dir))
  IN /\ images = <<>> /\ pending # <<>>
     /\ images' = << Sealed(blocks, 1, 2, Len(blocks)) >>
     /\ truth' = << [content |-> content, info |-> FirstInfo, nodes |-> nodes] >>
     /\ origin' = content /\ pending' = <<>>
     /\ UNCHANGED <<patches, reader, answer>>

-----------------------------------------------------------------------------
(* Opening an image.                                                        *)

(* Map::with_source, with the file hash checked or, for large files, not.   *)
Intact(image) ==
  image.hash = FileHash(image.blocks, image.metaAt, image.extAt, image.dirAt)

CrcOf(dir) == [k \in DOMAIN dir |-> dir[k].crc]

(* Map::verify_derived.                                                     *)
DerivedValid(meta, dir, l) ==
  /\ l \in meta.layers /\ l \in DOMAIN meta.derived
  /\ meta.derived[l] =
       DerivedFingerprint(SourcesOf(l, meta.layers), meta.layers, CrcOf(dir))

FindStaleDerived(meta, dir) ==
  {l \in meta.layers \cap Derived : ~DerivedValid(meta, dir, l)}

NoReader == [image |-> 0]
NoAnswer == [key |-> None, result |-> [how |-> "none"]]

OpenMap(i, verify) ==
  LET image == images[i]
  IN /\ verify => Intact(image)
     /\ reader' = [image |-> i, meta |-> MetaOf(image), dir |-> DirectoryOf(image),
                   nodes |-> SkeletonOf(image),
                   stale |-> FindStaleDerived(MetaOf(image), DirectoryOf(image)),
                   cache |-> <<>>]
     /\ answer' = NoAnswer
     /\ UNCHANGED <<pending, images, patches, truth, origin>>

-----------------------------------------------------------------------------
(* Reading chunks of an opened image.                                       *)

CacheHit(key) == {r \in Range(reader.cache) : r.key = key}

(* ChunkCache::insert: the oldest insertion goes first.                     *)
CacheInsert(cache, key, data) ==
  LET more == IF \E r \in Range(cache) : r.key = key THEN cache
              ELSE Append(cache, [key |-> key, data |-> data])
      over == IF Len(more) > CacheSlots THEN Len(more) - CacheSlots ELSE 0
  IN SubSeq(more, over + 1, Len(more))

Bug_Outcome(key) ==
  IF key[1] \in reader.stale THEN [how |-> "stale"]
  ELSE IF key \notin DOMAIN reader.dir THEN [how |-> "absent"]
  ELSE [how |-> "data", data |-> images[reader.image].blocks[reader.dir[key].at].data]

(* Map::chunk_payload.                                                      *)
Outcome(key) ==
  IF key[1] \in reader.stale THEN [how |-> "stale"]
  ELSE IF key \notin DOMAIN reader.dir THEN [how |-> "absent"]
  ELSE IF CacheHit(key) # {}
       THEN [how |-> "data", data |-> (CHOOSE r \in CacheHit(key) : TRUE).data]
  ELSE LET record == reader.dir[key]
           stored == images[reader.image].blocks[record.at].data
       IN IF stored # record.crc THEN [how |-> "crc"]
          ELSE [how |-> "data", data |-> stored]

ReadChunk(key) ==
  /\ reader # NoReader
  /\ answer' = [key |-> key, result |-> Outcome(key)]
  /\ reader' = IF Outcome(key).how = "data"
               THEN [reader EXCEPT !.cache = CacheInsert(@, key, Outcome(key).data)]
               ELSE reader
  /\ UNCHANGED <<pending, images, patches, truth, origin>>

-----------------------------------------------------------------------------
(* Patches.                                                                 *)

(* check_patchable.                                                         *)
Patchable(meta, l) == l \notin Derived /\ l \in meta.layers

(* What a patch may replace: nothing, or one chunk by something else.       *)
Edits(content) ==
  {<<>>} \cup UNION {{<<[key |-> k, data |-> d]>> : d \in Content \ {content[k]}} :
                       k \in DOMAIN content}

(* Patch::for_map: replacements for an image that was opened, possibly with *)
(* a metadata record.                                                       *)
PatchFor(i, chunks, info) ==
  [base |-> images[i].hash, chunks |-> chunks, info |-> info,
   madeFor |-> truth[i]]

MakePatch(i, chunks, info) ==
  /\ Cardinality(patches) < MaxPatches
  /\ Intact(images[i])
  /\ \A n \in DOMAIN chunks : Patchable(MetaOf(images[i]), chunks[n].key[1])
  /\ chunks # <<>> \/ info # None
  /\ patches' = patches \cup {PatchFor(i, chunks, info)}
  /\ UNCHANGED <<pending, images, reader, answer, truth, origin>>

(* Patch::apply up to its checks.                                           *)
Accepts(patch, image) ==
  /\ Intact(image) /\ patch.base = image.hash
  /\ \A n \in DOMAIN patch.chunks : Patchable(MetaOf(image), patch.chunks[n].key[1])

Bug_MovedMeta(blocks, image, info) ==
  [blocks |-> blocks \o <<MetaBlock([MetaOf(image) EXCEPT !.info = info]),
                          image.blocks[image.extAt]>>,
   metaAt |-> Len(blocks) + 1, extAt |-> Len(blocks) + 2]

(* A changed meta block is appended with the extension area and the         *)
(* skeleton behind it, where the reader will look for them.                 *)
MovedMeta(blocks, image, info) ==
  LET meta == [MetaOf(image) EXCEPT !.info = info]
  IN [blocks |-> blocks \o <<MetaBlock(meta), image.blocks[image.extAt], SkeletonOf(image)>>,
      metaAt |-> Len(blocks) + 1, extAt |-> Len(blocks) + 2]

(* The rest of Patch::apply: payloads, meta block, directory and footer go  *)
(* behind what is there; nothing before them moves.                         *)
Patched(patch, image) ==
  LET body == AppendChunks(image.blocks, DirectoryOf(image), patch.chunks)
      moved == IF patch.info = None
               THEN [blocks |-> body.blocks, metaAt |-> image.metaAt, extAt |-> image.extAt]
               ELSE MovedMeta(body.blocks, image, patch.info)
      blocks == Append(moved.blocks, Directory(body.dir))
  IN Sealed(blocks, moved.metaAt, moved.extAt, Len(blocks))

(* What the patch asks for, on top of what an image says.                   *)
Says(before, patch) ==
  [content |-> [k \in DOMAIN before.content \cup {c.key : c \in Range(patch.chunks)} |->
                  IF k \in {c.key : c \in Range(patch.chunks)}
                  THEN LastOf(patch.chunks)[k] ELSE before.content[k]],
   info |-> IF patch.info = None THEN before.info ELSE patch.info,
   nodes |-> before.nodes]

ApplyPatch(patch, i) ==
  /\ Len(images) < MaxImages /\ Accepts(patch, images[i])
  /\ images' = Append(images, Patched(patch, images[i]))
  /\ truth' = Append(truth, Says(patch.madeFor, patch))
  /\ UNCHANGED <<pending, patches, reader, answer, origin>>

(* One payload of an image at rest goes bad.                                *)
Damage(i, b) ==
  /\ \A n \in DOMAIN images : Intact(images[n])
  /\ images[i].blocks[b].kind = "payload"
  /\ images' = [images EXCEPT ![i].blocks[b].data = Garbage]
  /\ UNCHANGED <<pending, patches, reader, answer, truth, origin>>

-----------------------------------------------------------------------------
Init ==
  /\ pending \in {FoldLeft(AddLayer, <<>>, adds) : adds \in Builds}
  /\ images = <<>> /\ patches = {}
  /\ reader = NoReader /\ answer = NoAnswer /\ truth = <<>> /\ origin = <<>>

Next ==
  \/ Build
  \/ \E i \in DOMAIN images, verify \in BOOLEAN : OpenMap(i, verify)
  \/ \E key \in Key : ReadChunk(key)
  \/ \E i \in DOMAIN images, info \in Info \cup {None} :
       \E chunks \in Edits(truth[i].content) : MakePatch(i, chunks, info)
  \/ \E patch \in patches, i \in DOMAIN images : ApplyPatch(patch, i)
  \/ \E i \in DOMAIN images : \E b \in DOMAIN images[i].blocks : Damage(i, b)

Spec == Init /\ [][Next]_vars

-----------------------------------------------------------------------------
(* Properties.                                                              *)

Said == [content : UNION {[K -> Content] : K \in SUBSET Key}, info : Info,
         nodes : UNION {[K -> Content] : K \in SUBSET Key}]

(* Every image lies behind a header that points inside it, every patch      *)
(* names source layers only, and a reader keeps as many chunks as it may,   *)
(* each once.                                                               *)
TypeOK ==
  /\ Len(images) <= MaxImages /\ Len(truth) = Len(images)
  /\ \A i \in DOMAIN images :
       /\ images[i].metaAt + 2 < images[i].dirAt
       /\ images[i].dirAt = Len(images[i].blocks)
       /\ \A k \in DOMAIN DirectoryOf(images[i]) :
            DirectoryOf(images[i])[k].at \in 1..Len(images[i].blocks) - 1
  /\ \A p \in patches : \A n \in DOMAIN p.chunks : p.chunks[n].key \in Key
  /\ reader # NoReader =>
       /\ Len(reader.cache) <= CacheSlots /\ reader.image \in DOMAIN images
       /\ \A m, n \in DOMAIN reader.cache :
            reader.cache[m].key = reader.cache[n].key => m = n

(* An image that opens says everything that was built into it and patched   *)
(* onto it since, and nothing else: each patch found the contents its       *)
(* author saw, superseded exactly the chunks it names, and left the         *)
(* skeleton where the reader of the new header looks for it.                *)
EditsAreKept ==
  \A i \in DOMAIN images :
    LET image == images[i]
        dir == DirectoryOf(image)
    IN Intact(image) =>
         /\ [k \in DOMAIN dir |-> image.blocks[dir[k].at].data] = truth[i].content
         /\ MetaOf(image).info = truth[i].info
         /\ SkeletonOf(image) = Skeleton(truth[i].nodes)

(* What a reader hands out for a chunk is what its image says there, also   *)
(* from a cache, from an image opened without its hash, and from one whose  *)
(* payloads went bad while it was open; what it says is absent is.          *)
AnswersAreTrue ==
  answer # NoAnswer =>
    LET said == truth[reader.image].content
    IN /\ answer.result.how = "absent" <=> answer.key \notin DOMAIN said
       /\ answer.result.how = "data" => answer.result.data = said[answer.key]

(* A derived layer is refused exactly when one of the layers it is declared *)
(* to be built from holds something else than when it was built: neither is *)
(* a stale cache served, nor does a rebuilt, patched back or incomplete map *)
(* lose a cache that is still good.                                         *)
StaleWhenASourceMoved ==
  reader # NoReader =>
    LET said == truth[reader.image].content
        moved(l) == \E k \in DOMAIN said : k[1] = l /\ said[k] # origin[k]
        present == {k[1] : k \in DOMAIN said}
    IN reader.stale = {l \in present \cap Derived :
                         \E s \in SourceLayersOf(l, present) : s \in present /\ moved(s)}

(* A read hands out what the image says, and a derived layer only while    *)
(* what it was derived from is what it was.                                *)
ReadsAreTrue == AnswersAreTrue /\ StaleWhenASourceMoved


(* patch.rs:14-17: "a source edit changes the source fingerprint, every     *)
(* dependent derived layer fails its check on the next load".  A layer that *)
(* is derived from a derived layer depends on the sources of that layer.    *)
DependantsFail ==
  reader # NoReader =>
    LET said == truth[reader.image].content
        moved == {k[1] : k \in {q \in DOMAIN said : said[q] # origin[q]}}
        present == {k[1] : k \in DOMAIN said}
        first(l) == SourceLayersOf(l, present) \cap present
        deep(l) == first(l) \cup UNION {first(s) : s \in first(l)}
    IN \A l \in present \cap Derived : deep(l) \cap moved # {} => l \in reader.stale
=============================================================================
