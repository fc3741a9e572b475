----------------------------- MODULE MapRecords ------------------------------
(***************************************************************************)
(* The records of a map image, byte by byte (crates/map-format): what the  *)
(* metadata records, the layers that are not cut into chunks and a patch   *)
(* file look like when they are written, and what is read back.  Where the *)
(* parts of an image lie, and which patches and layers are refused for     *)
(* other reasons, is MapImage's.                                           *)
(*                                                                         *)
(* A byte has `Byte` values.  A number stands for the bits of an integer   *)
(* or a float, a text is its bytes.  What is written is a form: a field,   *)
(* or fields in order, in the order the code names them.  A value of a     *)
(* form is a number, a sequence of bytes, or a sequence of values; one     *)
(* that may be missing is a sequence of at most one.                       *)
(***************************************************************************)
EXTENDS Integers, FiniteSets, SequencesExt

CONSTANTS Byte,         \* values of a byte (256)
          Contents,     \* metadata set one after the other: sequences of [tag, value]
          Raws,         \* records [tag, value] set as bytes, of any tag
          Descs,        \* layer descriptors
          Routes,       \* sets of paths: [key, paths]
          LayerDrafts,  \* layers: [layer, what, more], `more` sections of a newer producer
          Replacements, \* the chunk replacements of a patch
          Defaults,     \* tag -> what stands for a missing record
          WriteLimit,    \* calls of the writer
          PatchLimit

ASSUME RecordsAssumption ==
  Byte \in Nat /\ Byte % 4 = 0 /\ Byte > 0 /\ {WriteLimit, PatchLimit} \subseteq Nat

VARIABLES
  meta, table, extMeta, \* MapWriter: the meta block, the layers and the extension records
  frozen,               \* its prologue: [meta, ext], when written
  sections,             \* the payloads written: layer -> bytes
  library,              \* a KPathLibrary: [od, sets, nodes]
  image,                \* [nth, meta, ext, sections, flags, dim], when finished
  patch,                \* [base, meta, replacements], when prepared
  writeCount, patchCount, \* calls so far
  said, pushed, drawn, routed  \* what was last asked for: by tag, extension, layer and key

recordVars == <<meta, table, extMeta, frozen, sections, library, image, patch, writeCount, patchCount,
                said, pushed, drawn, routed>>

-----------------------------------------------------------------------------
(* Bytes. *)

(* Little-endian: the low `width` bytes of a number, and back.             *)
Little(number, width) == [i \in 1..width |-> (number \div Byte^(i - 1)) % Byte]
RECURSIVE Number(_)
Number(bytes) == IF bytes = <<>> THEN 0 ELSE Head(bytes) + Byte * Number(Tail(bytes))

Most(width) == Byte^width - 1
Zeros(count) == [i \in 1..count |-> 0]

(* UTF-8: a byte that starts a character, and one that continues it, by    *)
(* their two upper bits.                                                   *)
Continues(byte) == byte \in Byte \div 2 .. (3 * Byte) \div 4 - 1
Leads(byte) == byte >= (3 * Byte) \div 4

(* String::from_utf8, for characters of one or two bytes.                  *)
IsText(bytes) ==
  /\ \A i \in DOMAIN bytes : Continues(bytes[i]) <=> (i > 1 /\ Leads(bytes[i - 1]))
  /\ bytes # <<>> => ~Leads(Last(bytes))

(* A bug: a text cut where the prefix ends, in the middle of a character.  *)
Bug_WholeText(text) == SubSeq(text, 1, Min({Len(text), Most(2)}))

(* write_string: as long as the prefix can say, then back to the start of  *)
(* a character (is_char_boundary).                                         *)
WholeText(text) ==
  LET most == Min({Len(text), Most(2)})
      boundaries == {0, Len(text)} \cup {end \in 1..Len(text) - 1 : ~Continues(text[end + 1])}
  IN  SubSeq(text, 1, Max({end \in boundaries : end <= most}))

(* The parts one after the other, joined by halves (FlattenSeq goes as deep *)
(* as there are parts).                                                    *)
RECURSIVE Joined(_)
Joined(parts) ==
  LET half == Len(parts) \div 2
  IN  CASE parts = <<>> -> <<>>
        [] Len(parts) = 1 -> parts[1]
        [] OTHER -> Joined(SubSeq(parts, 1, half)) \o Joined(SubSeq(parts, half + 1, Len(parts)))

Clipped(items, width) == SubSeq(items, 1, Min({Len(items), Most(width)}))

-----------------------------------------------------------------------------
(* Forms. *)

Field(is, width, bound, of) == [is |-> is, width |-> width, bound |-> bound, of |-> of]

Num(width) == Field("number", width, 0, <<>>)
Signed(width) == Field("signed", width, 0, <<>>)
OneOf(width, known) == Field("one of", width, known, <<>>)      \* ids from 0; another is refused
OrFirst(width, known) == Field("or first", width, known, <<>>)  \* another is read as the first
Exactly(width, number) == Field("exactly", width, number, <<>>)
Yes == Field("yes", 1, 0, <<>>)
Text == Field("text", 2, 0, <<>>)
Blob(width) == Field("blob", width, 0, <<>>)                    \* bytes after their number
Rest == Field("rest", 0, 0, <<>>)                               \* all bytes there are
All(fields) == Field("all", 0, 0, fields)
Fixed(size, fields) == Field("fixed", size, 0, fields)          \* fields, then zeros up to a size
Maybe(item) == Field("maybe", 1, 0, <<item>>)                   \* 0, or 1 and the item
Many(width, item) == Field("many", width, 0, <<item>>)          \* a number, then so many of them
Counted(least, item) == Field("counted", 4, least, <<item>>)    \* the same, checked for `least` bytes each
Sized(item) == Field("sized", 4, 0, <<item>>)                   \* an item in bytes of its own
Every(item) == Field("every", 0, 0, <<item>>)                   \* items up to the end

Nums(count, width) == [i \in 1..count |-> Num(width)]
Times(count, item) == All([i \in 1..count |-> item])

(* The bytes behind their number.                                          *)
Prefixed(bytes, width) == Little(Len(bytes), width) \o bytes

RECURSIVE Wire(_, _)
Wire(form, value) ==
  LET each(items) == Joined([i \in DOMAIN items |-> Wire(form.of[1], items[i])])
      fields == Joined([i \in DOMAIN form.of |-> Wire(form.of[i], value[i])])
      numbered(items) == Little(Len(items), form.width) \o each(items)
      padded(bytes) == bytes \o Zeros(form.width - Len(bytes))
  IN  CASE form.is = "yes" -> <<IF value THEN 1 ELSE 0>>
        [] form.is = "signed" -> Little(value % Byte^form.width, form.width)
        [] form.is \in {"number", "one of", "or first", "exactly"} -> Little(value, form.width)
        [] form.is = "text" -> Prefixed(WholeText(value), form.width)
        [] form.is = "blob" -> Prefixed(Clipped(value, form.width), form.width)
        [] form.is = "rest" -> value
        [] form.is = "all" -> fields
        [] form.is = "fixed" -> padded(fields)
        [] form.is = "sized" -> Prefixed(Wire(form.of[1], value), form.width)
        [] form.is = "many" -> numbered(Clipped(value, form.width))
        [] form.is \in {"maybe", "counted"} -> numbered(value)
        [] form.is = "every" -> each(value)

(* A reader: how far it came, and the value; or, cut short or refused, -1. *)
Unread == [at |-> -1, value |-> <<>>]

(* Reader::read_bytes.                                                     *)
Take(bytes, at, count) ==
  IF at < 0 \/ at + count > Len(bytes) THEN Unread
  ELSE [at |-> at + count, value |-> SubSeq(bytes, at + 1, at + count)]

ReadNumber(bytes, at, width) ==
  LET raw == Take(bytes, at, width) IN [raw EXCEPT !.value = Number(@)]

TakeCounted(bytes, count) == Take(bytes, count.at, count.value)
ReadPrefixed(bytes, at, width) == TakeCounted(bytes, ReadNumber(bytes, at, width))

RECURSIVE ReadAs(_, _, _), ReadFields(_, _, _), ReadEvery(_, _, _)

(* One field after the other: the first half of them, then the rest.       *)
OneField(read) == IF read.at < 0 THEN Unread ELSE [read EXCEPT !.value = <<@>>]
BothFields(first, rest) == IF rest.at < 0 THEN Unread ELSE [rest EXCEPT !.value = first.value \o @]
ThenFields(first, fields, bytes) ==
  IF first.at < 0 THEN Unread ELSE BothFields(first, ReadFields(fields, bytes, first.at))

ReadFields(fields, bytes, at) ==
  LET half == Len(fields) \div 2
  IN  CASE fields = <<>> -> [at |-> at, value |-> <<>>]
        [] Len(fields) = 1 -> OneField(ReadAs(fields[1], bytes, at))
        [] OTHER -> ThenFields(ReadFields(SubSeq(fields, 1, half), bytes, at),
                               SubSeq(fields, half + 1, Len(fields)), bytes)

ThenEvery(first, item, bytes) ==
  IF first.at < 0 THEN Unread ELSE BothFields(first, ReadEvery(item, bytes, first.at))
ReadEvery(item, bytes, at) ==
  IF at = Len(bytes) THEN [at |-> at, value |-> <<>>]
  ELSE ThenEvery(OneField(ReadAs(item, bytes, at)), item, bytes)

(* What a number and what bytes mean to a field that holds them.           *)
AsNumber(form, number) ==
  CASE form.is = "signed" ->
         [number EXCEPT !.value = IF 2 * @ >= Byte^form.width THEN @ - Byte^form.width ELSE @]
    [] form.is = "or first" -> [number EXCEPT !.value = IF @ < form.bound THEN @ ELSE 0]
    [] form.is = "one of" -> IF number.value < form.bound THEN number ELSE Unread
    [] form.is = "exactly" -> IF number.value = form.bound THEN number ELSE Unread
    [] form.is = "yes" -> [number EXCEPT !.value = @ # 0]
    [] OTHER -> number
AsBytes(form, part) == IF form.is = "text" /\ ~IsText(part.value) THEN Unread ELSE part

(* As many items as a number says; and fields in a part of their own.      *)
AsItems(form, number, bytes) ==
  LET count == IF form.is = "maybe" THEN Min({1, number.value}) ELSE number.value
      room == form.is = "counted" => number.value * form.bound <= Len(bytes) - number.at
  IN  IF number.at < 0 \/ ~room THEN Unread
      ELSE ReadFields([i \in 1..count |-> form.of[1]], bytes, number.at)
Inside(part, read) == IF part.at < 0 \/ read.at < 0 THEN Unread ELSE [read EXCEPT !.at = part.at]
AsPart(form, part) == Inside(part, ReadFields(form.of, part.value, 0))
Only(read) == IF read.at < 0 THEN Unread ELSE [read EXCEPT !.value = @[1]]

ReadAs(form, bytes, at) ==
  CASE at < 0 -> Unread
    [] form.is \in {"number", "signed", "one of", "or first", "exactly", "yes"} ->
         AsNumber(form, ReadNumber(bytes, at, form.width))
    [] form.is \in {"text", "blob"} -> AsBytes(form, ReadPrefixed(bytes, at, form.width))
    [] form.is = "rest" -> Take(bytes, at, Len(bytes) - at)
    [] form.is = "all" -> ReadFields(form.of, bytes, at)
    [] form.is = "fixed" -> AsPart(form, Take(bytes, at, form.width))
    [] form.is = "sized" -> Only(AsPart(form, ReadPrefixed(bytes, at, form.width)))
    [] form.is \in {"maybe", "many", "counted"} -> AsItems(form, ReadNumber(bytes, at, form.width), bytes)
    [] form.is = "every" -> ReadEvery(form.of[1], bytes, at)

(* What bytes say, or nothing; a decoder leaves alone what is left over.   *)
Values(cursor) == IF cursor.at < 0 THEN {} ELSE {cursor.value}
Decoded(form, bytes) == Values(ReadAs(form, bytes, 0))

-----------------------------------------------------------------------------
(* Metadata (tlv/value.rs), by tag. *)

MapInfo == All(<<Text, Text, Num(8), Blob(2), Text>>)

LayerKinds == 5
DTypes == 6
LayerDesc ==
  Fixed(24, <<Num(2), OneOf(1, LayerKinds), Num(1), OneOf(1, DTypes), Num(1), Num(4), Num(4), Yes>>)
LayerTable == Many(2, LayerDesc)

FeatureKinds == 4
FeatureSchema ==
  Many(1, All(<<Text, Text, OneOf(1, FeatureKinds), Num(2), Num(1)>> \o Nums(4, 4) \o <<Many(1, Num(4))>>))

MotionModes == 3
WeightPrior == Many(2, All(<<OneOf(1, MotionModes), Num(4), Num(4), Many(1, Num(4))>>))

SlopeModel == All(Nums(4, 4))

Directions == 3
ConnectorForm == Fixed(48, <<Num(2)>> \o Nums(6, 4) \o <<OneOf(1, Directions)>> \o Nums(5, 4))
ConnectorTable == Many(2, ConnectorForm)

ZstdDict == Rest
Provenance == All(<<Text, Text, Many(2, Text), Many(2, All(Nums(2, 2)))>>)
MagneticField == All(Nums(3, 4))
PrmSeeds == Many(2, Num(8))

ChunkLayouts == 2
ChunkLayout == All(<<OneOf(1, ChunkLayouts), Many(2, Num(2))>>)

GlobalStats ==
  All(<<Many(2, All(<<Num(2), Num(1)>> \o Nums(4, 4))), Many(2, All(<<Num(2), Num(4)>>)), Maybe(Num(4))>>)

AggregationRules == All(<<Num(2), Num(1), Num(4), Num(4)>>)
DerivedLayers == Many(2, All(<<Num(2), Num(8), Num(8), Num(2), Many(2, Num(8))>>))

(* The core tags, from 1.                                                  *)
Schema ==
  <<MapInfo, LayerTable, FeatureSchema, WeightPrior, SlopeModel, ConnectorTable, ZstdDict, Provenance,
    MagneticField, PrmSeeds, ChunkLayout, GlobalStats, AggregationRules, DerivedLayers>>
LayerTableTag == 2
FeatureSchemaTag == 3
DictTag == 7

(* A block of records, of any tag (TlvBlock).                              *)
Block == Every(All(<<Num(4), Blob(4)>>))

TagsOf(block) == {block[i][1] : i \in DOMAIN block}
FirstOf(block, tag) == block[Min({i \in DOMAIN block : block[i][1] = tag})][2]

(* TlvBlock::set: in the place of the first of its tag, or behind all.     *)
Stored(block, tag, bytes) ==
  LET at == {i \in DOMAIN block : block[i][1] = tag}
  IN  IF at = {} THEN Append(block, <<tag, bytes>>) ELSE [block EXCEPT ![Min(at)] = <<tag, bytes>>]

(* set_meta of one record after the other.                                 *)
StoredAll(block, records) ==
  FoldLeft(LAMBDA held, record : Stored(held, record[1], record[2]), block, records)
Encoded(content) == [i \in DOMAIN content |-> <<content[i][1], Wire(Schema[content[i][1]], content[i][2])>>]

(* get_as, and what Map answers for a record that is not there.            *)
Typed(block, tag) ==
  IF tag \in TagsOf(block) THEN Decoded(Schema[tag], FirstOf(block, tag))
  ELSE IF tag \in DOMAIN Defaults THEN {Defaults[tag]} ELSE {}

-----------------------------------------------------------------------------
(* Layers of sections (graph/mod.rs): an id, a reserved number, a payload. *)

Section == All(<<Num(2), Num(2), Blob(4)>>)
WriteSections(numbered) ==
  Joined([i \in DOMAIN numbered |-> Wire(Section, <<numbered[i][1], 0, numbered[i][2]>>)])

VectorsId == 20

(* SectionReader::find: the payload of the first section of an id, if any; *)
(* nothing if a section before it is cut short.                            *)
RECURSIVE FindSection(_, _, _)
FindSection(bytes, at, id) ==
  IF at = Len(bytes) THEN {<<>>}
  ELSE LET next == ReadAs(Section, bytes, at)
       IN  IF next.at < 0 THEN {}
           ELSE IF next.value[1] = id THEN {<<next.value[3]>>} ELSE FindSection(bytes, next.at, id)

(* Of the sections of an id, the last; none is empty.                      *)
LastSection(parts, id) ==
  LET at == {i \in DOMAIN parts : parts[i][1] = id} IN IF at = {} THEN <<>> ELSE parts[Max(at)][3]

(* A section that holds all of a layer, or the default.                    *)
DecodedSection(form, bytes, default) ==
  UNION {IF found = <<>> THEN {default} ELSE Decoded(form, found[1])
         : found \in FindSection(bytes, 0, VectorsId)}

(* vector.rs: a shape has at least 13 bytes with its length.               *)
VectorKinds == 2
VectorShape ==
  All(<<Num(4), OneOf(1, VectorKinds), Many(2, All(Nums(2, 4))), Many(2, All(<<Num(2), Num(4)>>))>>)
VectorLayer == Counted(13, Sized(VectorShape))

(* region.rs: features, with a reference into the outlines.                *)
TriggerModes == 2
FeatureForm == Fixed(20, <<Num(2), Num(2), Num(4), Num(4), Num(4), OrFirst(1, TriggerModes)>>)
RegionSet == All(<<Many(2, FeatureForm), Many(2, Many(2, All(Nums(2, 4))))>>)

(* RegionSet::new.                                                         *)
HasOutlines(regions) == \A i \in DOMAIN regions[1] : regions[1][i][2] < Len(regions[2])
DecodedRegions(bytes) ==
  LET read == DecodedSection(RegionSet, bytes, <<<<>>, <<>>>>) IN {set \in read : HasOutlines(set)}

(* prm.rs: a roadmap [batch, seed, nodes, offsets, edges, links].          *)
PrmHead == All(<<Num(2), Num(2), Num(8), Num(4), Num(4), Num(4)>>)
PrmNode == All(<<Num(4), Num(4), Num(4), Num(2)>>)
PrmEdge == All(<<Num(4), Num(4), Num(4), Num(1), Num(1)>>)
InterfaceLink == All(Nums(5, 4))

(* build_offsets: edges [source, edge] sorted by their source, counting.   *)
BuildOffsets(count, edges) ==
  LET kept == SelectSeq(edges, LAMBDA edge : edge[1] < count)
      offsets == [i \in 1..count + 1 |-> Cardinality({k \in DOMAIN kept : kept[k][1] < i - 1})]
      place(state, edge) ==
        [sorted |-> [state.sorted EXCEPT ![state.cursor[edge[1] + 1] + 1] = edge[2]],
         cursor |-> [state.cursor EXCEPT ![edge[1] + 1] = @ + 1]]
      start == [sorted |-> [k \in DOMAIN kept |-> Zeros(5)], cursor |-> offsets]
  IN  [offsets |-> offsets, edges |-> FoldLeft(place, start, kept).sorted]

(* PrmGraph::encode.                                                       *)
PrmWire(graph) ==
  LET lens == <<Len(graph.nodes), Len(graph.edges), Len(graph.links)>>
  IN  Wire(PrmHead, <<graph.batch, 0, graph.seed>> \o lens) \o
      WriteSections(<< <<0, Wire(Every(PrmNode), graph.nodes)>>, <<1, Wire(Every(Num(4)), graph.offsets)>>,
                  <<2, Wire(Every(PrmEdge), graph.edges)>>,
                  <<3, Wire(Every(InterfaceLink), graph.links)>> >>)

(* PrmGraph::validate.                                                     *)
IsRoadmap(graph) ==
  /\ Len(graph.offsets) = Len(graph.nodes) + 1 /\ Last(graph.offsets) = Len(graph.edges)
  /\ \A i \in DOMAIN graph.nodes : graph.offsets[i] <= graph.offsets[i + 1]
  /\ \A k \in DOMAIN graph.edges : graph.edges[k][1] < Len(graph.nodes)

(* PrmGraph::decode: a table may be longer than its number, but not the    *)
(* offsets.                                                                *)
DecodedPrm(bytes) ==
  UNION { LET head == ReadAs(PrmHead, bytes, 0).value
              listed(n, item, id) == Decoded(Times(head[n], item), LastSection(parts, id))
          IN  {graph \in
                 [batch : {head[1]}, seed : {head[3]}, nodes : listed(4, PrmNode, 0),
                  offsets : Decoded(Every(Num(4)), LastSection(parts, 1)),
                  edges : listed(5, PrmEdge, 2), links : listed(6, InterfaceLink, 3)] : IsRoadmap(graph)}
          : parts \in Values(ReadAs(Every(Section), bytes, ReadAs(PrmHead, bytes, 0).at)) }

(* PrmGraph::neighbours; nodes are counted from 0.                         *)
Neighbours(graph, node) == SubSeq(graph.edges, graph.offsets[node + 1] + 1, graph.offsets[node + 2])

(* kpath.rs: a library [params, od, sets, nodes]; an entry of the index is *)
(* a key of two cells and the number of a set; a path ends with its range  *)
(* of samples.                                                             *)
KPathParams == Fixed(20, <<Num(4), Num(1), Num(4), Num(4), Num(1), Yes, Num(4)>>)
OdEntry == Fixed(20, [i \in 1..4 |-> Signed(4)] \o <<Num(4)>>)
KPath == Fixed(20, Nums(5, 4))
PathSets == Counted(4, Counted(20, KPath))
Samples == Counted(12, All(Nums(3, 4)))

KeyOf(entry) == SubSeq(entry, 1, 4)
Before(key, other) == \E i \in 1..4 : key[i] < other[i] /\ \A j \in 1..i - 1 : key[j] = other[j]

(* binary_search_by_key: where a key is, or belongs.                       *)
RECURSIVE Search(_, _, _, _)
Search(od, key, from, to) ==
  LET middle == (from + to) \div 2
  IN  IF from > to THEN from
      ELSE IF KeyOf(od[middle]) = key THEN middle
      ELSE IF Before(KeyOf(od[middle]), key) THEN Search(od, key, middle + 1, to)
      ELSE Search(od, key, from, middle - 1)
Place(od, key) == Search(od, key, 1, Len(od))
IsAt(od, key, at) == at <= Len(od) /\ KeyOf(od[at]) = key

(* KPathLibrary::find, and KPath::points.                                  *)
FindSet(lib, key) ==
  LET at == Place(lib.od, key)
  IN  IF IsAt(lib.od, key, at) /\ lib.od[at][5] < Len(lib.sets) THEN {lib.sets[lib.od[at][5] + 1]} ELSE {}
PointsOf(lib, path) ==
  IF path[4] + path[5] <= Len(lib.nodes) THEN SubSeq(lib.nodes, path[4] + 1, path[4] + path[5]) ELSE <<>>

(* push_nodes of one path after the other.                                 *)
PushNodes(nodes, routes) ==
  FoldLeft(LAMBDA state, route :
             [nodes |-> state.nodes \o route.points,
              paths |-> Append(state.paths, route.costs \o <<Len(state.nodes), Len(route.points)>>)],
           [nodes |-> nodes, paths |-> <<>>], routes)

(* insert_set.                                                             *)
InsertSet(lib, key, paths) ==
  LET at == Place(lib.od, key)
  IN  IF IsAt(lib.od, key, at) THEN [lib EXCEPT !.sets[lib.od[at][5] + 1] = paths]
      ELSE [lib EXCEPT !.sets = Append(@, paths), !.od = InsertAt(@, at, key \o <<Len(lib.sets)>>)]

KPathWire(lib) ==
  WriteSections(<< <<10, Wire(KPathParams, lib.params)>>, <<11, Wire(Every(OdEntry), lib.od)>>,
                   <<12, Wire(PathSets, lib.sets)>>, <<13, Wire(Samples, lib.nodes)>> >>)

(* A table without its number is an empty one.                             *)
DecodedTable(form, bytes) == IF Len(bytes) < 4 THEN {<<>>} ELSE Decoded(form, bytes)

DecodedKPath(bytes) ==
  UNION { LET od == LastSection(parts, 11)
          IN  {lib \in
                 [params : Decoded(KPathParams, LastSection(parts, 10)),
                  od : Decoded(Times(Len(od) \div 20, OdEntry), od),
                  sets : DecodedTable(PathSets, LastSection(parts, 12)),
                  nodes : DecodedTable(Samples, LastSection(parts, 13))] :
                 \A i \in DOMAIN lib.od : lib.od[i][5] < Len(lib.sets)}
          : parts \in Decoded(Every(Section), bytes) }

-----------------------------------------------------------------------------
(* Writing an image (writer.rs). *)

RegionsLayer == 1
VectorsLayer == 2
PrmLayer == 3
KPathLayer == 4
IsDerivedLayer(layer) == layer \in {PrmLayer, KPathLayer}

(* A call of the writer; metadata only before the first chunk is written   *)
(* (ensure_metadata_mutable).                                              *)
Write ==
  /\ image = {} /\ writeCount < WriteLimit
  /\ writeCount' = writeCount + 1
  /\ UNCHANGED <<image, patch, patchCount>>
WriteMeta == Write /\ frozen = {} /\ UNCHANGED <<frozen, sections, library, drawn, routed>>

SayTyped(content) ==
  [tag \in TagsOf(content) |->
     [typed |-> TRUE, value |-> content[Max({i \in DOMAIN content : content[i][1] = tag})][2]]]

(* set_map_info and the others.                                            *)
SetMeta ==
  /\ WriteMeta
  /\ \E content \in Contents :
       meta' = StoredAll(meta, Encoded(content)) /\ said' = SayTyped(content) @@ said
  /\ UNCHANGED <<table, extMeta, pushed>>

SetMetaRaw ==
  /\ WriteMeta
  /\ \E raw \in Raws :
       /\ meta' = Stored(meta, raw[1], raw[2])
       /\ said' = (raw[1] :> [typed |-> FALSE, value |-> raw[2]]) @@ said
  /\ UNCHANGED <<table, extMeta, pushed>>

PushExtMeta ==
  /\ WriteMeta
  /\ \E raw \in Raws : extMeta' = Append(extMeta, raw) /\ pushed' = Append(pushed, raw)
  /\ UNCHANGED <<meta, table, said>>

(* set_layer; one without channels is refused.                             *)
SetLayer ==
  /\ WriteMeta
  /\ \E desc \in Descs :
       LET at == {i \in DOMAIN table : table[i][1] = desc[1]}
       IN  /\ desc[3] > 0
           /\ table' = IF at = {} THEN Append(table, desc) ELSE [table EXCEPT ![Min(at)] = desc]
  /\ UNCHANGED <<meta, extMeta, said, pushed>>

(* The library is filled before it is handed to the writer.                *)
AddPaths ==
  /\ Write
  /\ \E route \in Routes :
       LET made == PushNodes(library.nodes, route.paths)
       IN  /\ library' = InsertSet([library EXCEPT !.nodes = made.nodes], route.key, made.paths)
           /\ routed' = (route.key :> route.paths) @@ routed
  /\ UNCHANGED <<meta, table, extMeta, frozen, sections, said, pushed, drawn>>

(* ensure_prologue: the layers are the last record to be set.              *)
Prologue ==
  IF frozen # {} THEN frozen
  ELSE {[meta |-> Stored(meta, LayerTableTag, Wire(LayerTable, table)), ext |-> extMeta]}

(* RegionSet::new has its say when the set is made, and a roadmap comes    *)
(* from a list of edges.                                                   *)
MayDraw(draft) == draft.layer = RegionsLayer => HasOutlines(draft.what)

Roadmap(road) ==
  LET csr == BuildOffsets(Len(road.nodes), road.edges)
  IN  [batch |-> 0, seed |-> road.seed, nodes |-> road.nodes, offsets |-> csr.offsets, edges |-> csr.edges,
       links |-> road.links]

PayloadOf(draft) ==
  CASE draft.layer = RegionsLayer -> Wire(Section, <<VectorsId, 0, Wire(RegionSet, draft.what)>>)
    [] draft.layer = VectorsLayer -> Wire(Section, <<VectorsId, 0, Wire(VectorLayer, draft.what)>>)
    [] draft.layer = PrmLayer -> PrmWire(Roadmap(draft.what))
    [] draft.layer = KPathLayer -> KPathWire(library)
    [] OTHER -> draft.what

(* write_section.                                                          *)
WriteSection ==
  /\ Write
  /\ \E draft \in LayerDrafts :
       /\ MayDraw(draft)
       /\ sections' = (draft.layer :> PayloadOf(draft) \o WriteSections(draft.more)) @@ sections
       /\ drawn' = (draft.layer :> IF draft.layer = KPathLayer THEN routed ELSE draft.what) @@ drawn
  /\ frozen' = Prologue
  /\ UNCHANGED <<meta, table, extMeta, library, said, pushed, routed>>

(* derive_flags (for the dictionary, 0) and feature_dim.                   *)
Dict == 0
Flags(written, block) ==
  {layer \in DOMAIN written : layer \in {PrmLayer, KPathLayer, RegionsLayer, VectorsLayer}} \cup
  (IF DictTag \in TagsOf(block) THEN {Dict} ELSE {})

FeatureDim(block) ==
  IF FeatureSchemaTag \notin TagsOf(block) THEN 0
  ELSE LET dims == {Min({Len(schema), Most(1)}) : schema \in Typed(block, FeatureSchemaTag)}
       IN  IF dims = {} THEN 0 ELSE Max(dims)

Finish ==
  /\ image = {}
  /\ image' = {[nth |-> 0, meta |-> Wire(Block, prologue.meta), ext |-> Wire(Block, prologue.ext),
                sections |-> sections, flags |-> Flags(sections, prologue.meta),
                dim |-> FeatureDim(prologue.meta)] : prologue \in Prologue}
  /\ said' = (LayerTableTag :> [typed |-> TRUE, value |-> table]) @@ said
  /\ frozen' = Prologue
  /\ UNCHANGED <<meta, table, extMeta, sections, library, patch, writeCount, patchCount, pushed, drawn,
                 routed>>

-----------------------------------------------------------------------------
(* Patches (patch.rs). *)

PatchMagic == 7
ReplacementHeader == 22
PatchHead == All(<<Exactly(4, PatchMagic), Num(2), Num(2), Num(8), Num(4), Num(4)>>)
Replacement == All(<<Num(2), Num(1), Num(1), Num(4), Num(1), Num(1), Num(2), Num(4), Blob(4)>>)

PatchWire(made) ==
  LET records == Wire(Block, made.meta)
      fields == [i \in DOMAIN made.replacements |->
                   <<made.replacements[i].layer, 0, 0, 0, 0, 0, 0, Len(made.replacements[i].payload),
                     made.replacements[i].payload>>]
  IN  Wire(PatchHead, <<PatchMagic, 1, 0, made.base, Len(fields), Len(records)>>) \o
      Wire(Every(Replacement), fields) \o records

(* Patch::decode: of 22 bytes for a replacement, by its own account.       *)
DecodedPatch(bytes) ==
  LET head == ReadAs(PatchHead, bytes, 0)
      room == Max({0, Len(bytes) - head.at - head.value[6]})
      listed == ReadAs(Times(head.value[5], Replacement), bytes, head.at)
      records == Take(bytes, listed.at, head.value[6])
  IN  IF head.at < 0 \/ head.value[5] * ReplacementHeader > room \/ records.at < 0 THEN {}
      ELSE {[base |-> head.value[4], meta |-> block,
             replacements |-> [i \in DOMAIN listed.value |->
                                 [layer |-> listed.value[i][1], payload |-> listed.value[i][9]]]]
            : block \in Decoded(Block, records.value)}

LayersOf(opened) == UNION {{layers[i][1] : i \in DOMAIN layers} : layers \in opened}

(* Map::from_bytes: the block, if it and its layers can be read.           *)
Opened(map) == {block \in Decoded(Block, map.meta) : Typed(block, LayerTableTag) # {}}
Registered(map) == UNION {LayersOf(Typed(block, LayerTableTag)) : block \in Opened(map)}

(* check_patchable.                                                        *)
MayReplace(map, replacement) == ~IsDerivedLayer(replacement.layer) /\ replacement.layer \in Registered(map)

(* Patch::for_map, then with_meta.                                         *)
PreparePatch ==
  /\ patch = {} /\ patchCount < PatchLimit
  /\ \E map \in image, content \in Contents \cup {<<>>}, replacements \in Replacements :
       /\ \A i \in DOMAIN replacements : MayReplace(map, replacements[i])
       /\ patch' = {[base |-> map.nth, meta |-> Encoded(content),
                     replacements |->
                       [i \in DOMAIN replacements |->
                          [layer |-> replacements[i].layer, payload |-> PayloadOf(replacements[i])]],
                     says |-> SayTyped(content), draws |-> replacements]}
  /\ UNCHANGED <<meta, table, extMeta, frozen, sections, library, image, writeCount, patchCount, said,
                 pushed, drawn, routed>>

(* Patch::apply, of the patch or of the file it was saved as.              *)
PatchedImage(map, made) ==
  [map EXCEPT !.nth = @ + 1,
              !.meta = IF made.meta = <<>> THEN @
                       ELSE Wire(Block, StoredAll(CHOOSE block \in Opened(map) : TRUE, made.meta)),
              !.sections =
                FoldLeft(LAMBDA held, one : (one.layer :> one.payload) @@ held, @, made.replacements)]

ApplyPatchFile ==
  /\ patchCount' = patchCount + 1 /\ patch' = {}
  /\ \E made \in patch, map \in image, asFile \in BOOLEAN :
       LET read == IF asFile THEN DecodedPatch(PatchWire(made)) ELSE {made}
           fits == {one \in read : /\ one.base = map.nth
                                   /\ \A i \in DOMAIN one.replacements :
                                        MayReplace(map, one.replacements[i])}
       IN  \/ fits = {} /\ UNCHANGED <<image, said, drawn>>
           \/ /\ fits # {}
              /\ image' = {PatchedImage(map, one) : one \in fits}
              /\ said' = made.says @@ said
              /\ drawn' = FoldLeft(LAMBDA held, draft : (draft.layer :> draft.what) @@ held,
                                   drawn, made.draws)
  /\ UNCHANGED <<meta, table, extMeta, frozen, sections, library, writeCount, pushed, routed>>

RecordsInit ==
  /\ meta = <<>> /\ table = <<>> /\ extMeta = <<>> /\ frozen = {}
  /\ sections = <<>>
  /\ library = [params |-> <<1, 5, 3, 2, 1, TRUE, 25>>, od |-> <<>>, sets |-> <<>>, nodes |-> <<>>]
  /\ image = {} /\ patch = {}
  /\ writeCount = 0 /\ patchCount = 0
  /\ said = <<>> /\ pushed = <<>> /\ drawn = <<>> /\ routed = <<>>

RecordsNext ==
  \/ SetMeta \/ SetMetaRaw \/ PushExtMeta \/ SetLayer \/ AddPaths \/ WriteSection \/ Finish
  \/ PreparePatch \/ ApplyPatchFile

RecordsSpec == RecordsInit /\ [][RecordsNext]_recordVars

-----------------------------------------------------------------------------
(* Properties. *)

(* What a form can hold of a value: as many items and bytes as its prefix  *)
(* can count, and whole characters.                                        *)
RECURSIVE Held(_, _)
Held(form, value) ==
  LET each(items) == [i \in DOMAIN items |-> Held(form.of[1], items[i])]
      kept == Clipped(value, form.width)
      ends == {count \in 0..Min({Len(value), Most(form.width)}) : IsText(SubSeq(value, 1, count))}
  IN  CASE form.is = "text" -> SubSeq(value, 1, Max(ends))
        [] form.is = "blob" -> kept
        [] form.is = "many" -> each(kept)
        [] form.is \in {"maybe", "counted", "every"} -> each(value)
        [] form.is = "sized" -> Held(form.of[1], value)
        [] form.is \in {"all", "fixed"} -> [i \in DOMAIN value |-> Held(form.of[i], value[i])]
        [] OTHER -> value

(* Every record is there once and reads as it was last set, in full if it  *)
(* fits; those of other tags and the extension are as they were.           *)
RecordsAreKept(map) ==
  \E block \in Opened(map) :
    /\ TagsOf(block) = DOMAIN said /\ Cardinality(TagsOf(block)) = Len(block)
    /\ \A tag \in DOMAIN said :
         IF said[tag].typed THEN Typed(block, tag) = {Held(Schema[tag], said[tag].value)}
         ELSE FirstOf(block, tag) = said[tag].value
    /\ Decoded(Block, map.ext) = {pushed}
    /\ map.nth = 0 => map.flags = Flags(map.sections, block) /\ map.dim = FeatureDim(block)

(* Regions are those that were drawn, and never one with an outline of     *)
(* another: a set is refused whose outlines were too many to be kept.      *)
RegionsAreKept(bytes, what) ==
  LET held == Held(RegionSet, what)
  IN  DecodedRegions(bytes) = IF HasOutlines(held) THEN {held} ELSE {}

(* A roadmap has the edges of every node, in the order they were found; it *)
(* is refused if one leads nowhere.                                        *)
RoadsAreKept(bytes, road) ==
  LET kept == SelectSeq(road.edges, LAMBDA edge : edge[1] < Len(road.nodes))
      from(node) == SelectSeq(kept, LAMBDA edge : edge[1] = node)
      read == DecodedPrm(bytes)
  IN  IF \E k \in DOMAIN kept : kept[k][2][1] >= Len(road.nodes) THEN read = {}
      ELSE \E graph \in read :
             /\ graph.seed = road.seed /\ graph.nodes = road.nodes /\ graph.links = road.links
             /\ \A node \in 0..Len(road.nodes) - 1 :
                  Neighbours(graph, node) = [k \in DOMAIN from(node) |-> from(node)[k][2]]

(* Between two cells lead the paths that were last given for them, sample  *)
(* by sample; between others, none.                                        *)
PathsAreKept(bytes, routes) ==
  \E lib \in DecodedKPath(bytes) :
    /\ {KeyOf(lib.od[i]) : i \in DOMAIN lib.od} = DOMAIN routes
    /\ \A key \in DOMAIN routes : \E set \in FindSet(lib, key) :
         [i \in DOMAIN set |->
            [costs |-> SubSeq(set[i], 1, 3), points |-> PointsOf(lib, set[i])]] = routes[key]

LayerIsKept(layer, bytes) ==
  CASE layer = RegionsLayer -> RegionsAreKept(bytes, drawn[layer])
    [] layer = VectorsLayer -> DecodedSection(VectorLayer, bytes, <<>>) = {Held(VectorLayer, drawn[layer])}
    [] layer = PrmLayer -> RoadsAreKept(bytes, drawn[layer])
    [] layer = KPathLayer -> PathsAreKept(bytes, drawn[layer])
    [] OTHER -> bytes = drawn[layer]

(* A patch file says what the patch says, unless its payloads are so short *)
(* that it is taken for cut off.                                           *)
PatchIsKept(made) ==
  LET records == [base |-> made.base, meta |-> made.meta, replacements |-> made.replacements]
      payloads == MapThenSumSet(LAMBDA i : Len(made.replacements[i].payload), DOMAIN made.replacements)
  IN  DecodedPatch(PatchWire(made)) = IF payloads < 2 * Len(made.replacements) THEN {} ELSE {records}

(* What is cut off is never read as something else.                        *)
NothingCutIsRead ==
  \A content \in Contents : \A record \in ToSet(Encoded(content)) :
    record[1] # DictTag =>
      \A count \in 0..Len(record[2]) - 1 : Decoded(Schema[record[1]], SubSeq(record[2], 1, count)) = {}

(* An image says what was said last, record by record and layer by layer,  *)
(* as it was written and after every patch.                                *)
ImagesSayWhatWasSaid ==
  /\ NothingCutIsRead
  /\ \A map \in image :
       /\ RecordsAreKept(map)
       /\ \A layer \in DOMAIN map.sections : LayerIsKept(layer, map.sections[layer])
  /\ \A made \in patch : PatchIsKept(made)
=============================================================================
