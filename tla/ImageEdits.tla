------------------------------ MODULE ImageEdits ------------------------------
(***************************************************************************)
(* Editing an image.  The service turns a script of edits into a patch of  *)
(* the image it is sent (service api/omf.rs); the client keeps the image,  *)
(* its structure and the edited image in one store (web stores/omf.ts)     *)
(* that two panels work on: the inspector (OmfPanel.vue), which takes any  *)
(* file, and the studio (StudioPanel.vue), which draws on a map of the     *)
(* library.                                                                *)
(*                                                                         *)
(* An image is the map it came from, its information record, its table of  *)
(* connectors and, if it has that layer, its regions: features with a tag  *)
(* and a reference, counted from 0, into the outlines.  A value that may   *)
(* be null is a set of at most one element.                                *)
(***************************************************************************)
EXTENDS Integers, FiniteSets, SequencesExt

CONSTANTS Library,    \* the maps of the library, each with its image
          Uploads,    \* images a user has as files
          Scripts,    \* edit scripts a user writes in the inspector
          PatchFiles, \* [base, info]: patches a user has as files
          Tags, Ends, \* what a user may draw: regions by tag, connectors by ends
          MaxRef,     \* the largest reference to an outline (2^16 - 1)
          MaxDrafts, MaxCalls

RegionFeature == [tag : STRING, ref : Nat]
Outline == [on : STRING, nth : Int]
Connector == [ends : STRING, by : Nat]

Image ==
  [map : STRING, info : STRING, layer : BOOLEAN, table : Seq(Connector),
   features : Seq(RegionFeature), outlines : Seq(Outline)]

OneAtMost(set) == \A a, b \in set : a = b

(* A script of the service (api/omf.rs): map info, regions, connectors, and *)
(* records of any tag; `sound` if it can be read at all.                    *)
IsScript(script) ==
  /\ script = [sound |-> script.sound, info |-> script.info, regions |-> script.regions,
               links |-> script.links, records |-> script.records]
  /\ script.info \subseteq STRING
  /\ OneAtMost(script.info) /\ OneAtMost(script.regions) /\ OneAtMost(script.links)
  /\ \A edit \in script.regions :
       edit \in [merge : BOOLEAN, features : Seq(RegionFeature), outlines : Seq(Outline)]
  /\ \A edit \in script.links : edit \in [merge : BOOLEAN, links : Seq(Connector)]

ASSUME EditsAssumption ==
  /\ {MaxRef, MaxDrafts, MaxCalls} \subseteq Nat
  /\ Uploads \cup {Library[m] : m \in DOMAIN Library} # {}
  /\ DOMAIN Library \subseteq STRING /\ Tags \subseteq STRING /\ Ends \subseteq STRING
  /\ Uploads \cup {Library[m] : m \in DOMAIN Library} \subseteq Image
  /\ \A script \in Scripts : IsScript(script)

VARIABLES
  source, structure,  \* sourceBytes, and the image the structure tree was read from
  edited,             \* editedBytes: [image, of, script, drawn], with what they were made of
  status, editStatus,
  board,              \* the studio: [map, regions, links, exporting]
  calls, asked,       \* requests not answered yet, and how many there were
  files               \* what was saved as a file

editVars == <<source, structure, edited, status, editStatus, board, calls, asked, files>>

-----------------------------------------------------------------------------
(* The service: a script applied to an image. *)

Upserted(held, item, key) ==
  LET at == {i \in DOMAIN held : held[i][key] = item[key]}
  IN  IF at = {} THEN Append(held, item) ELSE [held EXCEPT ![Min(at)] = item]

Merged(held, items, key) == FoldLeft(LAMBDA seq, item : Upserted(seq, item, key), held, items)

Bug_Shifted(ref, offset) == IF ref >= offset THEN Min({MaxRef, ref + offset}) ELSE ref

(* A reference is local to the request's outlines and moves behind those   *)
(* already stored (saturating_add).                                        *)
Shifted(ref, offset) == Min({MaxRef, ref + offset})

(* merge_regions, or the submitted set itself: features and outlines.      *)
RegionsAfter(image, edit) ==
  IF edit.merge
  THEN LET moved == [i \in DOMAIN edit.features |->
                       [edit.features[i] EXCEPT !.ref = Shifted(@, Len(image.outlines))]]
       IN  [features |-> Merged(image.features, moved, "tag"),
            outlines |-> image.outlines \o edit.outlines]
  ELSE [features |-> edit.features, outlines |-> edit.outlines]

(* A region set whose features all have an outline (RegionSet::new).       *)
Sound(regions) == \A i \in DOMAIN regions.features : regions.features[i].ref < Len(regions.outlines)

(* A region edit that is refused: the map has no such layer, or a          *)
(* reference leads nowhere.                                                *)
RegionsRefused(image, edit) ==
  \/ ~image.layer
  \/ /\ edit.merge
     /\ \/ ~Sound(image) \/ Len(image.outlines) > MaxRef
        \/ \E i \in DOMAIN edit.features : edit.features[i].ref >= Min({MaxRef, Len(edit.outlines)})
  \/ ~Sound(RegionsAfter(image, edit))

(* RegionSet::encode writes as many outlines as its counter holds.         *)
Written(regions) ==
  [regions EXCEPT !.outlines = SubSeq(@, 1, Min({MaxRef, Len(@)}))]

(* connector_table.                                                        *)
TableAfter(image, edit) == Merged(IF edit.merge THEN image.table ELSE <<>>, edit.links, "ends")

(* tlv_record: the tags that can be written, of those that are known.      *)
WritableTags == {"map_info", "connector_table", "slope_model"}

(* build_patch; a script with a field the service does not know is not     *)
(* sound.                                                                  *)
Refused(image, script) ==
  \/ ~script.sound
  \/ \E edit \in script.regions : RegionsRefused(image, edit)
  \/ \E i \in DOMAIN script.records : script.records[i].tag \notin WritableTags

(* What the records of one tag leave: the last of them, or what was there. *)
LastRecord(records, tag, default) ==
  LET at == {i \in DOMAIN records : records[i].tag = tag}
  IN  IF at = {} THEN default ELSE records[Max(at)].value

(* Patch::apply: map info, regions, connectors, then the raw records.      *)
EditedImage(image, script) ==
  LET regions == IF script.regions = {} THEN [features |-> image.features, outlines |-> image.outlines]
                 ELSE Written(RegionsAfter(image, CHOOSE edit \in script.regions : TRUE))
      table == IF script.links = {} THEN image.table
               ELSE TableAfter(image, CHOOSE edit \in script.links : TRUE)
      info == IF script.info = {} THEN image.info ELSE CHOOSE i \in script.info : TRUE
  IN  [image EXCEPT !.features = regions.features, !.outlines = regions.outlines,
                    !.table = LastRecord(script.records, "connector_table", table),
                    !.info = LastRecord(script.records, "map_info", info)]

-----------------------------------------------------------------------------
(* The client: requests. *)

NoScript == [sound |-> TRUE, info |-> {}, regions |-> {}, links |-> {}, records |-> <<>>]

Ask(call) ==
  /\ asked < MaxCalls
  /\ asked' = asked + 1
  /\ calls' = calls \cup {call}

(* inspect: a file chosen, pasted, or just imported into the library.      *)
Inspect ==
  /\ \E image \in Uploads : Ask([nth |-> asked + 1, op |-> "inspect", image |-> image])
  /\ status' = "loading"
  /\ UNCHANGED <<source, structure, edited, editStatus, board, files>>

(* The reply is a structure tree, or something else, or there is none.     *)
Inspected(call, good) ==
  /\ calls' = calls \ {call}
  /\ IF good
     THEN /\ structure' = {call.image} /\ source' = {call.image}
          /\ edited' = {}
          /\ status' = "ready"
     ELSE status' = "failed" /\ UNCHANGED <<source, structure, edited>>
  /\ UNCHANGED <<editStatus, board, asked, files>>

(* useLibraryImage: the image of the map on the board.                     *)
UseLibraryImage ==
  /\ Ask([nth |-> asked + 1, op |-> "download", image |-> Library[board.map]])
  /\ UNCHANGED <<source, structure, edited, status, editStatus, board, files>>

Bug_SetSource(image) ==
  /\ source' = {image} /\ edited' = {}
  /\ status' = "idle" /\ editStatus' = "idle"
  /\ UNCHANGED structure

(* setSource drops what was derived from the image before.                 *)
SetSource(image) ==
  /\ source' = {image} /\ structure' = {} /\ edited' = {}
  /\ status' = "idle" /\ editStatus' = "idle"

Downloaded(call, good) ==
  /\ calls' = calls \ {call}
  /\ IF good THEN SetSource(call.image) ELSE UNCHANGED <<source, structure, edited, status, editStatus>>
  /\ UNCHANGED <<board, asked, files>>

(* regionsEdit and the script of exportImage.                              *)
DraftScript(drawing) ==
  LET drawn == drawing.regions
      regions == [merge |-> TRUE,
                  features |-> [i \in DOMAIN drawn |-> [tag |-> drawn[i].tag, ref |-> i - 1]],
                  outlines |-> [i \in DOMAIN drawn |-> drawn[i].outline]]
  IN  [NoScript EXCEPT !.regions = IF drawn = <<>> THEN {} ELSE {regions},
                       !.links = IF drawing.links = <<>> THEN {}
                                 ELSE {[merge |-> TRUE, links |-> drawing.links]}]

(* exportImage: the image in the store, whichever it is.                   *)
Export ==
  /\ ~board.exporting /\ source # {}
  /\ board.regions \o board.links # <<>>
  /\ \E image \in source :
       Ask([nth |-> asked + 1, op |-> "edit", by |-> "studio", image |-> image,
            script |-> DraftScript(board), drawn |-> {board}])
  /\ board' = [board EXCEPT !.exporting = TRUE]
  /\ editStatus' = "loading"
  /\ UNCHANGED <<source, structure, edited, status, files>>

(* applyEdit of the inspector, which shows the form with the structure.    *)
ApplyEdit ==
  /\ structure # {} /\ editStatus # "loading"
  /\ \E image \in source, script \in Scripts :
       Ask([nth |-> asked + 1, op |-> "edit", by |-> "inspector", image |-> image,
            script |-> script, drawn |-> {}])
  /\ editStatus' = "loading"
  /\ UNCHANGED <<source, structure, edited, status, board, files>>

(* onPatchChosen: nothing keeps a user from choosing another meanwhile.    *)
ChoosePatch ==
  /\ structure # {}
  /\ \E image \in source, patch \in PatchFiles :
       Ask([nth |-> asked + 1, op |-> "patch", image |-> image, patch |-> patch])
  /\ editStatus' = "loading"
  /\ UNCHANGED <<source, structure, edited, status, board, files>>

(* The answer of an edit: keepEdited, and the studio saves it as a file.   *)
Kept(call, image) ==
  LET made == [image |-> image, of |-> call.image, script |-> call.script, drawn |-> call.drawn]
  IN  /\ edited' = {made}
      /\ editStatus' = "ready"
      /\ files' = IF call.by = "studio" THEN files \cup {made} ELSE files

EditAnswered(call, good) ==
  /\ calls' = calls \ {call}
  /\ IF good /\ ~Refused(call.image, call.script)
     THEN Kept(call, EditedImage(call.image, call.script))
     ELSE editStatus' = "failed" /\ UNCHANGED <<edited, files>>
  /\ board' = IF call.by = "studio" THEN [board EXCEPT !.exporting = FALSE] ELSE board
  /\ UNCHANGED <<source, structure, status, asked>>

(* A patch made for another image is refused.                              *)
PatchAnswered(call, good) ==
  /\ calls' = calls \ {call}
  /\ IF good /\ call.patch.base = call.image
     THEN /\ editStatus' = "ready"
          /\ edited' = {[image |-> [call.image EXCEPT !.info = call.patch.info], of |-> call.image,
                         script |-> [NoScript EXCEPT !.info = {call.patch.info}], drawn |-> {}]}
     ELSE editStatus' = "failed" /\ UNCHANGED edited
  /\ UNCHANGED <<source, structure, status, board, asked, files>>

Answer ==
  \E call \in calls, good \in BOOLEAN :
    \/ call.op = "inspect" /\ Inspected(call, good)
    \/ call.op = "download" /\ Downloaded(call, good)
    \/ call.op = "edit" /\ EditAnswered(call, good)
    \/ call.op = "patch" /\ PatchAnswered(call, good)

-----------------------------------------------------------------------------
(* The client: the two panels. *)

(* The studio opens on another map: its drafts go, the store stays.        *)
PickMap ==
  /\ \E m \in DOMAIN Library \ {board.map} :
       board' = [board EXCEPT !.map = m, !.regions = <<>>, !.links = <<>>]
  /\ UNCHANGED <<source, structure, edited, status, editStatus, calls, asked, files>>

Drafts == Len(board.regions) + Len(board.links)

(* finishRegion and the second click of a connector.                       *)
Draw ==
  /\ Drafts < MaxDrafts
  /\ \/ \E tag \in Tags :
          board' = [board EXCEPT !.regions =
                      Append(@, [tag |-> tag, outline |-> [on |-> board.map, nth |-> Drafts + 1]])]
     \/ \E ends \in Ends :
          board' = [board EXCEPT !.links = Append(@, [ends |-> ends, by |-> Drafts + 1])]
  /\ UNCHANGED <<source, structure, edited, status, editStatus, calls, asked, files>>

(* removeRegion, removeConnector.                                          *)
Erase ==
  /\ \/ \E i \in DOMAIN board.regions : board' = [board EXCEPT !.regions = RemoveAt(@, i)]
     \/ \E i \in DOMAIN board.links : board' = [board EXCEPT !.links = RemoveAt(@, i)]
  /\ UNCHANGED <<source, structure, edited, status, editStatus, calls, asked, files>>

(* clear: the store as it was at first, whatever is under way.             *)
Reset ==
  /\ source # {}
  /\ source' = {} /\ structure' = {} /\ edited' = {}
  /\ status' = "idle" /\ editStatus' = "idle"
  /\ UNCHANGED <<board, calls, asked, files>>

EditsInit ==
  /\ source = {} /\ structure = {} /\ edited = {}
  /\ status = "idle" /\ editStatus = "idle"
  /\ board \in {[map |-> m, regions |-> <<>>, links |-> <<>>, exporting |-> FALSE] : m \in DOMAIN Library}
  /\ calls = {} /\ asked = 0
  /\ files = {}

EditsNext ==
  \/ Inspect \/ UseLibraryImage \/ Export \/ ApplyEdit \/ ChoosePatch \/ Answer
  \/ PickMap \/ Draw \/ Erase \/ Reset

EditsSpec == EditsInit /\ [][EditsNext]_editVars

-----------------------------------------------------------------------------
(* Properties. *)

EditsTypeOK ==
  /\ \A held \in {source, structure, edited} : Cardinality(held) <= 1
  /\ {status, editStatus} \subseteq {"idle", "loading", "ready", "failed"}
  /\ asked \in 0..MaxCalls /\ Cardinality(calls) <= asked

(* What an image says: an outline per feature, a connector per link.       *)
RegionOf(set, i) == <<set.features[i].tag, set.outlines[set.features[i].ref + 1]>>
Regions(set) == {RegionOf(set, i) : i \in DOMAIN set.features}
LastBy(items, key, value) == items[Max({i \in DOMAIN items : items[i][key] = value})]
ValuesOf(items, key) == {items[i][key] : i \in DOMAIN items}

(* What a merge leaves as it is: items of other keys than were sent, and    *)
(* of a key that is there more than once all but the first.                 *)
Others(items, key, sent) ==
  {i \in DOMAIN items : items[i][key] \in sent => \E j \in 1..i - 1 : items[j][key] = items[i][key]}

(* A region edit did what was asked: the regions are those submitted, each *)
(* with the outline it was submitted with, and in a merge the others as    *)
(* they were.                                                              *)
RegionsFit(before, edit, after) ==
  LET sent == ValuesOf(edit.features, "tag")
      last == {<<tag, edit.outlines[LastBy(edit.features, "tag", tag).ref + 1]>> : tag \in sent}
  IN  IF edit.merge
      THEN Regions(after) = {RegionOf(before, i) : i \in Others(before.features, "tag", sent)} \cup last
      ELSE Regions(after) = Regions(edit)

LinksFit(before, edit, after) ==
  LET sent == ValuesOf(edit.links, "ends")
      others == IF edit.merge THEN {before[i] : i \in Others(before, "ends", sent)} ELSE {}
  IN  ToSet(after) = others \cup {LastBy(edit.links, "ends", ends) : ends \in sent}

(* What was made is the image it was made of with what the script asks for *)
(* and nothing else changed; what the studio saves has the last drawing of *)
(* every tag and of every pair of ends.  (As long as the outlines can be   *)
(* numbered.)                                                              *)
MeansWhatWasAsked(made) ==
  LET script == made.script
      room == \A edit \in script.regions : Len(made.of.outlines) + Len(edit.outlines) <= MaxRef
  IN  /\ room => \A edit \in script.regions : Sound(made.image) /\ RegionsFit(made.of, edit, made.image)
      /\ script.regions = {} => /\ made.image.features = made.of.features
                               /\ made.image.outlines = made.of.outlines
      /\ "connector_table" \notin ValuesOf(script.records, "tag") =>
           /\ \A edit \in script.links : LinksFit(made.of.table, edit, made.image.table)
           /\ script.links = {} => made.image.table = made.of.table
      /\ room => \A drawn \in made.drawn :
           /\ \A tag \in ValuesOf(drawn.regions, "tag") :
                <<tag, LastBy(drawn.regions, "tag", tag).outline>> \in Regions(made.image)
           /\ \A ends \in ValuesOf(drawn.links, "ends") :
                LastBy(drawn.links, "ends", ends) \in ToSet(made.image.table)

(* Every edited image, kept or saved as a file, means what was asked.      *)
EditsMeanWhatWasAsked == \A made \in edited \cup files : MeansWhatWasAsked(made)

(* The structure on show is that of the image an edit would be applied to, *)
(* although replies come in any order; and with nothing under way nothing  *)
(* spins.                                                                  *)
StructureIsOfSource ==
  /\ structure # {} => structure = source
  /\ board.exporting <=> \E call \in calls : call.op = "edit" /\ call.by = "studio"
  /\ calls = {} => status # "loading" /\ editStatus # "loading"

-----------------------------------------------------------------------------
(* What comments say, and the code does not do. *)

(* "a structure tree or edited image left over from the old one would      *)
(* describe - and be written back over - a file the user is no longer      *)
(* looking at" (stores/omf.ts, setSource): an edit answered after the      *)
(* source was replaced is kept all the same.                               *)
EditedIsOfSource == \A made \in edited : source \subseteq {made.of}

(* "Writes the drawn features back into the base image" (StudioPanel.vue,  *)
(* exportImage): of two regions with one tag the first is dropped ...      *)
EveryDrawingIsWritten ==
  \A made \in files : \A drawn \in made.drawn : \A i \in DOMAIN drawn.regions :
    \E region \in Regions(made.image) : region[2] = drawn.regions[i].outline

(* ... and the image in the store need not be of the map drawn on.         *)
DrawnOnWhatIsEdited == \A made \in files : \A drawn \in made.drawn : made.of.map = drawn.map
=============================================================================
