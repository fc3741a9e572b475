---------------------------- MODULE MCMapImage -----------------------------
(* Images (`focus`): the format (MapImage), on maps of up to four layers   *)
(* with one or two chunks each; or the edits of the service and its client *)
(* (ImageEdits), on a campus with three regions, two of them of one tag,   *)
(* which are stored the other way round than their outlines, and on a      *)
(* plain map without that layer.  A second edit of the campus fills its    *)
(* outlines.  Or the records of an image (MapRecords): up to three calls   *)
(* of the writer, or two and a patch, where a byte has 8 values and a      *)
(* prefix of two bytes counts to 63.                                       *)
EXTENDS MapImage, ImageEdits, MapRecords

CONSTANTS x, y, c1, i1, i2

VARIABLE focus

Add(l, d) == [layer |-> l, data |-> [k \in KeysOf(l) |-> d]]

ABuild == <<Add("prm", x), Add("hard", y)>>

(* A whole map; one whose mask is added twice, one without a roadmap, and   *)
(* one without the elevation its roadmap would be derived from.             *)
SomeBuilds ==
  { <<Add("elevation", x), Add("hard", x), Add("prm", x), Add("kpath", x)>>,
    <<Add("hard", x), Add("elevation", x), Add("kpath", x), Add("prm", y), Add("hard", y)>>,
    <<Add("kpath", x), Add("hard", x), Add("elevation", y)>>,
    ABuild }

Tagged(tag, ref) == [tag |-> tag, ref |-> ref]
Line(map, nth) == [on |-> map, nth |-> nth]

Campus ==
  [map |-> "campus", info |-> "campus", layer |-> TRUE, table |-> <<[ends |-> "stair", by |-> 0]>>,
   features |-> <<Tagged("tunnel", 1), Tagged("indoor", 0), Tagged("tunnel", 0)>>,
   outlines |-> <<Line("campus", -1), Line("campus", -2)>>]

Plain ==
  [map |-> "plain", info |-> "plain", layer |-> FALSE, table |-> <<>>, features |-> <<>>, outlines |-> <<>>]

MCLibrary == [campus |-> Campus, plain |-> Plain]
MCUploads == {Campus, Plain}
MCPatchFiles == {[base |-> Plain, info |-> "patched"]}

RegionScript(merge, features) ==
  [NoScript EXCEPT !.regions =
     {[merge |-> merge, features |-> features, outlines |-> <<Line("script", 1), Line("script", 2)>>]}]

MCScripts ==
  { RegionScript(TRUE, <<Tagged("tunnel", 1), Tagged("canyon", 1)>>),
    RegionScript(TRUE, <<Tagged("canyon", 2)>>),
    RegionScript(FALSE, <<Tagged("tunnel", 1), Tagged("tunnel", 0)>>),
    [NoScript EXCEPT !.links = {[merge |-> FALSE, links |-> <<>>]}],
    [NoScript EXCEPT !.info = {"renamed"}, !.records = <<[tag |-> "map_info", value |-> "renamed again"]>>],
    [NoScript EXCEPT !.records = <<[tag |-> "layer_table", value |-> "none"]>>] }

-----------------------------------------------------------------------------
(* Texts have letters of one byte (1 to 3) and of two (6 and 4).           *)
Letters(n) == [i \in 1..n |-> 1]
Named == <<2, 6, 4, 1>>

(* Every record, the first of them twice and longer the second time.       *)
Full ==
  << <<1, <<<<3>>, <<>>, 1, <<>>, <<>>>>>>,
     <<7, <<1, 2>>>>,
     <<11, <<1, <<3, 2>>>>>>,
     <<1, <<Named, <<>>, 9, <<7, 5>>, <<3>>>>>>,
     <<3, <<<<Named, <<1>>, 3, 2, 0, 4, 5, 6, 7, <<8, 9>>>>>>>>,
     <<4, << <<2, 5, 6, <<7, 8>>>>, <<0, 5, 6, <<>>>> >>>>,
     <<5, <<1, 2, 3, 4095>>>>,
     <<6, << <<4, 1, 2, 3, 4, 5, 6, 2, 7, 8, 9, 10, 11>> >>>>,
     <<8, <<Named, <<1>>, <<Named, <<>>>>, <<<<1, 2>>>>>>>>,
     <<9, <<1, 2, 3>>>>,
     <<12, <<<< <<1, 2, 3, 4, 5, 6>> >>, << <<1, 2>> >>, <<9>>>>>>,
     <<13, <<2, 1, 4, 5>>>>,
     <<14, << <<1, 2, 3, 4, <<5>>>>, <<2, 2, 3, 4, <<>>>> >>>> >>

(* More than the prefixes count: texts that are cut inside a letter and    *)
(* behind one, bytes, numbers, texts.                                      *)
Crowded ==
  << <<1, <<Letters(62) \o <<6, 4>>, Letters(64), 9, [i \in 1..64 |-> 7], <<3>>>>>>,
     <<4, << <<1, 5, 6, [i \in 1..9 |-> i]>> >>>>,
     <<8, <<Letters(61) \o <<6, 4>>, <<>>, [i \in 1..64 |-> <<>>], <<>>>>>>,
     <<10, [i \in 1..65 |-> i]>>,
     <<12, << <<>>, << <<1, 2>> >>, <<>>>>>> >>

(* Paths by their costs and samples, for two keys that are in order only   *)
(* as signed numbers; and for one of them none.                            *)
Point(n) == <<n, n + 1, 2>>
Walk(n, count) == [costs |-> <<n, n, 1>>, points |-> [i \in 1..count |-> Point(n + i)]]

MCContents == {Full, Crowded}
MCRaws == {<<40, <<1, 2, 3>>>>, <<11, <<2, 0, 0>>>>}
Desc(layer, channels) == <<layer, 4, channels, 3, 0, 1, 2, TRUE>>
MCDescs == {Desc(1, 0), Desc(1, 1), Desc(5, 2), Desc(5, 3)}
MCRoutes ==
  { [key |-> <<-1, 0, 2, 2>>, paths |-> <<Walk(1, 2), Walk(5, 0)>>],
    [key |-> <<-1, 0, 2, 2>>, paths |-> <<>>],
    [key |-> <<1, -3, 2, 2>>, paths |-> <<Walk(7, 2)>>] }

(* Sections of a newer producer, behind those that are known.              *)
NoMore == <<>>
More == << <<30, <<1, 2>>>> >>
Trigger(tag, ref) == <<tag, ref, 1, 2, 3, 1>>
Segment(n) == << <<n, 1>>, <<n, 2>> >>
Outlines == [i \in 1..64 |-> IF i < 3 THEN Segment(i) ELSE <<>>]

(* Three nodes; edges out of order, one from nowhere and one to `end`.     *)
Road(end) ==
  [seed |-> 11, nodes |-> <<<<1, 2, 3, 1>>, <<4, 5, 6, 0>>, <<7, 8, 9, 0>>>>,
   edges |-> << <<2, <<0, 1, 1, 3, 0>>>>, <<0, <<1, 2, 2, 4, 0>>>>, <<2, <<1, 3, 3, 5, 0>>>>,
                <<7, <<0, 4, 4, 6, 0>>>>, <<0, <<end, 5, 5, 7, 0>>>> >>,
   links |-> << <<1, 2, 3, 4, 5>> >>]

Layered(layer, what, more) == [layer |-> layer, what |-> what, more |-> more]

MCDrafts ==
  { Layered(RegionsLayer, <<<<Trigger(1, 62), Trigger(2, 1)>>, Outlines>>, More),
    Layered(RegionsLayer, <<<<Trigger(1, 63)>>, Outlines>>, NoMore),
    Layered(VectorsLayer, << <<1, 1, Segment(2), << <<3, 4>> >>>>, <<2, 0, <<>>, <<>>>> >>, More),
    Layered(PrmLayer, Road(2), More), Layered(PrmLayer, Road(3), NoMore),
    Layered(KPathLayer, <<>>, More) }

MCReplacements ==
  { <<>>,
    <<Layered(RegionsLayer, <<<<Trigger(3, 0)>>, <<Segment(4)>>>>, NoMore)>>,
    <<Layered(5, <<1>>, NoMore), Layered(5, <<1, 2>>, NoMore)>> }

MCDefaults == (2 :> <<>>) @@ (5 :> <<9, 9, 9, 9>>) @@ (13 :> <<1, 0, 9, 0>>)

-----------------------------------------------------------------------------
MCInit ==
  /\ focus \in {"format", "edits", "records"}
  /\ focus = "format" \/ (focus # "format" /\ pending = FoldLeft(AddLayer, <<>>, ABuild))
  /\ \/ focus = "edits"
     \/ focus # "edits" /\ board = [map |-> "plain", regions |-> <<>>, links |-> <<>>, exporting |-> FALSE]
  /\ Init /\ EditsInit /\ RecordsInit

(* What a reader says of an image rests on the patches that led to it and   *)
(* on nothing that is written after it, and a reader is in no writer's way: *)
(* it is enough to read the last image, at the end, with no patch unused.   *)
ReadLast ==
  /\ reader # NoReader => UNCHANGED patches
  /\ reader' # NoReader => reader'.image = Len(images) /\ Cardinality(patches) < Len(images)

(* An image goes bad while it is the last one; every image once was.        *)
LastGoesBad == \A i \in 1..Len(images) - 1 : images'[i] = images[i]

MCNext ==
  /\ \/ focus = "format" /\ Next /\ ReadLast /\ LastGoesBad /\ UNCHANGED <<editVars, recordVars>>
     \/ focus = "edits" /\ EditsNext /\ UNCHANGED <<vars, recordVars>>
     \/ focus = "records" /\ RecordsNext /\ (writeCount = WriteLimit => patch' = {})
        /\ UNCHANGED <<vars, editVars>>
  /\ UNCHANGED focus

MCSpec == MCInit /\ [][MCNext]_<<focus, vars, editVars, recordVars>>
============================================================================
