------------------------------- MODULE RunPages -------------------------------
(***************************************************************************)
(* The result pages of the web client: the page cache of the simulation    *)
(* store (src/web/src/stores/simulations.ts) and the panels of a run that  *)
(* walk it (SensorPanel.vue, AuditPanel.vue, TrajectoryPanel.vue).         *)
(*                                                                         *)
(* A panel, when it is mounted, selects its run, awaits the run's state    *)
(* and summary, walks the timeline page by page and keeps what the cache   *)
(* holds at the end.  At every await the user may leave for another run,   *)
(* or for another panel of the same one; the load of the panel that is     *)
(* gone runs on.  A walk of a sensor channel is the same over a cache of   *)
(* its own; the socket that TrajectoryPanel tries first is SampleSocket.   *)
(* A finished run's samples never change, so the moment a request is       *)
(* answered is the moment its answer arrives.                              *)
(***************************************************************************)
EXTENDS Naturals, FiniteSets, FiniteSetsExt, Functions

CONSTANTS RunId,        \* runs that have finished
          Length,     \* run -> samples of its timeline
          PageSize,   \* PAGE_SIZE, 1000 in the code
          Load,       \* bound: panels opened, each with its load()
          MaxJumps,   \* bound: runs selected under a panel that stays
          NoRun

ASSUME PagesAssumption ==
  /\ IsFiniteSet(RunId) /\ RunId # {} /\ IsFiniteSet(Load) /\ Load # {} /\ "-" \notin Load
  /\ PageSize \in Nat \ {0}
  /\ Length \in [RunId -> Nat]
  /\ NoRun \notin RunId /\ MaxJumps \in Nat

VARIABLES currentId,    \* the selected run
          truthPages,   \* page -> the run whose samples are cached under it
          truthTotal,   \* samples the service reported, 0 before it did
          resultStatus, \* the store's
          panel,        \* the panel on the page: [load, shown], what it shows
          load,         \* load() -> how far it is
          jumps,        \* runs selected under a panel so far
          moved         \* history: one was under the panel on the page

pagesVars == <<currentId, truthPages, truthTotal, resultStatus, panel, load, jumps, moved>>

cache == <<truthPages, truthTotal>>

(* A walk stops at its first short page, so the loads between them cache   *)
(* at most one past the longest timeline each.                             *)
Longest == Max({Length[r] : r \in RunId})
Page == 0..(Longest \div PageSize + Cardinality(Load) - 1)
NoEnd == (Max(Page) + 1) * PageSize     \* Number.MAX_SAFE_INTEGER in the code
NoPages == [p \in Page |-> NoRun]

PagesTypeOK ==
  /\ currentId \in RunId \cup {NoRun}
  /\ truthPages \in [Page -> RunId \cup {NoRun}]
  /\ truthTotal \in {0} \cup Range(Length)
  /\ resultStatus \in {"idle", "loading", "ready", "failed"}
  /\ panel \in [load : Load \cup {"-"}, shown : [Page -> RunId \cup {NoRun}]]
  /\ load \in [Load -> [step : {"-", "opening", "walking", "done", "failed"},
                        id : RunId \cup {NoRun}, page : Nat, end : Nat]]
  /\ jumps \in 0..MaxJumps
  /\ moved \in BOOLEAN

PagesInit ==
  /\ currentId = NoRun
  /\ truthPages = NoPages
  /\ truthTotal = 0
  /\ resultStatus = "idle"
  /\ panel = [load |-> "-", shown |-> NoPages]
  /\ load = [l \in Load |-> [step |-> "-", id |-> NoRun, page |-> 0, end |-> 0]]
  /\ jumps = 0
  /\ moved = FALSE

-----------------------------------------------------------------------------
(* select and clearPages. *)

Bug_ClearPages ==
  /\ truthPages' = NoPages
  /\ resultStatus' = "idle"
  /\ UNCHANGED truthTotal

ClearPages ==
  /\ truthPages' = NoPages
  /\ resultStatus' = "idle"
  /\ truthTotal' = 0

Select(r) ==
  /\ IF currentId = r THEN UNCHANGED <<cache, resultStatus>> ELSE ClearPages
  /\ currentId' = r

(* A panel is mounted for r, in the place of the one that was there.  The  *)
(* view and the panel both select the run.                                 *)
Mount(l, r) ==
  /\ load[l].step = "-"
  /\ Select(r)
  /\ panel' = [load |-> l, shown |-> NoPages]
  /\ load' = [load EXCEPT ![l].step = "opening"]
  /\ moved' = FALSE
  /\ UNCHANGED jumps

(* A jump in the browser's history goes from run to run: the view selects  *)
(* the other one, and the panel is the same and does not load again.       *)
Jump(r) ==
  /\ currentId \notin {r, NoRun}
  /\ jumps < MaxJumps
  /\ jumps' = jumps + 1
  /\ Select(r)
  /\ moved' = TRUE
  /\ UNCHANGED <<panel, load>>

-----------------------------------------------------------------------------
(* loadWindow: pages one after another, without those that are cached.     *)

(* truth.value = the samples cached; a panel that is gone shows nothing.   *)
Keep(l, how, pages) ==
  /\ load' = [load EXCEPT ![l].step = how]
  /\ panel' = IF panel.load = l THEN [panel EXCEPT !.shown = pages] ELSE panel

Missing(pages, from, end) ==
  {p \in Page : from <= p /\ p * PageSize < end /\ pages[p] = NoRun}

(* The walk of l for `id` goes on at the first page that is missing, or    *)
(* ends for want of one.                                                   *)
WalkOn(l, id, from, end, pages) ==
  LET missing == Missing(pages, from, end) IN
  IF missing = {}
  THEN resultStatus' = "ready" /\ Keep(l, "done", pages)
  ELSE /\ resultStatus' = "loading"
       /\ load' = [load EXCEPT ![l].step = "walking", ![l].id = id,
                               ![l].page = Min(missing), ![l].end = end]
       /\ UNCHANGED panel

(* loadAllTruth, when the state and the summary have come or failed.  The  *)
(* run it walks is the one selected now, with the bound known now.         *)
Begin(l) ==
  /\ load[l].step = "opening"
  /\ WalkOn(l, currentId, 0,
            IF truthTotal = 0 THEN NoEnd ELSE truthTotal, truthPages)
  /\ UNCHANGED <<currentId, cache, jumps, moved>>

StillSelected(id) == currentId = id

(* The service answers with the samples it has from there, perhaps none.   *)
(* An answer for a run that is not selected any more ends the walk.        *)
PageAnswered(l) ==
  LET w == load[l]
      pages == [truthPages EXCEPT ![w.page] = w.id]
  IN  /\ w.step = "walking"
      /\ IF ~StillSelected(w.id)
         THEN Keep(l, "done", truthPages) /\ UNCHANGED <<cache, resultStatus>>
         ELSE /\ truthPages' = pages
              /\ truthTotal' = Length[w.id]
              /\ IF Length[w.id] < (w.page + 1) * PageSize
                 THEN resultStatus' = "ready" /\ Keep(l, "done", pages)
                 ELSE WalkOn(l, w.id, w.page + 1, w.end, pages)
      /\ UNCHANGED <<currentId, jumps, moved>>

(* A failure is recorded whatever is selected, and what is cached is kept. *)
PageFails(l) ==
  /\ load[l].step = "walking"
  /\ resultStatus' = "failed"
  /\ Keep(l, "failed", truthPages)
  /\ UNCHANGED <<currentId, cache, jumps, moved>>

PagesNext ==
  \/ \E l \in Load : \/ \E r \in RunId : Mount(l, r)
                     \/ Begin(l) \/ PageAnswered(l) \/ PageFails(l)
  \/ \E r \in RunId : Jump(r)

PagesSpec == PagesInit /\ [][PagesNext]_pagesVars

(* Every request of a load is answered, or fails.                          *)
PagesFairness == WF_pagesVars(\E l \in Load : Begin(l) \/ PageAnswered(l))

-----------------------------------------------------------------------------
(* Properties. *)

(* What the cache holds of r, and all there is of it.                      *)
Samples(pages, r) == {p \in Page : pages[p] = r /\ p * PageSize < Length[r]}
Whole(r) == {p \in Page : p * PageSize < Length[r]}

(* A panel that has loaded shows its run's whole timeline and nothing of   *)
(* another's, whatever was opened before, loads that run on and selections *)
(* that came back included.                                                *)
PanelEndsWhole ==
  panel.load # "-" /\ ~moved /\ load[panel.load].step = "done"
    => /\ Samples(panel.shown, currentId) = Whole(currentId)
       /\ Range(panel.shown) \subseteq {currentId, NoRun}

(* Every load of a panel has ended.                                        *)
PagesAtRest == \A l \in Load : load[l].step \in {"-", "done", "failed"}

(* Not true: the panel shows the selected run.  A jump leaves the samples  *)
(* of the other run, or, to and fro within a walk, the end of the timeline *)
(* without its beginning.                                                  *)
PanelFollowsSelection ==
  panel.load # "-" /\ load[panel.load].step = "done"
    => Samples(panel.shown, currentId) = Whole(currentId)

(* Not true: a failure of the walk on the page is in the store's status    *)
(* when the walk has ended.  The status is shared: the walk of a panel     *)
(* that is gone says "ready" after it.                                     *)
FailureIsReported ==
  panel.load # "-" /\ load[panel.load].step = "failed" => resultStatus = "failed"
=============================================================================
