---------------------------- MODULE PlanWorkspace ----------------------------
(***************************************************************************)
(* The planning half of the run workspace (src/web/src/stores/workspace.ts *)
(* with the buttons of PlanPanel.vue and the pointer of RunView.vue): a    *)
(* draft that is edited while answers about it are in flight, two timers,  *)
(* and a generation number that tells a late answer from a current one.    *)
(*                                                                         *)
(* A draft is a route and a smoothing setting.  A route is one of Route,   *)
(* "incomplete" (the form has an issue) or "nomap" (no map resolves).  The *)
(* planning requests go through the task tray; here a request is in flight *)
(* until its answer comes, in any order, well or as a failure (TaskTray    *)
(* shows that one of the two comes).  The verdicts on the route's points   *)
(* are those on the one point in which routes differ.                      *)
(***************************************************************************)
EXTENDS Naturals, Sequences, SequencesExt

CONSTANTS Route,        \* complete routes on a map that resolves
          Smooth,       \* smoothing settings
          MaxPresses,   \* bound: plans asked for
          MaxEdits,     \* bound: changes of the draft
          MaxPending    \* bound: requests in flight

Forms == {"incomplete", "nomap"}       \* drafts that name no route
None == "none"                        \* the empty key of a page without a plan

ASSUME PlanAssumption ==
  /\ None \notin Route /\ Forms \cap Route = {}
  /\ {MaxPresses, MaxEdits, MaxPending} \subseteq Nat

VARIABLES draft,          \* [route, smooth]
          planGeneration, \* number of plan requests and cancellations so far
          busy,           \* plan.busy
          preview,        \* plan.preview: what is drawn
          plannedKey,     \* the route the answer on screen was computed for
          profiledKey,    \* the route and setting of the profile on screen
          checkTimer,     \* the point check is waiting to be asked for
          profileTimer,   \* the profile is waiting to be asked for
          dragging,       \* a handle is being dragged
          verdict,        \* pointChecks: the route whose point was judged
          inFlight,       \* requests in flight, oldest first
          edits,          \* changes of the draft so far
          withdrawn       \* history: generations that were cancelled

planVars == <<draft, planGeneration, busy, preview, plannedKey, profiledKey, checkTimer,
              profileTimer, dragging, verdict, inFlight, edits, withdrawn>>

screen == <<busy, preview, plannedKey, profiledKey>>

Drafts == [route : Route \cup Forms, smooth : Smooth]

(* geometryKey and profileKey: everything the route depends on, and        *)
(* everything its smoothed path depends on.                                *)
geometryKey == draft.route
profileKey == <<draft.route, draft.smooth>>

(* What is drawn: the legs of a route, the smoothed path once a profile    *)
(* came, and for the history the generations both were asked for in.       *)
NoPath == <<None, 0>>
NoPreview == [legs |-> None, legsOf |-> 0, path |-> NoPath, pathOf |-> 0]
Preview == [legs : Route, legsOf : Nat, path : (Route \X Smooth) \cup {NoPath}, pathOf : Nat]

Requests ==
  [kind : {"preview", "profile"}, gen : Nat \ {0}, of : Route, smooth : Smooth]
    \cup [kind : {"check", "point"}, gen : Nat, of : Route]

PlanTypeOK ==
  /\ draft \in Drafts
  /\ planGeneration \in Nat
  /\ {busy, checkTimer, profileTimer, dragging} \subseteq BOOLEAN
  /\ preview \in Preview \cup {NoPreview}
  /\ plannedKey \in Route \cup {None}
  /\ profiledKey \in (Route \X Smooth) \cup {NoPath}
  /\ verdict \in Route \cup {None}
  /\ inFlight \in Seq(Requests)
  /\ edits \in 0..MaxEdits
  /\ withdrawn \subseteq Nat

PlanInit ==
  /\ draft \in [route : {"incomplete"}, smooth : Smooth]
  /\ planGeneration = 0
  /\ busy = FALSE
  /\ preview = NoPreview
  /\ plannedKey = None
  /\ profiledKey = NoPath
  /\ checkTimer = FALSE
  /\ profileTimer = FALSE
  /\ dragging = FALSE
  /\ verdict = None
  /\ inFlight = <<>>
  /\ edits = 0
  /\ withdrawn = {}

-----------------------------------------------------------------------------
(* The draft.  Every way to change it is a patch followed by scheduleCheck, *)
(* which also withdraws a profile that has not been asked for yet.          *)

scheduleCheck ==
  /\ checkTimer' = TRUE
  /\ profileTimer' = FALSE

SetDraft(d) ==
  /\ ~dragging
  /\ d # draft
  /\ edits < MaxEdits
  /\ edits' = edits + 1
  /\ draft' = d
  /\ scheduleCheck
  /\ UNCHANGED <<screen, planGeneration, dragging, verdict, inFlight, withdrawn>>

(* The library changes under a draft that names no map of its own: the     *)
(* route resolves differently, and nothing is scheduled.                   *)
LibraryChanges(d) ==
  /\ d.smooth = draft.smooth
  /\ d.route # draft.route
  /\ "incomplete" \notin {d.route, draft.route}
  /\ edits < MaxEdits
  /\ edits' = edits + 1
  /\ draft' = d
  /\ UNCHANGED <<screen, planGeneration, checkTimer, profileTimer, dragging, verdict,
                 inFlight, withdrawn>>

Grab ==
  /\ ~dragging
  /\ draft.route \in Route
  /\ dragging' = TRUE
  /\ UNCHANGED <<draft, screen, planGeneration, checkTimer, profileTimer, verdict, inFlight,
                 edits, withdrawn>>

(* A dragged point is patched and, now and then, checked on its own.       *)
Drag(r) ==
  /\ dragging
  /\ r # draft.route
  /\ edits < MaxEdits
  /\ edits' = edits + 1
  /\ draft' = [draft EXCEPT !.route = r]
  /\ scheduleCheck
  /\ \/ UNCHANGED inFlight
     \/ /\ Len(inFlight) < MaxPending
        /\ inFlight' = Append(inFlight, [kind |-> "point", gen |-> planGeneration, of |-> r])
  /\ UNCHANGED <<screen, planGeneration, dragging, verdict, withdrawn>>

Release ==
  /\ dragging
  /\ dragging' = FALSE
  /\ scheduleCheck
  /\ UNCHANGED <<draft, screen, planGeneration, verdict, inFlight, edits, withdrawn>>

(* The check timer runs out: checkRoutePoints, unless a drag is going on.  *)
CheckFires ==
  /\ checkTimer
  /\ checkTimer' = FALSE
  /\ IF dragging
     THEN UNCHANGED <<verdict, inFlight>>
     ELSE IF draft.route \notin Route
     THEN verdict' = None /\ UNCHANGED inFlight
     ELSE /\ Len(inFlight) < MaxPending
          /\ inFlight' = Append(inFlight, [kind |-> "check", gen |-> planGeneration,
                                         of |-> draft.route])
          /\ UNCHANGED verdict
  /\ UNCHANGED <<draft, screen, planGeneration, profileTimer, dragging, edits, withdrawn>>

-----------------------------------------------------------------------------
(* The plan button.  It is offered while nothing is being planned and the   *)
(* form has no issue; the branch of planNow for a form with an issue is not *)
(* reached from it.                                                         *)

Shown == geometryKey = plannedKey /\ preview # NoPreview

(* No map resolves: the answer on screen goes.  The generation stays, so   *)
(* what is still in flight will be taken for current.                      *)
PressWithoutMap ==
  /\ ~busy
  /\ draft.route = "nomap"
  /\ preview' = NoPreview
  /\ plannedKey' = None
  /\ profiledKey' = NoPath
  /\ UNCHANGED <<draft, planGeneration, busy, checkTimer, profileTimer, dragging, verdict,
                 inFlight, edits, withdrawn>>

PressAgain ==
  /\ ~busy
  /\ draft.route \in Route
  /\ Shown
  /\ ~profileTimer
  /\ profileTimer' = TRUE
  /\ UNCHANGED <<draft, screen, planGeneration, checkTimer, dragging, verdict, inFlight,
                 edits, withdrawn>>

PressPlan ==
  /\ ~busy
  /\ draft.route \in Route
  /\ ~Shown
  /\ planGeneration < MaxPresses
  /\ Len(inFlight) < MaxPending
  /\ planGeneration' = planGeneration + 1
  /\ busy' = TRUE
  /\ inFlight' = Append(inFlight, [kind |-> "preview", gen |-> planGeneration + 1,
                                 of |-> draft.route, smooth |-> draft.smooth])
  /\ UNCHANGED <<draft, preview, plannedKey, profiledKey, checkTimer, profileTimer,
                 dragging, verdict, edits, withdrawn>>

Bug_Supersede == planGeneration' = planGeneration

Supersede == planGeneration' = planGeneration + 1

(* cancelPlan: the button that replaces the plan button while it is busy.  *)
CancelPlan ==
  /\ busy
  /\ checkTimer' = FALSE
  /\ profileTimer' = FALSE
  /\ Supersede
  /\ busy' = FALSE
  /\ withdrawn' = withdrawn \cup {planGeneration}
  /\ UNCHANGED <<draft, preview, plannedKey, profiledKey, dragging, verdict, inFlight, edits>>

(* reset: the same and an empty draft.  The verdicts stay.                 *)
Reset ==
  /\ preview # NoPreview \/ busy
  /\ ~dragging
  /\ edits < MaxEdits
  /\ edits' = edits + 1
  /\ draft' = [draft EXCEPT !.route = "incomplete"]
  /\ checkTimer' = FALSE
  /\ profileTimer' = FALSE
  /\ Supersede
  /\ busy' = FALSE
  /\ preview' = NoPreview
  /\ plannedKey' = None
  /\ profiledKey' = NoPath
  /\ withdrawn' = withdrawn \cup {planGeneration}
  /\ UNCHANGED <<dragging, verdict, inFlight>>

(* The profile timer runs out: loadProfile for the draft as it is now.     *)
ProfileFires ==
  /\ profileTimer
  /\ profileTimer' = FALSE
  /\ IF profileKey = profiledKey \/ preview = NoPreview \/ draft.route \notin Route
     THEN UNCHANGED inFlight
     ELSE /\ Len(inFlight) < MaxPending
          /\ inFlight' = Append(inFlight, [kind |-> "profile", gen |-> planGeneration,
                                         of |-> draft.route, smooth |-> draft.smooth])
  /\ UNCHANGED <<draft, screen, planGeneration, checkTimer, dragging, verdict, edits,
                 withdrawn>>

-----------------------------------------------------------------------------
(* Answers. *)

Current(q) == q.gen = planGeneration

Bug_ShowPreview(q) ==
  /\ plannedKey' = IF draft.route \in Route THEN draft.route ELSE None
  /\ busy' = FALSE
  /\ preview' = [legs |-> q.of, legsOf |-> q.gen, path |-> NoPath, pathOf |-> 0]
  /\ profileTimer' = TRUE
  /\ UNCHANGED <<profiledKey, verdict>>

ShowPreview(q) ==
  /\ plannedKey' = q.of
  /\ busy' = FALSE
  /\ preview' = [legs |-> q.of, legsOf |-> q.gen, path |-> NoPath, pathOf |-> 0]
  /\ profileTimer' = TRUE
  /\ UNCHANGED <<profiledKey, verdict>>

(* The profile is merged into the preview that is there.  If none is, the  *)
(* plan it came with is drawn whole.                                       *)
ShowProfile(q) ==
  /\ profiledKey' = <<q.of, q.smooth>>
  /\ preview' = IF preview = NoPreview
                THEN [legs |-> q.of, legsOf |-> q.gen, path |-> <<q.of, q.smooth>>,
                      pathOf |-> q.gen]
                ELSE [preview EXCEPT !.path = <<q.of, q.smooth>>, !.pathOf = q.gen]
  /\ UNCHANGED <<busy, plannedKey, profileTimer, verdict>>

ShowVerdict(q) ==
  /\ verdict' = q.of
  /\ UNCHANGED <<screen, profileTimer>>

Ignored == UNCHANGED <<screen, profileTimer, verdict>>

ShowFailure == preview' = NoPreview /\ busy' = FALSE

PlanFailed(q) ==
  /\ ShowFailure
  /\ plannedKey' = None
  /\ profiledKey' = NoPath
  /\ UNCHANGED <<profileTimer, verdict>>

Answered(q) ==
  CASE q.kind = "preview" /\ Current(q) -> ShowPreview(q)
    [] q.kind = "profile" /\ Current(q) -> ShowProfile(q)
    [] q.kind = "check" /\ Current(q)   -> ShowVerdict(q)
    [] q.kind = "point"                 -> ShowVerdict(q)
    [] OTHER                            -> Ignored

(* A check that fails forgets the verdicts, of whatever generation it is.  *)
Failed(q) ==
  CASE q.kind = "preview" /\ Current(q) -> PlanFailed(q)
    [] q.kind = "check" -> verdict' = None /\ UNCHANGED <<screen, profileTimer>>
    [] OTHER            -> Ignored

Answer(i) ==
  /\ i \in DOMAIN inFlight
  /\ Answered(inFlight[i]) \/ Failed(inFlight[i])
  /\ inFlight' = RemoveAt(inFlight, i)
  /\ UNCHANGED <<draft, planGeneration, checkTimer, dragging, edits, withdrawn>>

PlanNext ==
  \/ \E d \in Drafts : SetDraft(d) \/ LibraryChanges(d)
  \/ Grab
  \/ \E r \in Route : Drag(r)
  \/ Release
  \/ CheckFires
  \/ PressWithoutMap
  \/ PressAgain
  \/ PressPlan
  \/ CancelPlan
  \/ Reset
  \/ ProfileFires
  \/ \E i \in 1..MaxPending : Answer(i)

PlanSpec == PlanInit /\ [][PlanNext]_planVars

(* Timers run out and requests are answered, one way or the other.         *)
PlanFairness ==
  /\ WF_planVars(CheckFires)
  /\ WF_planVars(ProfileFires)
  /\ WF_planVars(Answer(1))

-----------------------------------------------------------------------------
(* Properties. *)

(* The shortcut of planNow ("the shape is on screen already") tells the    *)
(* truth: while plannedKey names a route, the legs drawn are those of that *)
(* route, whatever was pressed, cancelled, reset or answered late.         *)
KeptPlanIsOnScreen ==
  plannedKey # None => preview # NoPreview /\ preview.legs = plannedKey

(* "Bumping the generation makes any answer still in flight a no-op": no   *)
(* step draws legs or a path that were asked for in a generation cancelled *)
(* or reset since.                                                         *)
NothingWithdrawnIsShown ==
  [][preview' # NoPreview =>
       /\ preview'.legsOf # preview.legsOf => preview'.legsOf \notin withdrawn
       /\ preview'.path # preview.path => preview'.pathOf \notin withdrawn]_planVars

(* The plan button is there, and not the one that cancels.                 *)
PlanAtRest == ~busy

(* Not true: the path drawn belongs to the route drawn.  loadProfile asks  *)
(* for the draft as it is when the timer runs out, and the draft may have  *)
(* been edited while the legs were being planned.                          *)
PathFitsTheLegs ==
  preview # NoPreview /\ preview.path # NoPath => preview.path[1] = preview.legs

(* Not true: "the smoothed path and its speed limits follow".  A new plan  *)
(* leaves profiledKey as it was; going back to the route it names, before  *)
(* another profile was drawn, loads none.                                  *)
ProfileFollows ==
  (~busy /\ ~profileTimer /\ inFlight = <<>> /\ preview # NoPreview /\ profileKey = profiledKey)
    => preview.path # NoPath

(* Not true: "or '' while it carries none" of profiledKey's own comment.   *)
ProfiledKeyIsHonest ==
  profiledKey # NoPath => preview # NoPreview /\ preview.path = profiledKey

(* Not true: once everything is quiet, the verdict is on the point as it   *)
(* is.  Edits do not bump the generation, so an older check may answer     *)
(* last; a plan that was pressed meanwhile drops the newer one.            *)
VerdictIsOnThePoint ==
  (~checkTimer /\ ~dragging /\ inFlight = <<>> /\ draft.route \in Route)
    => verdict \in {None, draft.route}
=============================================================================
