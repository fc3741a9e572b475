---------------------------- MODULE WebClientProofs ----------------------------
(***************************************************************************)
(* What the stores and panels of the web client promise, for any routes,   *)
(* tickets, timelines, populations and fetches.  Each has an inductive     *)
(* invariant of its own; they share no state.                              *)
(***************************************************************************)
EXTENDS PlanWorkspace, TaskTray, RunPages, BatchSweep, SampleSocket,
        SequenceTheorems, FiniteSetTheorems, WellFoundedInduction, TLAPS

-----------------------------------------------------------------------------
(* Planning (PlanWorkspace).                                                *)

(* A generation that was cancelled or reset is not the current one again,   *)
(* and generation 0, in which nothing is planned, never is.                 *)
WithdrawnIsPast == \A g \in withdrawn : 0 < g /\ g < planGeneration

PlannedIsCounted == busy \/ preview # NoPreview => planGeneration > 0

PlanInv ==
  /\ PlanTypeOK /\ KeptPlanIsOnScreen /\ WithdrawnIsPast
  /\ PlannedIsCounted

(* A sequence without its entry k.                                          *)
LEMMA RemovedAt ==
  ASSUME NEW S, NEW s \in Seq(S), NEW k \in 1..Len(s)
  PROVE  /\ RemoveAt(s, k) \in Seq(S) /\ Len(RemoveAt(s, k)) = Len(s) - 1
         /\ \A i \in 1..Len(s) - 1 : RemoveAt(s, k)[i] = IF i < k THEN s[i] ELSE s[i + 1]
<1> DEFINE front == SubSeq(s, 1, k - 1)
           back == SubSeq(s, k + 1, Len(s))
<1>1. k \in Nat /\ Len(s) \in Nat /\ \A j \in 1..Len(s) : s[j] \in S
  OBVIOUS
<1>2. front \in Seq(S) /\ Len(front) = k - 1 /\ \A i \in 1..k - 1 : front[i] = s[i]
  <2>1. 1 \in Int /\ k - 1 \in Int /\ \A j \in 1..k - 1 : s[j] \in S
    BY <1>1
  <2>2. /\ front \in Seq(S) /\ Len(front) = IF 1 <= k - 1 THEN k - 1 - 1 + 1 ELSE 0
        /\ \A i \in 1..k - 1 - 1 + 1 : front[i] = s[1 + i - 1]
    BY <2>1, SubSeqProperties
  <2> HIDE DEF front
  <2>3. k - 1 - 1 + 1 = k - 1 /\ \A i \in 1..k - 1 : 1 + i - 1 = i
    BY <1>1
  <2>4. Len(front) = k - 1
    BY <1>1, <2>2
  <2> QED
    BY <2>2, <2>3, <2>4
<1>3. /\ back \in Seq(S) /\ Len(back) = Len(s) - k
      /\ \A i \in 1..Len(s) - k : back[i] = s[k + i]
  <2>1. k + 1 \in Int /\ Len(s) \in Int /\ \A j \in k + 1..Len(s) : s[j] \in S
    BY <1>1
  <2>2. /\ back \in Seq(S)
        /\ Len(back) = IF k + 1 <= Len(s) THEN Len(s) - (k + 1) + 1 ELSE 0
        /\ \A i \in 1..Len(s) - (k + 1) + 1 : back[i] = s[k + 1 + i - 1]
    BY <2>1, SubSeqProperties
  <2> HIDE DEF back
  <2>3. Len(s) - (k + 1) + 1 = Len(s) - k /\ \A i \in 1..Len(s) - k : k + 1 + i - 1 = k + i
    BY <1>1
  <2>4. Len(back) = Len(s) - k
    BY <1>1, <2>2
  <2> QED
    BY <2>2, <2>3, <2>4
<1>4. RemoveAt(s, k) = front \o back
  BY DEF RemoveAt
<1> HIDE DEF front, back
<1> DEFINE r == RemoveAt(s, k)
<1>5. /\ r \in Seq(S) /\ Len(r) = Len(s) - 1
      /\ \A i \in 1..Len(s) - 1 : r[i] = IF i <= k - 1 THEN front[i] ELSE back[i - (k - 1)]
  <2>1. Len(front) + Len(back) = Len(s) - 1
    BY <1>1, <1>2, <1>3
  <2> DEFINE both == front \o back
  <2>2. /\ both \in Seq(S) /\ Len(both) = Len(front) + Len(back)
        /\ \A i \in 1..Len(front) + Len(back) :
             both[i] = IF i <= Len(front) THEN front[i] ELSE back[i - Len(front)]
    BY <1>2, <1>3, ConcatProperties
  <2>3. r = both
    BY <1>4
  <2> HIDE DEF r, both
  <2> QED
    BY <1>2, <2>1, <2>2, <2>3
<1> HIDE DEF r
<1>6. ASSUME NEW i \in 1..Len(s) - 1 PROVE r[i] = IF i < k THEN s[i] ELSE s[i + 1]
  <2>1. CASE i < k
    BY <1>1, <1>2, <1>5, <2>1
  <2>2. CASE ~(i < k)
    <3>1. i - (k - 1) \in 1..Len(s) - k /\ k + (i - (k - 1)) = i + 1
      BY <1>1, <2>2
    <3> QED
      BY <1>1, <1>3, <1>5, <2>2, <3>1
  <2> QED
    BY <2>1, <2>2
<1> QED
  BY <1>5, <1>6 DEF r

(* A request that is sent joins those in flight.                            *)
LEMMA SentTyped ==
  ASSUME PlanTypeOK, NEW q \in Requests
  PROVE  Append(inFlight, q) \in Seq(Requests)
BY AppendProperties DEF PlanTypeOK

(* Nothing is drawn for a key that is empty.                                *)
LEMMA DrawnIsSomething ==
  ASSUME NEW p, p \in Preview
  PROVE  p # NoPreview
<1>1. p.legs \in Route
  BY DEF Preview
<1> QED
  BY <1>1, PlanAssumption DEF NoPreview

(* A page that was opened has planned nothing.                              *)
LEMMA PlanInitHolds == PlanInit => PlanInv
<1> SUFFICES ASSUME PlanInit PROVE PlanInv
  OBVIOUS
<1>1. draft \in Drafts /\ 0 \in 0..MaxEdits /\ <<>> \in Seq(Requests)
  BY PlanAssumption DEF PlanInit, Drafts, Forms
<1> QED
  BY <1>1 DEF PlanInit, PlanInv, PlanTypeOK, KeptPlanIsOnScreen, WithdrawnIsPast, PlannedIsCounted

(* Edits of the draft leave the plan on the screen alone.                   *)
LEMMA DraftSteps ==
  ASSUME PlanInv,
         \/ \E d \in Drafts : SetDraft(d) \/ LibraryChanges(d)
         \/ Grab \/ \E r \in Route : Drag(r)
         \/ Release \/ CheckFires
  PROVE  PlanInv'
<1>1. CASE \E d \in Drafts : SetDraft(d) \/ LibraryChanges(d)
  <2>1. PICK d \in Drafts : SetDraft(d) \/ LibraryChanges(d)
    BY <1>1
  <2>2. edits' \in 0..MaxEdits
    BY <2>1, PlanAssumption DEF SetDraft, LibraryChanges, PlanInv, PlanTypeOK
  <2>3. /\ draft' \in Drafts /\ {checkTimer', profileTimer'} \subseteq BOOLEAN
        /\ UNCHANGED <<screen, planGeneration, dragging, verdict, inFlight, withdrawn>>
    BY <2>1 DEF SetDraft, LibraryChanges, scheduleCheck, PlanInv, PlanTypeOK
  <2> QED
    BY <2>2, <2>3 DEF PlanInv, PlanTypeOK, KeptPlanIsOnScreen, WithdrawnIsPast, PlannedIsCounted, screen
<1>2. CASE Grab
  BY <1>2 DEF Grab, PlanInv, PlanTypeOK, KeptPlanIsOnScreen, WithdrawnIsPast, PlannedIsCounted, screen
<1>3. CASE \E r \in Route : Drag(r)
  <2>1. PICK r \in Route : Drag(r)
    BY <1>3
  <2>2. inFlight' \in Seq(Requests)
    <3> DEFINE q == [kind |-> "point", gen |-> planGeneration, of |-> r]
    <3>1. q \in Requests
      BY DEF PlanInv, PlanTypeOK, Requests
    <3>2. inFlight' = inFlight \/ inFlight' = Append(inFlight, q)
      BY <2>1 DEF Drag
    <3> HIDE DEF q
    <3> QED
      BY <3>1, <3>2, SentTyped DEF PlanInv, PlanTypeOK
  <2>3. draft' \in Drafts
    BY <2>1 DEF Drag, PlanInv, PlanTypeOK, Drafts
  <2>4. edits' \in 0..MaxEdits
    BY <2>1, PlanAssumption DEF Drag, PlanInv, PlanTypeOK
  <2> QED
    BY <2>1, <2>2, <2>3, <2>4 DEF Drag, PlanInv, PlanTypeOK, KeptPlanIsOnScreen, WithdrawnIsPast, PlannedIsCounted,
       screen, scheduleCheck
<1>4. CASE Release
  BY <1>4 DEF Release, PlanInv, PlanTypeOK, KeptPlanIsOnScreen, WithdrawnIsPast, PlannedIsCounted, screen,
     scheduleCheck
<1>5. CASE CheckFires
  <2>1. inFlight' \in Seq(Requests)
    <3> DEFINE q == [kind |-> "check", gen |-> planGeneration, of |-> draft.route]
    <3>1. draft.route \in Route => q \in Requests
      BY DEF PlanInv, PlanTypeOK, Requests
    <3>2. inFlight' = inFlight \/ (draft.route \in Route /\ inFlight' = Append(inFlight, q))
      BY <1>5 DEF CheckFires
    <3> HIDE DEF q
    <3> QED
      BY <3>1, <3>2, SentTyped DEF PlanInv, PlanTypeOK
  <2>2. verdict' \in Route \cup {None}
    BY <1>5 DEF CheckFires, PlanInv, PlanTypeOK
  <2> QED
    BY <1>5, <2>1, <2>2 DEF CheckFires, PlanInv, PlanTypeOK, KeptPlanIsOnScreen, WithdrawnIsPast, PlannedIsCounted,
       screen
<1> QED
  BY <1>1, <1>2, <1>3, <1>4, <1>5

(* Withdrawing a generation leaves it behind.                               *)
LEMMA WithdrawingIsPast ==
  ASSUME PlanInv, planGeneration > 0, planGeneration' = planGeneration + 1,
         withdrawn' = withdrawn \cup {planGeneration}
  PROVE  planGeneration' \in Nat \ {0} /\ withdrawn' \subseteq Nat /\ WithdrawnIsPast'
<1>1. /\ planGeneration \in Nat /\ withdrawn \subseteq Nat
      /\ \A g \in withdrawn : 0 < g /\ g < planGeneration
  BY DEF PlanInv, PlanTypeOK, WithdrawnIsPast
<1>2. \A g \in withdrawn' : g \in Nat /\ 0 < g /\ g < planGeneration + 1
  BY <1>1
<1> QED
  BY <1>1, <1>2 DEF WithdrawnIsPast

(* Presses, cancellations and timers keep the generations in order.         *)
LEMMA ButtonSteps ==
  ASSUME PlanInv,
         PressWithoutMap \/ PressAgain \/ PressPlan \/ CancelPlan \/ Reset \/ ProfileFires
  PROVE  PlanInv'
<1>1. CASE PressWithoutMap
  BY <1>1, PlanAssumption DEF PressWithoutMap, PlanInv, PlanTypeOK, KeptPlanIsOnScreen,
     WithdrawnIsPast, PlannedIsCounted
<1>2. CASE PressAgain
  BY <1>2 DEF PressAgain, PlanInv, PlanTypeOK, KeptPlanIsOnScreen, WithdrawnIsPast, PlannedIsCounted, screen
<1>3. CASE PressPlan
  <2> DEFINE q == [kind |-> "preview", gen |-> planGeneration + 1, of |-> draft.route,
                   smooth |-> draft.smooth]
  <2>1. q \in Requests
    BY <1>3 DEF PressPlan, PlanInv, PlanTypeOK, Requests, Drafts
  <2>2. inFlight' = Append(inFlight, q)
    BY <1>3 DEF PressPlan
  <2> HIDE DEF q
  <2>3. inFlight' \in Seq(Requests)
    BY <2>1, <2>2, SentTyped DEF PlanInv
  <2> QED
    BY <1>3, <2>3 DEF PressPlan, PlanInv, PlanTypeOK, KeptPlanIsOnScreen, WithdrawnIsPast, PlannedIsCounted
<1>4. CASE CancelPlan
  <2>1. /\ planGeneration' = planGeneration + 1 /\ withdrawn' = withdrawn \cup {planGeneration}
        /\ planGeneration > 0
    BY <1>4 DEF CancelPlan, Supersede, PlanInv, PlannedIsCounted
  <2>2. planGeneration' \in Nat \ {0} /\ withdrawn' \subseteq Nat /\ WithdrawnIsPast'
    BY <2>1, WithdrawingIsPast
  <2>3. /\ {busy', checkTimer', profileTimer'} \subseteq BOOLEAN
        /\ UNCHANGED <<draft, preview, plannedKey, profiledKey, dragging, verdict, inFlight, edits>>
    BY <1>4 DEF CancelPlan
  <2>4. PlanTypeOK'
    BY <2>2, <2>3 DEF PlanInv, PlanTypeOK
  <2>5. PlannedIsCounted'
    BY <2>2 DEF PlannedIsCounted
  <2> QED
    BY <2>2, <2>3, <2>4, <2>5 DEF PlanInv, KeptPlanIsOnScreen
<1>5. CASE Reset
  <2>1. draft' \in Drafts
    BY <1>5 DEF Reset, PlanInv, PlanTypeOK, Drafts, Forms
  <2>2. edits' \in 0..MaxEdits
    BY <1>5, PlanAssumption DEF Reset, PlanInv, PlanTypeOK
  <2>3. /\ planGeneration' = planGeneration + 1 /\ withdrawn' = withdrawn \cup {planGeneration}
        /\ planGeneration > 0
    BY <1>5 DEF Reset, Supersede, PlanInv, PlannedIsCounted
  <2> QED
    BY <1>5, <2>1, <2>2, <2>3, WithdrawingIsPast
    DEF Reset, PlanInv, PlanTypeOK, KeptPlanIsOnScreen, PlannedIsCounted
<1>6. CASE ProfileFires
  <2> DEFINE q == [kind |-> "profile", gen |-> planGeneration, of |-> draft.route,
                   smooth |-> draft.smooth]
  <2>1. draft.route \in Route /\ preview # NoPreview => q \in Requests
    BY DEF PlanInv, PlanTypeOK, Requests, Drafts, PlannedIsCounted
  <2>2. \/ inFlight' = inFlight
        \/ draft.route \in Route /\ preview # NoPreview /\ inFlight' = Append(inFlight, q)
    BY <1>6 DEF ProfileFires
  <2> HIDE DEF q
  <2>3. inFlight' \in Seq(Requests)
    BY <2>1, <2>2, SentTyped DEF PlanInv, PlanTypeOK
  <2> QED
    BY <1>6, <2>3 DEF ProfileFires, PlanInv, PlanTypeOK, KeptPlanIsOnScreen, WithdrawnIsPast, PlannedIsCounted,
       screen
<1> QED
  BY <1>1, <1>2, <1>3, <1>4, <1>5, <1>6

(* What an answer draws is of the current generation.                       *)
Drawn ==
  /\ preview' \in Preview \cup {NoPreview} /\ KeptPlanIsOnScreen'
  /\ plannedKey' \in Route \cup {None}
  /\ profiledKey' \in (Route \X Smooth) \cup {NoPath}
  /\ verdict' \in Route \cup {None} /\ {busy', profileTimer'} \subseteq BOOLEAN
  /\ busy' \/ preview' # NoPreview => planGeneration > 0
  /\ preview' # NoPreview =>
       /\ preview'.legsOf # preview.legsOf => preview'.legsOf = planGeneration
       /\ preview'.path # preview.path => preview'.pathOf \in {0, planGeneration}

(* An answer draws its own route, and only if its generation is current.    *)
LEMMA AnswersDraw ==
  ASSUME PlanInv, NEW i, Answer(i)
  PROVE  Drawn
<1> DEFINE q == inFlight[i]
<1>1. q \in Requests
  BY DEF Answer, PlanInv, PlanTypeOK
<1>2. /\ q.of \in Route /\ q.gen \in Nat
      /\ q.kind \in {"preview", "profile"} => q.smooth \in Smooth /\ q.gen > 0
  BY <1>1 DEF Requests
<1>3. Answered(q) \/ Failed(q)
  BY DEF Answer
<1>0. /\ preview \in Preview \cup {NoPreview} /\ KeptPlanIsOnScreen
      /\ plannedKey \in Route \cup {None}
      /\ profiledKey \in (Route \X Smooth) \cup {NoPath}
      /\ verdict \in Route \cup {None} /\ {busy, profileTimer} \subseteq BOOLEAN
      /\ busy \/ preview # NoPreview => planGeneration > 0
  BY DEF PlanInv, PlanTypeOK, PlannedIsCounted
<1> HIDE DEF q
<1>4. CASE q.kind = "preview" /\ Current(q) /\ ShowPreview(q)
  <2> DEFINE p == [legs |-> q.of, legsOf |-> q.gen, path |-> NoPath, pathOf |-> 0]
  <2>1. /\ preview' = p /\ plannedKey' = q.of /\ busy' = FALSE /\ profileTimer' = TRUE
        /\ UNCHANGED <<profiledKey, verdict>>
    BY <1>4 DEF ShowPreview
  <2>2. p \in Preview
    BY <1>2 DEF Preview
  <2>3. p.legs = q.of /\ p.legsOf = planGeneration /\ p.pathOf = 0
    BY <1>4 DEF Current
  <2> HIDE DEF p
  <2>4. p # NoPreview
    BY <2>2, DrawnIsSomething
  <2>5. planGeneration > 0
    BY <1>2, <1>4 DEF Current
  <2> QED
    BY <1>0, <1>2, <2>1, <2>2, <2>3, <2>4, <2>5 DEF Drawn, KeptPlanIsOnScreen
<1>5. CASE q.kind = "profile" /\ Current(q) /\ ShowProfile(q)
  <2> DEFINE path == <<q.of, q.smooth>>
             p == IF preview = NoPreview
                  THEN [legs |-> q.of, legsOf |-> q.gen, path |-> path, pathOf |-> q.gen]
                  ELSE [preview EXCEPT !.path = path, !.pathOf = q.gen]
  <2>1. /\ preview' = p /\ profiledKey' = path
        /\ UNCHANGED <<busy, plannedKey, profileTimer, verdict>>
    BY <1>5 DEF ShowProfile
  <2>2. path \in Route \X Smooth
    BY <1>2, <1>5
  <2>3. q.gen = planGeneration /\ planGeneration > 0
    BY <1>2, <1>5 DEF Current
  <2> HIDE DEF path
  <2>4. CASE preview = NoPreview
    <3>1. p = [legs |-> q.of, legsOf |-> q.gen, path |-> path, pathOf |-> q.gen]
      BY <2>4
    <3>2. p \in Preview /\ p.legsOf = planGeneration /\ p.pathOf = planGeneration
      BY <1>2, <2>2, <2>3, <3>1 DEF Preview
    <3> HIDE DEF p
    <3>3. p # NoPreview /\ plannedKey = None
      BY <1>0, <2>4, <3>2, DrawnIsSomething DEF KeptPlanIsOnScreen
    <3> QED
      BY <1>0, <2>1, <2>2, <2>3, <3>2, <3>3 DEF Drawn, KeptPlanIsOnScreen
  <2>5. CASE preview # NoPreview
    <3>1. p = [preview EXCEPT !.path = path, !.pathOf = q.gen] /\ preview \in Preview
      BY <1>0, <2>5
    <3>2. /\ p \in Preview /\ p.legs = preview.legs /\ p.legsOf = preview.legsOf
          /\ p.pathOf = planGeneration
      BY <1>2, <2>2, <2>3, <3>1 DEF Preview
    <3> HIDE DEF p
    <3>3. p # NoPreview
      BY <3>2, DrawnIsSomething
    <3> QED
      BY <1>0, <2>1, <2>2, <2>3, <2>5, <3>2, <3>3 DEF Drawn, KeptPlanIsOnScreen
  <2> QED
    BY <2>4, <2>5
<1>6. CASE ShowVerdict(q) \/ Ignored \/ (verdict' = None /\ UNCHANGED <<screen, profileTimer>>)
  BY <1>0, <1>2, <1>6 DEF Drawn, ShowVerdict, Ignored, screen, KeptPlanIsOnScreen
<1>7. CASE PlanFailed(q)
  BY <1>0, <1>7 DEF Drawn, PlanFailed, ShowFailure, KeptPlanIsOnScreen
<1> QED
  BY <1>3, <1>4, <1>5, <1>6, <1>7 DEF Answered, Failed

(* An answer, whichever of those in flight it is.                           *)
LEMMA AnswerStep ==
  ASSUME PlanInv, NEW i, Answer(i)
  PROVE  PlanInv'
<1>1. Drawn
  BY AnswersDraw
<1>2. /\ i \in 1..Len(inFlight) /\ inFlight' = RemoveAt(inFlight, i)
      /\ UNCHANGED <<draft, planGeneration, checkTimer, dragging, edits, withdrawn>>
  BY DEF Answer, PlanInv, PlanTypeOK
<1>3. inFlight' \in Seq(Requests)
  BY <1>2, RemovedAt DEF PlanInv, PlanTypeOK
<1> QED
  BY <1>1, <1>2, <1>3 DEF Drawn, PlanInv, PlanTypeOK, WithdrawnIsPast, PlannedIsCounted

(* Every step of the planning page keeps the invariant.                     *)
LEMMA PlanStep == PlanInv /\ [PlanNext]_planVars => PlanInv'
<1> SUFFICES ASSUME PlanInv, [PlanNext]_planVars PROVE PlanInv'
  OBVIOUS
<1>1. CASE UNCHANGED planVars
  BY <1>1 DEF planVars, PlanInv, PlanTypeOK, KeptPlanIsOnScreen, WithdrawnIsPast, PlannedIsCounted
<1>2. CASE \E i \in 1..MaxPending : Answer(i)
  BY <1>2, AnswerStep
<1> QED
  BY <1>1, <1>2, DraftSteps, ButtonSteps DEF PlanNext

(* The page keeps its types, the answer it claims to show is the one that   *)
(* is drawn, and what was withdrawn is of the past.                         *)
THEOREM PlanIsSound == PlanSpec => []PlanInv
BY PlanInitHolds, PlanStep, PTL DEF PlanSpec

(* planNow's shortcut shows the route it says, however edits, cancellations *)
(* and late answers fall.                                                   *)
THEOREM KeptPlanIsDrawn == PlanSpec => []KeptPlanIsOnScreen
<1>1. PlanInv => KeptPlanIsOnScreen
  BY DEF PlanInv
<1> QED
  BY <1>1, PlanIsSound, PTL

(* No step draws what was asked for in a generation that was cancelled or   *)
(* reset.                                                                   *)
THEOREM WithdrawnStaysAway == PlanSpec => NothingWithdrawnIsShown
<1> DEFINE Shows ==
      preview' # NoPreview =>
        /\ preview'.legsOf # preview.legsOf => preview'.legsOf \notin withdrawn
        /\ preview'.path # preview.path => preview'.pathOf \notin withdrawn
<1>1. ASSUME PlanInv, [PlanNext]_planVars PROVE [Shows]_planVars
  <2>1. CASE UNCHANGED planVars
    BY <2>1
  <2>2. CASE \E i \in 1..MaxPending : Answer(i)
    <3>1. Drawn
      BY <1>1, <2>2, AnswersDraw
    <3>2. 0 \notin withdrawn /\ planGeneration \notin withdrawn
      BY <1>1 DEF PlanInv, PlanTypeOK, WithdrawnIsPast
    <3> QED
      BY <3>1, <3>2 DEF Drawn
  <2>3. CASE PressWithoutMap \/ Reset
    BY <2>3 DEF PressWithoutMap, Reset
  <2>4. CASE \/ \E d \in Drafts : SetDraft(d) \/ LibraryChanges(d)
             \/ Grab \/ \E r \in Route : Drag(r)
             \/ Release \/ CheckFires \/ PressAgain \/ PressPlan \/ CancelPlan \/ ProfileFires
    BY <2>4 DEF SetDraft, LibraryChanges, Grab, Drag, Release, CheckFires, PressAgain, PressPlan,
                CancelPlan, ProfileFires, screen
  <2> QED
    BY <1>1, <2>1, <2>2, <2>3, <2>4 DEF PlanNext
<1> QED
  BY <1>1, PlanIsSound, PTL DEF PlanSpec, NothingWithdrawnIsShown

-----------------------------------------------------------------------------
(* Result pages (RunPages).                                                 *)

(* Only pages of the selected run are cached, with the length of that run.  *)
CacheIsOfSelected ==
  /\ \A p \in Page : truthPages[p] \in {currentId, NoRun}
  /\ truthTotal # 0 => currentId \in RunId /\ truthTotal = Length[currentId]

(* A walk goes over pages of one run, up to its end if that is known.       *)
WalksAreOfARun ==
  \A l \in Load :
    /\ load[l].step # "-" => currentId \in RunId
    /\ load[l].step = "walking" =>
         /\ load[l].id \in RunId /\ load[l].page \in Page
         /\ load[l].end \in {NoEnd, Length[load[l].id]}

(* The walk of the panel on the page has left no page out.                  *)
PanelIsFollowed ==
  panel.load # "-" =>
    /\ panel.load \in Load /\ load[panel.load].step # "-"
    /\ ~moved /\ load[panel.load].step = "walking" =>
         /\ load[panel.load].id = currentId
         /\ \A p \in Page : p < load[panel.load].page /\ p * PageSize < load[panel.load].end
                            => truthPages[p] # NoRun

PagesInv ==
  /\ PagesTypeOK /\ CacheIsOfSelected /\ WalksAreOfARun /\ PanelIsFollowed /\ PanelEndsWhole

(* A set of numbers has a least one, and what holds of 0 and of n + 1       *)
(* whenever it holds of n holds of all of them.                             *)
LEMMA LeastNatural ==
  ASSUME NEW T \in SUBSET Nat, T # {}
  PROVE  \E n \in T : \A m \in T : n <= m
<1> DEFINE R == OpToRel(<, Nat)
<1>1. IsWellFoundedOn(R, Nat)
  BY NatLessThanWellFounded
<1>2. \A i, j \in Nat : i < j => <<i, j>> \in R
  BY DEF OpToRel
<1> HIDE DEF R
<1>3. PICK n \in T : \A m \in T : ~(<<m, n>> \in R)
  BY <1>1, WFMin
<1>4. n \in Nat /\ \A m \in T : m \in Nat
  OBVIOUS
<1>5. ASSUME NEW m \in T PROVE n <= m
  <2>1. ~(m < n)
    BY <1>2, <1>3, <1>4
  <2> QED
    BY <2>1, <1>4
<1> QED
  BY <1>5

(* Induction, over a set instead of a predicate.                            *)
LEMMA InductionOnNat ==
  ASSUME NEW S, 0 \in S, \A n \in Nat : n \in S => n + 1 \in S
  PROVE  Nat \subseteq S
<1> DEFINE T == Nat \ S
<1>1. SUFFICES ASSUME T # {} PROVE FALSE
  OBVIOUS
<1>2. PICK n \in T : \A m \in T : n <= m
  BY <1>1, LeastNatural
<1>3. n # 0 /\ n - 1 \in Nat
  OBVIOUS
<1>4. n - 1 \in S
  BY <1>2, <1>3
<1> QED
  BY <1>4, <1>3

(* The Min of the library is the least member.                              *)
LEMMA MinIsLeast ==
  ASSUME NEW T \in SUBSET Nat, T # {}
  PROVE  Min(T) \in T /\ \A m \in T : Min(T) <= m
BY LeastNatural DEF Min

(* A finite set of numbers has a greatest one.                              *)
LEMMA GreatestNatural ==
  ASSUME NEW T \in SUBSET Nat, T # {}, IsFiniteSet(T)
  PROVE  \E n \in T : \A m \in T : n >= m
<1>1. PICK n \in Nat : ExistsBijection(1..n, T)
  BY FS_NatBijection
<1>2. PICK f \in Bijection(1..n, T) : TRUE
  BY <1>1 DEF ExistsBijection
<1>3. f \in [1..n -> T] /\ \A t \in T : \E i \in 1..n : f[i] = t
  BY <1>2 DEF Bijection, Surjection
<1> DEFINE Has == {k \in Nat : 0 < k /\ k <= n => \E i \in 1..k : \A j \in 1..k : f[i] >= f[j]}
<1>4. 0 \in Has
  OBVIOUS
<1>5. ASSUME NEW k \in Nat, k \in Has PROVE k + 1 \in Has
  <2> SUFFICES ASSUME k + 1 <= n PROVE \E i \in 1..k + 1 : \A j \in 1..k + 1 : f[i] >= f[j]
    OBVIOUS
  <2>1. \A j \in 1..k + 1 : f[j] \in Nat /\ (j \in 1..k \/ j = k + 1)
    <3>1. ASSUME NEW j \in 1..k + 1 PROVE j \in 1..n /\ (j \in 1..k \/ j = k + 1)
      OBVIOUS
    <3>2. \A j \in 1..n : f[j] \in T
      BY <1>3
    <3> QED
      BY <3>1, <3>2
  <2>2. CASE k = 0
    <3>1. \A j \in 1..k + 1 : j = 1
      BY <2>2
    <3> QED
      BY <2>1, <2>2, <3>1
  <2>3. CASE k # 0
    <3>1. PICK i \in 1..k : \A j \in 1..k : f[i] >= f[j]
      BY <1>5, <2>3
    <3>2. i \in 1..k + 1 /\ k + 1 \in 1..k + 1
      OBVIOUS
    <3>3. CASE f[i] >= f[k + 1]
      BY <2>1, <3>1, <3>2, <3>3
    <3>4. CASE ~(f[i] >= f[k + 1])
      <4>1. f[k + 1] >= f[i]
        BY <2>1, <3>2, <3>4
      <4>2. ASSUME NEW j \in 1..k + 1 PROVE f[k + 1] >= f[j]
        <5>1. CASE j \in 1..k
          BY <2>1, <3>1, <3>2, <4>1, <5>1
        <5>2. CASE j = k + 1
          BY <2>1, <5>2
        <5> QED
          BY <2>1, <5>1, <5>2
      <4> QED
        BY <3>2, <4>2
    <3> QED
      BY <3>3, <3>4
  <2> QED
    BY <2>2, <2>3
<1>6. n \in Has
  <2> HIDE DEF Has
  <2> QED
    BY <1>4, <1>5, InductionOnNat
<1>7. n # 0
  <2>1. PICK t \in T : TRUE
    OBVIOUS
  <2>2. PICK i \in 1..n : f[i] = t
    BY <1>3
  <2> QED
    BY <2>2
<1>8. PICK i \in 1..n : \A j \in 1..n : f[i] >= f[j]
  BY <1>6, <1>7
<1> QED
  BY <1>3, <1>8

(* Pages are in the order of the samples they start at.                     *)
LEMMA PagesInOrder ==
  ASSUME NEW p \in Nat, NEW q \in Nat
  PROVE  /\ p * PageSize \in Nat
         /\ p <= q => p * PageSize <= q * PageSize
         /\ p < q => p * PageSize < q * PageSize
<1>1. PageSize \in Nat \ {0}
  BY PagesAssumption
<1>2. p * PageSize \in Nat
  BY <1>1
<1>3. p <= q => p * PageSize <= q * PageSize
  <2> SUFFICES ASSUME p <= q PROVE p * PageSize <= q * PageSize
    OBVIOUS
  <2> DEFINE d == q - p
  <2>1. d \in Nat /\ q = p + d
    OBVIOUS
  <2> HIDE DEF d
  <2>2. (p + d) * PageSize = p * PageSize + d * PageSize /\ d * PageSize \in Nat
    BY <1>1, <2>1
  <2> QED
    BY <1>2, <2>1, <2>2
<1>4. p < q => p * PageSize < q * PageSize
  <2> SUFFICES ASSUME p < q PROVE p * PageSize < q * PageSize
    OBVIOUS
  <2> DEFINE d == q - p - 1
  <2>1. d \in Nat /\ q = p + 1 + d
    OBVIOUS
  <2> HIDE DEF d
  <2>2. /\ (p + 1 + d) * PageSize = p * PageSize + PageSize + d * PageSize
        /\ d * PageSize \in Nat
    BY <1>1, <2>1
  <2> QED
    BY <1>1, <1>2, <2>1, <2>2
<1> QED
  BY <1>2, <1>3, <1>4

(* Pages are numbered from 0, and NoEnd is past all of them.                *)
LEMMA PagesAreNumbered ==
  /\ Page \subseteq Nat /\ 0 \in Page
  /\ \A p \in Page, q \in Nat : q <= p => q \in Page
  /\ NoEnd \in Nat /\ \A p \in Page : p * PageSize < NoEnd
<1> DEFINE L == {Length[r] : r \in RunId}
           K == Longest \div PageSize + Cardinality(Load) - 1
<1>1. Longest \in Nat
  <2>1. L \in SUBSET Nat /\ L # {}
    BY PagesAssumption
  <2>2. IsFiniteSet(L)
    <3>1. Length \in [RunId -> L] /\ \A m \in L : \E r \in RunId : Length[r] = m
      BY PagesAssumption
    <3>2. Length \in Surjection(RunId, L)
      BY <3>1 DEF Surjection
    <3> QED
      BY <3>2, PagesAssumption, FS_Surjection
  <2>3. \E n \in L : \A m \in L : n >= m
    BY <2>1, <2>2, GreatestNatural
  <2>4. Max(L) \in L
    BY <2>3 DEF Max
  <2> QED
    BY <2>1, <2>4 DEF Longest
<1>2. Longest \div PageSize \in Nat
  BY <1>1, PagesAssumption
<1>3. Cardinality(Load) \in Nat \ {0}
  BY PagesAssumption, FS_CardinalityType, FS_EmptySet
<1>4. K \in Nat
  BY <1>2, <1>3
<1>5. Page = 0..K
  BY DEF Page
<1> HIDE DEF K
<1>6. Max(Page) = K
  <2>1. K \in Page /\ \A p \in Page : K >= p /\ p \in Nat
    BY <1>4, <1>5
  <2>2. Max(Page) \in Page /\ \A p \in Page : Max(Page) >= p
    BY <2>1 DEF Max
  <2> QED
    <3>1. K \in Nat /\ Max(Page) \in Nat /\ K >= Max(Page) /\ Max(Page) >= K
      BY <1>4, <2>1, <2>2
    <3> QED
      BY <3>1
<1>7. K + 1 \in Nat /\ \A p \in Page : p \in Nat /\ p < K + 1
  BY <1>4, <1>5
<1>8. NoEnd = (K + 1) * PageSize
  BY <1>6 DEF NoEnd
<1> QED
  BY <1>4, <1>5, <1>7, <1>8, PagesInOrder

(* How far a load is.                                                       *)
LoadStates == [step : {"-", "opening", "walking", "done", "failed"},
               id : RunId \cup {NoRun}, page : Nat, end : Nat]

(* A page without a panel shows and caches nothing.                         *)
LEMMA PagesInitHolds == PagesInit => PagesInv
<1> SUFFICES ASSUME PagesInit PROVE PagesInv
  OBVIOUS
<1>1. NoPages \in [Page -> RunId \cup {NoRun}] /\ \A p \in Page : NoPages[p] = NoRun
  BY DEF NoPages
<1>2. jumps \in 0..MaxJumps
  BY PagesAssumption DEF PagesInit
<1>3. load \in [Load -> LoadStates] /\ \A l \in Load : load[l].step = "-"
  BY DEF PagesInit, LoadStates
<1>4. PagesTypeOK
  BY <1>1, <1>2, <1>3 DEF PagesInit, PagesTypeOK, LoadStates
<1>5. CacheIsOfSelected /\ WalksAreOfARun /\ PanelIsFollowed /\ PanelEndsWhole
  BY <1>1, <1>3 DEF PagesInit, CacheIsOfSelected, WalksAreOfARun, PanelIsFollowed, PanelEndsWhole
<1> QED
  BY <1>4, <1>5 DEF PagesInv

(* A selection empties the cache unless the run was selected.               *)
LEMMA SelectClears ==
  ASSUME PagesInv, NEW r \in RunId, Select(r)
  PROVE  /\ currentId' = r /\ CacheIsOfSelected'
         /\ truthPages' \in [Page -> RunId \cup {NoRun}]
         /\ truthTotal' \in {0} \cup Range(Length)
         /\ resultStatus' \in {"idle", "loading", "ready", "failed"}
<1>1. CASE currentId = r
  BY <1>1 DEF Select, cache, PagesInv, PagesTypeOK, CacheIsOfSelected
<1>2. CASE currentId # r
  BY <1>2 DEF Select, ClearPages, NoPages, CacheIsOfSelected
<1> QED
  BY <1>1, <1>2

(* A panel that is opened, or left on the page by a jump, has walked        *)
(* nothing.                                                                 *)
LEMMA OpeningSteps ==
  ASSUME PagesInv, NEW r \in RunId, Jump(r) \/ \E l \in Load : Mount(l, r)
  PROVE  PagesInv'
<1>1. CASE Jump(r)
  <2>1. Select(r) /\ moved' = TRUE /\ panel' = panel /\ load' = load /\ jumps' \in 0..MaxJumps
    BY <1>1, PagesAssumption DEF Jump, PagesInv, PagesTypeOK
  <2>2. PagesTypeOK' /\ CacheIsOfSelected'
    BY <2>1, SelectClears DEF PagesInv, PagesTypeOK
  <2>3. WalksAreOfARun'
    BY <2>1, SelectClears DEF PagesInv, WalksAreOfARun
  <2>4. PanelIsFollowed' /\ PanelEndsWhole'
    BY <2>1 DEF PagesInv, PanelIsFollowed, PanelEndsWhole
  <2> QED
    BY <2>2, <2>3, <2>4 DEF PagesInv
<1>2. ASSUME NEW l \in Load, Mount(l, r) PROVE PagesInv'
  <2>1. /\ Select(r) /\ moved' = FALSE /\ panel' = [load |-> l, shown |-> NoPages]
        /\ load' = [load EXCEPT ![l].step = "opening"] /\ jumps' = jumps
    BY <1>2 DEF Mount
  <2>2. NoPages \in [Page -> RunId \cup {NoRun}]
    BY DEF NoPages
  <2>3. load \in [Load -> LoadStates]
    BY DEF PagesInv, PagesTypeOK, LoadStates
  <2>4. /\ load' \in [Load -> LoadStates] /\ load'[l].step = "opening"
        /\ \A k \in Load : k # l => load'[k] = load[k]
    BY <2>1, <2>3 DEF LoadStates
  <2>5. panel' \in [load : Load \cup {"-"}, shown : [Page -> RunId \cup {NoRun}]] /\ panel'.load = l
    BY <2>1, <2>2
  <2>6. PagesTypeOK' /\ CacheIsOfSelected'
    BY <2>1, <2>4, <2>5, SelectClears DEF PagesInv, PagesTypeOK, LoadStates
  <2>7. WalksAreOfARun'
    <3> SUFFICES ASSUME NEW k \in Load
                 PROVE  /\ load'[k].step # "-" => currentId' \in RunId
                        /\ load'[k].step = "walking" =>
                             /\ load'[k].id \in RunId /\ load'[k].page \in Page
                             /\ load'[k].end \in {NoEnd, Length[load'[k].id]}
      BY DEF WalksAreOfARun, NoEnd, Page
    <3> QED
      BY <2>1, <2>4, SelectClears DEF PagesInv, WalksAreOfARun
  <2>8. PanelIsFollowed' /\ PanelEndsWhole'
    BY <2>4, <2>5 DEF PanelIsFollowed, PanelEndsWhole
  <2> QED
    BY <2>6, <2>7, <2>8 DEF PagesInv
<1> QED
  BY <1>1, <1>2

(* What a step of a load may do with the cache: it keeps what is there, and *)
(* caches the selected run's.                                               *)
CacheGrows ==
  /\ truthPages' \in [Page -> RunId \cup {NoRun}] /\ truthTotal' \in {0} \cup Range(Length)
  /\ resultStatus' \in {"idle", "loading", "ready", "failed"}
  /\ CacheIsOfSelected' /\ UNCHANGED <<currentId, jumps, moved>>
  /\ \A p \in Page : truthPages[p] # NoRun => truthPages'[p] # NoRun

(* A load may end with all of its run's pages, if its panel is on the page. *)
LEMMA KeepHolds ==
  ASSUME PagesInv, NEW l \in Load, NEW how \in {"done", "failed"}, NEW pages,
         load[l].step # "-", CacheGrows, Keep(l, how, pages),
         pages \in [Page -> RunId \cup {NoRun}], \A p \in Page : pages[p] \in {currentId, NoRun},
         panel.load = l /\ ~moved /\ how = "done" => Samples(pages, currentId) = Whole(currentId)
  PROVE  PagesInv'
<1>1. load \in [Load -> LoadStates] /\ load' = [load EXCEPT ![l].step = how]
  BY DEF PagesInv, PagesTypeOK, LoadStates, Keep
<1>2. /\ load' \in [Load -> LoadStates] /\ load'[l].step = how
      /\ \A k \in Load : k # l => load'[k] = load[k]
  BY <1>1 DEF LoadStates
<1>3. panel' = IF panel.load = l THEN [panel EXCEPT !.shown = pages] ELSE panel
  BY DEF Keep
<1>4. panel \in [load : Load \cup {"-"}, shown : [Page -> RunId \cup {NoRun}]]
  BY DEF PagesInv, PagesTypeOK
<1>5. /\ panel' \in [load : Load \cup {"-"}, shown : [Page -> RunId \cup {NoRun}]]
      /\ panel'.load = panel.load /\ panel'.shown = IF panel.load = l THEN pages ELSE panel.shown
  BY <1>3, <1>4
<1>6. PagesTypeOK' /\ CacheIsOfSelected'
  BY <1>2, <1>5 DEF PagesInv, PagesTypeOK, CacheGrows, LoadStates
<1>7. WalksAreOfARun'
  <2> SUFFICES ASSUME NEW k \in Load
               PROVE  /\ load'[k].step # "-" => currentId' \in RunId
                      /\ load'[k].step = "walking" =>
                           /\ load'[k].id \in RunId /\ load'[k].page \in Page
                           /\ load'[k].end \in {NoEnd, Length[load'[k].id]}
    BY DEF WalksAreOfARun, NoEnd, Page
  <2> QED
    BY <1>2 DEF PagesInv, WalksAreOfARun, CacheGrows
<1>8. PanelIsFollowed'
  <2> SUFFICES ASSUME panel.load # "-"
               PROVE  /\ panel.load \in Load /\ load'[panel.load].step # "-"
                      /\ ~moved /\ load'[panel.load].step = "walking" =>
                           /\ load'[panel.load].id = currentId
                           /\ \A p \in Page : p < load'[panel.load].page
                                                /\ p * PageSize < load'[panel.load].end
                                              => truthPages'[p] # NoRun
    BY <1>5 DEF PanelIsFollowed, CacheGrows, Page
  <2> QED
    BY <1>2 DEF PagesInv, PanelIsFollowed, CacheGrows
<1>9. PanelEndsWhole'
  <2> SUFFICES ASSUME panel.load # "-", ~moved, load'[panel.load].step = "done"
               PROVE  /\ Samples(panel'.shown, currentId) = Whole(currentId)
                      /\ Range(panel'.shown) \subseteq {currentId, NoRun}
    BY <1>5 DEF PanelEndsWhole, CacheGrows, Samples, Whole, Page
  <2>1. CASE panel.load = l
    BY <1>2, <1>5, <2>1 DEF Range
  <2>2. CASE panel.load # l
    BY <1>2, <1>5, <2>2 DEF PagesInv, PanelIsFollowed, PanelEndsWhole
  <2> QED
    BY <2>1, <2>2
<1> QED
  BY <1>6, <1>7, <1>8, <1>9 DEF PagesInv

(* A load goes on at page m, and its panel's has left nothing out before.   *)
LEMMA WalkingHolds ==
  ASSUME PagesInv, NEW l \in Load, NEW m \in Page, NEW end, end \in {NoEnd, Length[currentId]},
         load[l].step # "-", CacheGrows, currentId \in RunId, panel' = panel,
         load' = [load EXCEPT ![l].step = "walking", ![l].id = currentId,
                              ![l].page = m, ![l].end = end],
         panel.load = l /\ ~moved =>
           \A p \in Page : p < m /\ p * PageSize < end => truthPages'[p] # NoRun
  PROVE  PagesInv'
<1>1. load \in [Load -> LoadStates]
  BY DEF PagesInv, PagesTypeOK, LoadStates
<1>2. m \in Nat /\ end \in Nat
  BY PagesAssumption, PagesAreNumbered
<1>3. /\ load' \in [Load -> LoadStates]
      /\ load'[l] = [step |-> "walking", id |-> currentId, page |-> m, end |-> end]
      /\ \A k \in Load : k # l => load'[k] = load[k]
  BY ZenonT(60), <1>1, <1>2 DEF LoadStates
<1>4. PagesTypeOK' /\ CacheIsOfSelected'
  BY <1>3 DEF PagesInv, PagesTypeOK, CacheGrows, LoadStates
<1>5. WalksAreOfARun'
  <2> SUFFICES ASSUME NEW k \in Load
               PROVE  /\ load'[k].step # "-" => currentId' \in RunId
                      /\ load'[k].step = "walking" =>
                           /\ load'[k].id \in RunId /\ load'[k].page \in Page
                           /\ load'[k].end \in {NoEnd, Length[load'[k].id]}
    BY DEF WalksAreOfARun, NoEnd, Page
  <2> QED
    BY <1>3 DEF PagesInv, WalksAreOfARun, CacheGrows
<1>6. PanelIsFollowed'
  <2> SUFFICES ASSUME panel.load # "-"
               PROVE  /\ panel.load \in Load /\ load'[panel.load].step # "-"
                      /\ ~moved /\ load'[panel.load].step = "walking" =>
                           /\ load'[panel.load].id = currentId
                           /\ \A p \in Page : p < load'[panel.load].page
                                                /\ p * PageSize < load'[panel.load].end
                                              => truthPages'[p] # NoRun
    BY DEF PanelIsFollowed, CacheGrows, Page
  <2>1. CASE panel.load = l
    BY <1>3, <2>1
  <2>2. CASE panel.load # l
    BY <1>3, <2>2 DEF PagesInv, PanelIsFollowed, CacheGrows
  <2> QED
    BY <2>1, <2>2
<1>7. PanelEndsWhole'
  <2> SUFFICES ASSUME panel.load # "-", ~moved, load'[panel.load].step = "done"
               PROVE  /\ Samples(panel.shown, currentId) = Whole(currentId)
                      /\ Range(panel.shown) \subseteq {currentId, NoRun}
    BY DEF PanelEndsWhole, CacheGrows, Samples, Whole, Page
  <2> QED
    BY <1>3 DEF PagesInv, PanelIsFollowed, PanelEndsWhole
<1> QED
  BY <1>4, <1>5, <1>6, <1>7 DEF PagesInv

(* A walk that has left nothing out so far goes on, or has all there is.    *)
LEMMA WalkOnHolds ==
  ASSUME PagesInv, NEW l \in Load, NEW from \in Nat, NEW end,
         end \in {NoEnd, Length[currentId]}, currentId \in RunId,
         load[l].step # "-", truthPages' \in [Page -> RunId \cup {NoRun}],
         truthTotal' \in {0} \cup Range(Length), CacheIsOfSelected',
         UNCHANGED <<currentId, jumps, moved>>,
         \A p \in Page : truthPages[p] # NoRun => truthPages'[p] # NoRun,
         WalkOn(l, currentId, from, end, truthPages'),
         panel.load = l /\ ~moved =>
           \A p \in Page : p < from /\ p * PageSize < end => truthPages'[p] # NoRun
  PROVE  PagesInv'
<1> DEFINE missing == Missing(truthPages', from, end)
<1>1. CacheGrows
  BY DEF WalkOn, CacheGrows
<1>2. /\ missing \in SUBSET Nat /\ missing \subseteq Page
      /\ \A p \in Page : from <= p /\ p * PageSize < end /\ truthPages'[p] = NoRun => p \in missing
      /\ \A p \in Page : p \in Nat /\ (p < from \/ from <= p)
  <2>1. \A p \in Page : p \in Nat /\ (p < from \/ from <= p)
    BY PagesAreNumbered
  <2> QED
    BY <2>1 DEF Missing
<1>3. \A p \in Page : truthPages'[p] \in {currentId, NoRun}
  BY <1>1 DEF CacheGrows, CacheIsOfSelected, Page
<1>4. CASE missing = {}
  <2>1. Keep(l, "done", truthPages')
    BY <1>4 DEF WalkOn
  <2>2. ASSUME panel.load = l, ~moved, NEW p \in Page, p * PageSize < Length[currentId]
        PROVE  truthPages'[p] = currentId
    <3>1. p * PageSize < end
      BY <2>2, PagesAreNumbered
    <3> QED
      BY <1>2, <1>3, <1>4, <2>2, <3>1
  <2>3. panel.load = l /\ ~moved => Samples(truthPages', currentId) = Whole(currentId)
    BY <2>2 DEF Samples, Whole
  <2> QED
    BY <1>1, <1>3, <2>1, <2>3, KeepHolds
<1>5. CASE missing # {}
  <2> DEFINE m == Min(missing)
  <2>1. m \in missing /\ \A p \in missing : m <= p
    BY <1>2, <1>5, MinIsLeast
  <2>2. /\ panel' = panel
        /\ load' = [load EXCEPT ![l].step = "walking", ![l].id = currentId,
                                ![l].page = m, ![l].end = end]
    BY <1>5 DEF WalkOn
  <2> HIDE DEF m
  <2>3. m \in Page
    BY <1>2, <2>1
  <2>4. ASSUME panel.load = l, ~moved, NEW p \in Page, p < m, p * PageSize < end
        PROVE  truthPages'[p] # NoRun
    <3>1. p \notin missing
      BY <2>1, <2>3, <2>4, PagesAreNumbered
    <3> QED
      BY <1>2, <2>4, <3>1
  <2> QED
    BY ZenonT(60), <1>1, <2>2, <2>3, <2>4, WalkingHolds
<1> QED
  BY <1>4, <1>5

(* A walk begins at the first page that the cache does not hold.            *)
LEMMA BeginHolds ==
  ASSUME PagesInv, NEW l \in Load, Begin(l)
  PROVE  PagesInv'
<1> DEFINE end == IF truthTotal = 0 THEN NoEnd ELSE truthTotal
<1>1. /\ load[l].step = "opening" /\ UNCHANGED <<currentId, truthPages, truthTotal, jumps, moved>>
      /\ WalkOn(l, currentId, 0, end, truthPages)
  BY DEF Begin, cache
<1>2. currentId \in RunId /\ end \in {NoEnd, Length[currentId]}
  BY <1>1 DEF PagesInv, WalksAreOfARun, CacheIsOfSelected
<1>3. /\ truthPages' \in [Page -> RunId \cup {NoRun}] /\ truthTotal' \in {0} \cup Range(Length)
      /\ CacheIsOfSelected'
  BY <1>1 DEF PagesInv, PagesTypeOK, CacheIsOfSelected
<1>4. \A p \in Page : ~(p < 0)
  BY PagesAreNumbered
<1> HIDE DEF end
<1> QED
  BY <1>1, <1>2, <1>3, <1>4, WalkOnHolds

(* An answer is cached if its run is still selected; the walk goes on or    *)
(* ends.                                                                    *)
LEMMA AnsweredHolds ==
  ASSUME PagesInv, NEW l \in Load, PageAnswered(l)
  PROVE  PagesInv'
<1> DEFINE w == load[l]
           pages == [truthPages EXCEPT ![w.page] = w.id]
<1>1. /\ w.step = "walking" /\ UNCHANGED <<currentId, jumps, moved>>
      /\ w.id \in RunId /\ w.page \in Page /\ w.end \in {NoEnd, Length[w.id]}
      /\ currentId \in RunId
  BY DEF PageAnswered, PagesInv, WalksAreOfARun
<1>2. truthPages \in [Page -> RunId \cup {NoRun}] /\ \A p \in Page : truthPages[p] \in {currentId, NoRun}
  BY DEF PagesInv, PagesTypeOK, CacheIsOfSelected
<1>3. CASE currentId # w.id
  <2>1. Keep(l, "done", truthPages) /\ UNCHANGED <<truthPages, truthTotal, resultStatus>>
    BY <1>3 DEF PageAnswered, StillSelected, cache
  <2>2. CacheGrows
    BY <1>1, <2>1 DEF PagesInv, PagesTypeOK, CacheIsOfSelected, CacheGrows
  <2>3. panel.load = l => moved
    BY <1>1, <1>3, PagesAssumption DEF PagesInv, PanelIsFollowed
  <2> QED
    BY <1>1, <1>2, <2>1, <2>2, <2>3, KeepHolds
<1>4. CASE currentId = w.id
  <2>1. truthPages' = pages /\ truthTotal' = Length[currentId]
    BY <1>4 DEF PageAnswered, StillSelected
  <2>2. /\ pages \in [Page -> RunId \cup {NoRun}] /\ pages[w.page] = currentId
        /\ \A p \in Page : p # w.page => pages[p] = truthPages[p]
    BY <1>1, <1>2, <1>4
  <2>3. w.page \in Nat /\ w.page + 1 \in Nat /\ w.end \in {NoEnd, Length[currentId]}
    <3>1. w.page \in Nat
      BY <1>1, PagesAreNumbered
    <3> HIDE DEF w
    <3> QED
      BY <1>1, <1>4, <3>1
  <2>4. truthTotal' \in {0} \cup Range(Length)
    BY <1>1, <2>1, PagesAssumption DEF Range
  <2>5. \/ /\ Length[currentId] < (w.page + 1) * PageSize
           /\ resultStatus' = "ready" /\ Keep(l, "done", pages)
        \/ WalkOn(l, currentId, w.page + 1, w.end, pages)
    BY <1>4 DEF PageAnswered, StillSelected
  <2>6. panel.load = l /\ ~moved =>
          \A p \in Page : p < w.page /\ p * PageSize < w.end => truthPages[p] # NoRun
    BY <1>1, PagesAssumption DEF PagesInv, PanelIsFollowed
  <2> HIDE DEF pages
  <2>7. CacheIsOfSelected'
    BY <1>1, <1>2, <2>1, <2>2 DEF CacheIsOfSelected, Page
  <2>8. \A p \in Page : /\ pages[p] \in {currentId, NoRun}
                        /\ truthPages[p] # NoRun => pages[p] # NoRun
    BY <1>1, <1>2, <2>2, PagesAssumption
  <2>9. CacheGrows \/ WalkOn(l, currentId, w.page + 1, w.end, pages)
    BY <1>1, <2>1, <2>2, <2>4, <2>5, <2>7, <2>8 DEF CacheGrows
  <2>10. CASE Length[currentId] < (w.page + 1) * PageSize /\ Keep(l, "done", pages) /\ CacheGrows
    <3>1. ASSUME panel.load = l, ~moved, NEW p \in Page, p * PageSize < Length[currentId]
          PROVE  pages[p] = currentId
      <4>1. p \in Nat /\ ~((w.page + 1) * PageSize <= p * PageSize)
        <5>1. p \in Nat /\ p * PageSize \in Nat /\ (w.page + 1) * PageSize \in Nat
          BY <2>3, <3>1, PagesAreNumbered, PagesInOrder
        <5>2. Length[currentId] \in Nat
          BY <1>1, PagesAssumption
        <5>3. p * PageSize < Length[currentId] /\ Length[currentId] < (w.page + 1) * PageSize
          BY <2>10, <3>1
        <5> HIDE DEF w
        <5> QED
          BY <5>1, <5>2, <5>3
      <4>2. p <= w.page
        BY <2>3, <4>1, PagesInOrder
      <4>3. p * PageSize < w.end
        BY <2>3, <3>1, PagesAreNumbered
      <4>4. CASE p < w.page
        BY <2>2, <2>6, <2>8, <3>1, <4>3, <4>4
      <4> QED
        BY <2>2, <2>3, <4>1, <4>2, <4>4
    <3>2. panel.load = l /\ ~moved => Samples(pages, currentId) = Whole(currentId)
      BY <3>1 DEF Samples, Whole
    <3> QED
      BY <1>1, <2>2, <2>8, <2>10, <3>2, KeepHolds
  <2>11. CASE WalkOn(l, currentId, w.page + 1, w.end, pages)
    <3>1. ASSUME panel.load = l, ~moved, NEW p \in Page, p < w.page + 1, p * PageSize < w.end
          PROVE  pages[p] # NoRun
      <4>1. p < w.page \/ p = w.page
        BY <2>3, <3>1, PagesAreNumbered
      <4> QED
        BY <1>1, <2>2, <2>6, <2>8, <3>1, <4>1, PagesAssumption
    <3> QED
      BY <1>1, <2>1, <2>2, <2>3, <2>4, <2>7, <2>8, <2>11, <3>1, WalkOnHolds
  <2> QED
    BY <2>5, <2>9, <2>10, <2>11, <1>1, <2>1, <2>2, <2>4, <2>7, <2>8 DEF CacheGrows
<1> QED
  BY <1>3, <1>4

(* A failed request ends its walk and leaves the cache alone.               *)
LEMMA FailsHolds ==
  ASSUME PagesInv, NEW l \in Load, PageFails(l)
  PROVE  PagesInv'
<1>1. /\ load[l].step = "walking" /\ Keep(l, "failed", truthPages)
      /\ UNCHANGED <<currentId, truthPages, truthTotal, jumps, moved>> /\ resultStatus' = "failed"
  BY DEF PageFails, cache
<1>2. CacheGrows
  BY <1>1 DEF PagesInv, PagesTypeOK, CacheIsOfSelected, CacheGrows
<1>3. truthPages \in [Page -> RunId \cup {NoRun}] /\ \A p \in Page : truthPages[p] \in {currentId, NoRun}
  BY DEF PagesInv, PagesTypeOK, CacheIsOfSelected
<1> QED
  BY <1>1, <1>2, <1>3, KeepHolds

(* Every step of the result pages keeps the invariant.                      *)
LEMMA PagesStep == PagesInv /\ [PagesNext]_pagesVars => PagesInv'
<1> SUFFICES ASSUME PagesInv, [PagesNext]_pagesVars PROVE PagesInv'
  OBVIOUS
<1>1. CASE UNCHANGED pagesVars
  BY <1>1 DEF pagesVars, PagesInv, PagesTypeOK, CacheIsOfSelected, WalksAreOfARun,
     PanelIsFollowed, PanelEndsWhole
<1>2. CASE PagesNext
  BY <1>2, OpeningSteps, BeginHolds, AnsweredHolds, FailsHolds DEF PagesNext
<1> QED
  BY <1>1, <1>2

(* A panel that has loaded shows its run's whole timeline and nothing of    *)
(* another's, however loads overtake each other and selections come back:   *)
(* loadWindow and select of the simulation store, for any timelines.        *)
THEOREM PanelShowsTheWholeRun == PagesSpec => []PanelEndsWhole
<1>1. PagesInv => PanelEndsWhole
  BY DEF PagesInv
<1> QED
  BY <1>1, PagesInitHolds, PagesStep, PTL DEF PagesSpec

-----------------------------------------------------------------------------
(* The tray (TaskTray).                                                     *)

(* A ticket the service resolves was admitted.                              *)
ServiceTyped ==
  /\ state \in [Ticket -> {"absent"} \cup States]
  /\ listed \subseteq {t \in Ticket : state[t] # "absent"}

Early == {At("-"), At("posting"), At("posted")}

(* An end that is shown or on its way back is the end of the ticket; what   *)
(* is live may be old.                                                      *)
EndsAreTrue ==
  /\ \A t \in Ticket, s \in Ended : call[t] = At(s) => state[t] = s
  /\ \A c \in Click : click[c].step # At("-") => click[c].id \in Ticket
  /\ \A c \in Click, s \in Ended : click[c].step = At(s) => state[click[c].id] = s
  /\ \A i \in DOMAIN entries : entries[i].state \in Ended => state[entries[i].id] = entries[i].state

(* An entry is there only once its ticket has come.                         *)
EntriesAreLater == \A i \in DOMAIN entries : call[entries[i].id] \notin Early

(* A background run is announced when its entry ends, or before the result  *)
(* is fetched.                                                              *)
AnnouncedInTime ==
  /\ \A i \in DOMAIN entries :
       entries[i].state \in {"succeeded", "failed"} /\ ~blocking[entries[i].id]
         => entries[i].id \in announced
  /\ \A t \in Ticket :
       call[t] \in {At("fetching"), At("resolved")} /\ ~blocking[t] /\ Places(t) # {}
         => t \in announced

LatestHasCome == latest # NoTicket => call[latest] \notin Early

(* modalTicket is the last blocking run until that run settles.             *)
ModalIsTheLatestWait ==
  modal = IF latest # NoTicket /\ ~Settled(latest) THEN latest ELSE NoTicket

TrayInv ==
  /\ TrayTypeOK /\ ServiceTyped /\ EndsAreTrue /\ EntriesAreLater /\ AnnouncedInTime
  /\ LatestHasCome /\ ModalIsTheLatestWait

(* What ClearFinished does with an entry.                                   *)
Unfinished(kept, e) == IF e.state \in Ended THEN kept ELSE Append(kept, e)

(* The Max of the library is the greatest member.                           *)
LEMMA MaxOfInterval ==
  ASSUME NEW n \in Nat, NEW T \in SUBSET (1..n + 1), n + 1 \in T
  PROVE  Max(T) = n + 1
<1>1. Max(T) \in T /\ \A k \in T : Max(T) >= k
  <2>1. \A k \in T : n + 1 >= k
    OBVIOUS
  <2> QED
    BY <2>1 DEF Max
<1>2. \A m \in T : m >= n + 1 => m = n + 1
  OBVIOUS
<1> QED
  BY <1>1, <1>2

(* The function the fold over the tray is defined by.                       *)
ClearsTo(f, D, s) ==
  f = [S \in SUBSET D |-> IF S = {} THEN <<>> ELSE Unfinished(f[S \ {Max(S)}], s[Max(S)])]

(* It exists, for a tray of any length.                                     *)
LEMMA ClearingExists ==
  ASSUME NEW s
  PROVE  \A n \in Nat : \E f : ClearsTo(f, 1..n, s)
<1> DEFINE Has == {n \in Nat : \E f : ClearsTo(f, 1..n, s)}
<1>1. 0 \in Has
  <2> DEFINE f == [S \in SUBSET (1..0) |-> <<>>]
  <2>1. \A S \in SUBSET (1..0) : S = {}
    OBVIOUS
  <2>2. ClearsTo(f, 1..0, s)
    BY <2>1 DEF ClearsTo
  <2> QED
    BY <2>2
<1>2. ASSUME NEW n \in Nat, n \in Has PROVE n + 1 \in Has
  <2>1. PICK f : ClearsTo(f, 1..n, s)
    BY <1>2
  <2> DEFINE g == [S \in SUBSET (1..n + 1) |->
                     IF n + 1 \in S THEN Unfinished(f[S \ {n + 1}], s[n + 1]) ELSE f[S]]
  <2>2. ASSUME NEW S \in SUBSET (1..n + 1)
        PROVE  g[S] = IF S = {} THEN <<>> ELSE Unfinished(g[S \ {Max(S)}], s[Max(S)])
    <3>1. CASE n + 1 \in S
      <4>1. Max(S) = n + 1
        BY <3>1, MaxOfInterval
      <4>2. S \ {n + 1} \in SUBSET (1..n + 1) /\ n + 1 \notin S \ {n + 1} /\ S # {}
        BY <3>1
      <4>3. g[S \ {n + 1}] = f[S \ {n + 1}]
        BY <4>2
      <4> HIDE DEF g
      <4>4. g[S] = Unfinished(f[S \ {n + 1}], s[n + 1])
        BY <3>1 DEF g
      <4> QED
        BY <4>1, <4>2, <4>3, <4>4
    <3>2. CASE n + 1 \notin S
      <4>1. S \in SUBSET (1..n)
        BY <3>2
      <4>2. g[S] = f[S]
        BY <3>2
      <4>3. f[S] = IF S = {} THEN <<>> ELSE Unfinished(f[S \ {Max(S)}], s[Max(S)])
        BY <2>1, <4>1 DEF ClearsTo
      <4>4. g[S \ {Max(S)}] = f[S \ {Max(S)}]
        BY <3>2
      <4> HIDE DEF g
      <4> QED
        BY <4>2, <4>3, <4>4
    <3> QED
      BY <3>1, <3>2
  <2>3. ClearsTo(g, 1..n + 1, s)
    <3> DEFINE h == [S \in SUBSET (1..n + 1) |->
                 IF S = {} THEN <<>> ELSE Unfinished(g[S \ {Max(S)}], s[Max(S)])]
    <3>1. \A S \in SUBSET (1..n + 1) : g[S] = h[S]
      BY <2>2
    <3> HIDE DEF h
    <3>2. g = h
      BY <3>1 DEF h
    <3> QED
      BY <3>2 DEF ClearsTo, h
  <2> QED
    BY <2>3
<1> HIDE DEF Has
<1>3. Nat \subseteq Has
  BY <1>1, <1>2, InductionOnNat
<1> QED
  BY <1>3 DEF Has

(* r has some of the first n entries of s.                                  *)
SomeOf(r, s, n, R) ==
  /\ r \in Seq(R) /\ Len(r) <= n
  /\ \A i \in 1..Len(r) : \E j \in 1..n : r[i] = s[j]

(* Clearing leaves some of the entries, and no other.                       *)
LEMMA ClearingKeepsSome ==
  ASSUME NEW R, NEW s \in Seq(R)
  PROVE  SomeOf(FoldLeft(LAMBDA kept, e : IF e.state \in Ended THEN kept ELSE Append(kept, e),
                         <<>>, s), s, Len(s), R)
<1> DEFINE cleared == FoldLeft(LAMBDA kept, e : IF e.state \in Ended THEN kept ELSE Append(kept, e),
                               <<>>, s)
           f == CHOOSE g : ClearsTo(g, 1..Len(s), s)
<1>1. DOMAIN s = 1..Len(s) /\ Len(s) \in Nat
  OBVIOUS
<1>2. cleared = f[1..Len(s)]
  BY <1>1 DEF FoldLeft, MapThenFoldSet, ClearsTo, Unfinished
<1>3. ClearsTo(f, 1..Len(s), s)
  BY <1>1, ClearingExists
<1> HIDE DEF f
<1> DEFINE Has == {n \in Nat : n <= Len(s) => SomeOf(f[1..n], s, n, R)}
<1>4. 0 \in Has
  <2>1. 1..0 = {} /\ f[{}] = <<>>
    BY <1>3 DEF ClearsTo
  <2>2. <<>> \in Seq(R) /\ Len(<<>>) = 0
    OBVIOUS
  <2> QED
    <3>1. \A i \in 1..Len(<<>>) : FALSE
      BY <2>2
    <3>2. SomeOf(<<>>, s, 0, R)
      BY <2>2, <3>1 DEF SomeOf
    <3>3. f[1..0] = <<>>
      BY <2>1
    <3> QED
      BY <3>2, <3>3
<1>5. ASSUME NEW n \in Nat, n \in Has PROVE n + 1 \in Has
  <2> SUFFICES ASSUME n + 1 <= Len(s) PROVE SomeOf(f[1..n + 1], s, n + 1, R)
    OBVIOUS
  <2> DEFINE kept == f[1..n]
  <2>1. SomeOf(kept, s, n, R)
    BY <1>1, <1>5
  <2>2. f[1..n + 1] = Unfinished(kept, s[n + 1])
    <3>1. 1..n + 1 \in SUBSET (1..Len(s)) /\ n + 1 \in 1..n + 1 /\ 1..n + 1 # {}
      <4>1. \A i \in 1..n + 1 : i \in 1..Len(s)
        BY <1>1
      <4>2. n + 1 \in 1..n + 1
        OBVIOUS
      <4> QED
        BY <4>1, <4>2
    <3>2. Max(1..n + 1) = n + 1
      BY <3>1, MaxOfInterval
    <3>3. (1..n + 1) \ {n + 1} = 1..n
      OBVIOUS
    <3> QED
      BY <1>3, <3>1, <3>2, <3>3 DEF ClearsTo
  <2> HIDE DEF kept
  <2>3. s[n + 1] \in R /\ n + 1 \in 1..n + 1 /\ \A j \in 1..n : j \in 1..n + 1
    BY <1>1
  <2>4. CASE f[1..n + 1] = kept
    BY <2>1, <2>3, <2>4 DEF SomeOf
  <2>5. CASE f[1..n + 1] = Append(kept, s[n + 1])
    <3>1. /\ Append(kept, s[n + 1]) \in Seq(R) /\ Len(Append(kept, s[n + 1])) = Len(kept) + 1
          /\ \A i \in 1..Len(kept) : Append(kept, s[n + 1])[i] = kept[i]
          /\ Append(kept, s[n + 1])[Len(kept) + 1] = s[n + 1]
      BY <2>1, <2>3, AppendProperties DEF SomeOf
    <3>2. Len(kept) \in Nat /\ \A i \in 1..Len(kept) + 1 : i \in 1..Len(kept) \/ i = Len(kept) + 1
      BY <2>1 DEF SomeOf
    <3> QED
      BY <2>1, <2>3, <2>5, <3>1, <3>2 DEF SomeOf
  <2> QED
    BY <2>2, <2>4, <2>5 DEF Unfinished
<1> HIDE DEF Has
<1>6. Len(s) \in Has
  BY <1>1, <1>4, <1>5, InductionOnNat
<1>7. SomeOf(f[1..Len(s)], s, Len(s), R)
  BY <1>1, <1>6 DEF Has
<1> HIDE DEF cleared
<1>8. SomeOf(cleared, s, Len(s), R)
  BY <1>2, <1>7
<1> QED
  BY <1>8 DEF cleared

(* An entry of the tray.                                                    *)
Entry == [id : Ticket, state : States]

(* What the tray holds, as a sequence.                                      *)
LEMMA EntriesTyped ==
  ASSUME TrayInv
  PROVE  /\ entries \in Seq(Entry) /\ DOMAIN entries = 1..Len(entries) /\ Len(entries) \in Nat
         /\ \A i \in DOMAIN entries : entries[i] \in Entry
<1>1. entries \in Seq(Entry)
  BY DEF TrayInv, TrayTypeOK, Entry
<1> QED
  BY <1>1

(* Steps of a run() are told apart from what a poll brings.                 *)
LEMMA StepsDiffer ==
  /\ \A x, y : At(x) = At(y) => x = y
  /\ \A s \in States : At(s) \in Told /\ At(s) \notin Early \cup {At("resolved"), At("rejected"),
                                              At("fetching"), At("polling"), At("asking"), At("found")}
  /\ At("resolved") \notin Early /\ At("rejected") \notin Early
  /\ At("fetching") \notin Early /\ At("polling") \notin Early
  /\ Ended \subseteq States /\ Ended = {"succeeded", "failed", "cancelled"}
<1>1. \A x, y : At(x) = At(y) => x = y
  <2>1. \A x : At(x).told = x
    BY DEF At
  <2> QED
    BY <2>1
<1>2. Ended \subseteq States /\ Ended = {"succeeded", "failed", "cancelled"}
  BY DEF Ended, States, Service!Ended
<1>3. \A s \in States : At(s) \in Told
  BY DEF At, Told
<1>4. \A s \in States : s \in {"queued", "running", "succeeded", "failed", "cancelled"}
  BY <1>2 DEF States
<1> HIDE DEF At
<1> QED
  BY <1>1, <1>2, <1>3, <1>4 DEF Early

(* An empty tray has announced nothing.                                     *)
LEMMA TrayInitHolds == TrayInit => TrayInv
<1> SUFFICES ASSUME TrayInit PROVE TrayInv
  OBVIOUS
<1>1. entries = <<>> /\ <<>> \in Seq(Entry) /\ Len(<<>>) = 0 /\ DOMAIN <<>> = {}
  BY DEF TrayInit
<1>2. At("-") \in Steps /\ At("-") \in [told : {"-", "asking", "found", "polling"}]
  BY DEF At, Steps
<1>3. /\ \A t \in Ticket : state[t] = "absent" /\ call[t] = At("-")
      /\ \A c \in Click : click[c].step = At("-")
      /\ state \in [Ticket -> {"absent"} \cup States] /\ listed = {} /\ latest = NoTicket
  BY DEF TrayInit, Service!Init
<1>4. TrayTypeOK
  BY <1>1, <1>2, TrayAssumption DEF TrayInit, TrayTypeOK, Entry
<1>5. ServiceTyped
  BY <1>3 DEF ServiceTyped
<1>6. \A s \in Ended : At(s) # At("-")
  BY StepsDiffer DEF Early
<1>7. EndsAreTrue /\ EntriesAreLater
  BY <1>1, <1>3, <1>6 DEF EndsAreTrue, EntriesAreLater
<1>8. AnnouncedInTime /\ LatestHasCome /\ ModalIsTheLatestWait
  BY <1>1, <1>3, StepsDiffer DEF TrayInit, AnnouncedInTime, LatestHasCome, ModalIsTheLatestWait,
     Early, Settled
<1> QED
  BY <1>4, <1>5, <1>7, <1>8 DEF TrayInv

(* The service moves, and takes no end back.                                *)
ServiceKeepsEnds ==
  /\ ServiceTyped'
  /\ \A t \in Ticket, s \in Ended : state[t] = s => state'[t] = s

(* A step of the service takes no end back.                                 *)
LEMMA ServiceHolds ==
  ASSUME TrayInv, NEW t \in Ticket,
         Service!Submit(t) \/ Work(t) \/ Service!Ask(t) \/ Service!Accept(t)
  PROVE  ServiceKeepsEnds
<1>1. state \in [Ticket -> {"absent"} \cup States] /\ listed \subseteq {u \in Ticket : state[u] # "absent"}
  BY DEF TrayInv, ServiceTyped
<1>2. "absent" \notin Ended /\ "queued" \notin Ended /\ "running" \notin Ended
  BY StepsDiffer
<1>3. CASE Service!Submit(t)
  <2>1. /\ state[t] = "absent" /\ state' = [state EXCEPT ![t] = "queued"]
        /\ \A u \in listed' : u \in listed \/ u = t
    BY <1>3 DEF Service!Submit
  <2> QED
    BY <1>1, <1>2, <2>1 DEF ServiceKeepsEnds, ServiceTyped, States
<1>4. CASE Work(t)
  <2>1. /\ state[t] \in {"queued", "running"} /\ listed' = listed
        /\ \E s \in {"running", "succeeded", "failed", "cancelled"} : state' = [state EXCEPT ![t] = s]
    BY <1>4 DEF Work, Service!Start, Service!Succeed, Service!Fail, Service!Cancel
  <2>2. PICK s \in {"running", "succeeded", "failed", "cancelled"} : state' = [state EXCEPT ![t] = s]
    BY <2>1
  <2>3. s \in States /\ s # "absent"
    BY StepsDiffer DEF States
  <2> QED
    BY <1>1, <1>2, <2>1, <2>2, <2>3 DEF ServiceKeepsEnds, ServiceTyped
<1>5. CASE Service!Ask(t) \/ Service!Accept(t)
  BY <1>1, <1>5 DEF Service!Ask, Service!Accept, ServiceKeepsEnds, ServiceTyped
<1> QED
  BY <1>3, <1>4, <1>5

(* A step of a run() that leaves the tray alone.                            *)
LEMMA CallHolds ==
  ASSUME TrayInv, NEW t \in Ticket, NEW v \in Told \cup Steps,
         call' = [call EXCEPT ![t] = v],
         UNCHANGED <<blocking, entries, logs, click, announced, latest>>,
         ServiceKeepsEnds,
         ~Settled(t), call[t] \notin Early => v \notin Early,
         v \in {At("fetching"), At("resolved")} => call[t] \in {At("fetching"), At("resolved")},
         \A s \in Ended : v = At(s) => state'[t] = s,
         IF v \in {At("resolved"), At("rejected")} THEN ReleaseModal(t) ELSE modal' = modal
  PROVE  TrayInv'
<1>1. /\ call \in [Ticket -> Told \cup Steps] /\ entries \in Seq(Entry)
      /\ \A i \in DOMAIN entries : entries[i].id \in Ticket
  BY EntriesTyped DEF TrayInv, TrayTypeOK, Entry
<1>2. call'[t] = v /\ \A u \in Ticket : u # t => call'[u] = call[u]
  BY <1>1
<1>3. call' \in [Ticket -> Told \cup Steps]
  BY <1>1
<1>4. modal' \in Ticket \cup {NoTicket}
  BY DEF TrayInv, TrayTypeOK, ReleaseModal
<1>5. TrayTypeOK' /\ ServiceTyped'
  BY <1>3, <1>4 DEF TrayInv, TrayTypeOK, ServiceKeepsEnds
<1>6. EndsAreTrue'
  <2>1. \A u \in Ticket, s \in Ended : call'[u] = At(s) => state'[u] = s
    BY <1>2 DEF TrayInv, EndsAreTrue, ServiceKeepsEnds
  <2>2. \A c \in Click, s \in Ended : click[c].step = At(s) => state'[click[c].id] = s
    <3> SUFFICES ASSUME NEW c \in Click, NEW s \in Ended, click[c].step = At(s)
                 PROVE  state'[click[c].id] = s
      OBVIOUS
    <3>1. click[c].id \in Ticket
      BY StepsDiffer DEF TrayInv, EndsAreTrue, Early
    <3> QED
      BY <3>1 DEF TrayInv, EndsAreTrue, ServiceKeepsEnds
  <2>3. \A i \in DOMAIN entries : entries[i].state \in Ended
                                    => state'[entries[i].id] = entries[i].state
    BY <1>1 DEF TrayInv, EndsAreTrue, ServiceKeepsEnds
  <2> QED
    BY <2>1, <2>2, <2>3 DEF TrayInv, EndsAreTrue
<1>7. EntriesAreLater'
  BY <1>1, <1>2 DEF TrayInv, EntriesAreLater, Early
<1>8. AnnouncedInTime'
  BY <1>1, <1>2 DEF TrayInv, AnnouncedInTime, Places
<1>9. latest # NoTicket => latest \in Ticket
  BY DEF TrayInv, TrayTypeOK
<1>10. LatestHasCome'
  BY <1>2, <1>9 DEF TrayInv, LatestHasCome, Early
<1>11. ModalIsTheLatestWait'
  <2>1. \A u \in Ticket : u # t => Settled(u)' = Settled(u)
    BY <1>2 DEF Settled
  <2>2. Settled(t)' <=> v \in {At("resolved"), At("rejected")}
    BY <1>2 DEF Settled
  <2>3. modal = IF latest # NoTicket /\ ~Settled(latest) THEN latest ELSE NoTicket
    BY DEF TrayInv, ModalIsTheLatestWait
  <2>4. t # NoTicket
    BY TrayAssumption
  <2>5. modal' = IF latest # NoTicket /\ ~Settled(latest)' THEN latest ELSE NoTicket
    <3>1. CASE latest = t
      BY <2>2, <2>3, <2>4, <3>1 DEF ReleaseModal
    <3>2. CASE latest # t
      BY <1>9, <2>1, <2>3, <2>4, <3>2 DEF ReleaseModal
    <3> QED
      BY <3>1, <3>2
  <2> QED
    BY <2>5 DEF ModalIsTheLatestWait, Settled
<1> QED
  BY <1>5, <1>6, <1>7, <1>8, <1>10, <1>11 DEF TrayInv

(* Nor does a step of the page.                                             *)
LEMMA ServiceStays ==
  ASSUME TrayInv, UNCHANGED serviceVars
  PROVE  ServiceKeepsEnds
BY DEF TrayInv, ServiceTyped, ServiceKeepsEnds, serviceVars

(* A state that was reported goes into the entry of its ticket.             *)
LEMMA ApplyHolds ==
  ASSUME TrayInv, NEW t \in Ticket, NEW s \in States, NEW finished, Apply(t, s, finished),
         s \in Ended => state[t] = s, UNCHANGED <<state, blocking>>
  PROVE  /\ entries' \in Seq(Entry) /\ Len(entries') = Len(entries)
         /\ DOMAIN entries' = DOMAIN entries
         /\ logs' \subseteq Ticket /\ announced' \subseteq Ticket /\ announced \subseteq announced'
         /\ \A i \in DOMAIN entries : entries'[i].id = entries[i].id
         /\ \A i \in Places(t) : entries'[i].state = s
         /\ \A i \in DOMAIN entries :
              /\ entries'[i].state \in Ended => state[entries'[i].id] = entries'[i].state
              /\ entries'[i].state \in {"succeeded", "failed"} /\ ~blocking[entries'[i].id]
                   => entries'[i].id \in announced'
<1> DEFINE e == [id |-> t, state |-> s]
<1>1. /\ entries' = [i \in DOMAIN entries |-> IF i \in Places(t) THEN e ELSE entries[i]]
      /\ announced' = IF \E i \in Places(t) : Reports(entries[i].state, s) /\ ~blocking[t]
                      THEN announced \cup {t} ELSE announced
      /\ logs' \in {logs, logs \ {t}}
  BY DEF Apply
<1>2. e \in Entry /\ e.id = t /\ e.state = s
  BY DEF Entry
<1> HIDE DEF e
<1>3. /\ entries \in Seq(Entry) /\ \A i \in DOMAIN entries : entries[i] \in Entry
      /\ DOMAIN entries = 1..Len(entries) /\ Len(entries) \in Nat
  BY EntriesTyped
<1>4. entries' \in Seq(Entry) /\ Len(entries') = Len(entries) /\ DOMAIN entries' = DOMAIN entries
  BY <1>1, <1>2, <1>3
<1>5. /\ \A i \in Places(t) : i \in DOMAIN entries /\ entries[i].id = t /\ entries'[i] = e
      /\ \A i \in DOMAIN entries : i \notin Places(t) => entries'[i] = entries[i]
  BY <1>1 DEF Places
<1>6. logs' \subseteq Ticket /\ announced' \subseteq Ticket /\ announced \subseteq announced'
  BY <1>1 DEF TrayInv, TrayTypeOK
<1>7. ASSUME NEW i \in Places(t), s \in {"succeeded", "failed"}, ~blocking[t]
      PROVE  t \in announced'
  <2>1. entries[i].state \in States
    BY <1>3, <1>5 DEF Entry
  <2>2. CASE entries[i].state \in {"queued", "running"}
    BY <1>1, <1>7, <2>2 DEF Reports, Live
  <2>3. CASE entries[i].state \in Ended
    <3>1. state[t] = entries[i].state /\ state[t] = s
      BY <1>5, <1>7, <2>3, StepsDiffer DEF TrayInv, EndsAreTrue
    <3>2. t \in announced
      BY <1>5, <1>7, <3>1 DEF TrayInv, AnnouncedInTime
    <3> QED
      BY <1>6, <3>2
  <2> QED
    BY <2>1, <2>2, <2>3 DEF States
<1>8. \A i \in DOMAIN entries :
        /\ entries'[i].id = entries[i].id
        /\ entries'[i].state \in Ended => state[entries'[i].id] = entries'[i].state
        /\ entries'[i].state \in {"succeeded", "failed"} /\ ~blocking[entries'[i].id]
             => entries'[i].id \in announced'
  <2> SUFFICES ASSUME NEW i \in DOMAIN entries
               PROVE  /\ entries'[i].id = entries[i].id
                      /\ entries'[i].state \in Ended => state[entries'[i].id] = entries'[i].state
                      /\ entries'[i].state \in {"succeeded", "failed"} /\ ~blocking[entries'[i].id]
                           => entries'[i].id \in announced'
    OBVIOUS
  <2>1. CASE i \in Places(t)
    BY <1>2, <1>5, <1>7, <2>1
  <2>2. CASE i \notin Places(t)
    BY <1>5, <1>6, <2>2 DEF TrayInv, EndsAreTrue, AnnouncedInTime
  <2> QED
    BY <2>1, <2>2
<1> QED
  BY <1>2, <1>4, <1>5, <1>6, <1>8

(* run() is called for a ticket that has no entry yet.                      *)
LEMMA RunHolds ==
  ASSUME TrayInv, NEW t \in Ticket, NEW b \in BOOLEAN, Run(t, b)
  PROVE  TrayInv'
<1>1. /\ call[t] = At("-") /\ call' = [call EXCEPT ![t] = At("posting")]
      /\ blocking' = [blocking EXCEPT ![t] = b]
      /\ UNCHANGED <<state, listed, entries, modal, logs, click, announced, latest>>
  BY DEF Run, serviceVars
<1>2. At("posting") \in Steps /\ At("posting") \in Early /\ At("-") \in Early
  BY DEF At, Steps, Early
<1>3. /\ call \in [Ticket -> Told \cup Steps] /\ blocking \in [Ticket -> BOOLEAN]
      /\ \A i \in DOMAIN entries : entries[i].id \in Ticket
  BY EntriesTyped DEF TrayInv, TrayTypeOK, Entry
<1>4. /\ call' \in [Ticket -> Told \cup Steps] /\ blocking' \in [Ticket -> BOOLEAN]
      /\ call'[t] = At("posting")
      /\ \A u \in Ticket : u # t => call'[u] = call[u] /\ blocking'[u] = blocking[u]
  BY <1>1, <1>2, <1>3
<1>5. \A i \in DOMAIN entries : entries[i].id # t
  BY <1>1, <1>2 DEF TrayInv, EntriesAreLater
<1>6. latest \in Ticket \cup {NoTicket} /\ latest # t
  BY <1>1, <1>2, TrayAssumption DEF TrayInv, TrayTypeOK, LatestHasCome
<1>7. TrayTypeOK' /\ ServiceTyped'
  BY <1>1, <1>4 DEF TrayInv, TrayTypeOK, ServiceTyped
<1>8. EndsAreTrue'
  BY <1>1, <1>2, <1>4, StepsDiffer DEF TrayInv, EndsAreTrue
<1>9. EntriesAreLater'
  BY <1>1, <1>3, <1>4, <1>5 DEF TrayInv, EntriesAreLater, Early
<1>10. AnnouncedInTime'
  <2>1. \A i \in DOMAIN entries :
          entries[i].state \in {"succeeded", "failed"} /\ ~blocking'[entries[i].id]
            => entries[i].id \in announced
    BY <1>3, <1>4, <1>5 DEF TrayInv, AnnouncedInTime
  <2>2. Places(t) = {}
    BY <1>5 DEF Places
  <2>3. \A u \in Ticket : Places(u)' = Places(u)
    BY <1>1 DEF Places
  <2>4. \A u \in Ticket :
          call'[u] \in {At("fetching"), At("resolved")} /\ ~blocking'[u] /\ Places(u) # {}
            => u \in announced
    BY <1>4, <2>2 DEF TrayInv, AnnouncedInTime
  <2> QED
    BY <1>1, <2>1, <2>3, <2>4 DEF AnnouncedInTime
<1>11. LatestHasCome' /\ ModalIsTheLatestWait'
  BY <1>1, <1>4, <1>6 DEF TrayInv, LatestHasCome, ModalIsTheLatestWait, Settled, Early
<1> QED
  BY <1>7, <1>8, <1>9, <1>10, <1>11 DEF TrayInv

(* The reply of a submission makes an entry, at the cost of the oldest.     *)
LEMMA SubmittedHolds ==
  ASSUME TrayInv, NEW t \in Ticket, Submitted(t)
  PROVE  TrayInv'
<1> DEFINE e == [id |-> t, state |-> "queued"]
           all == <<e>> \o entries
           n == IF Len(all) < HistoryLimit THEN Len(all) ELSE HistoryLimit
<1>1. /\ call[t] = At("posted") /\ call' = [call EXCEPT ![t] = At("polling")]
      /\ entries' = SubSeq(all, 1, n) /\ logs' = logs \cup {t}
      /\ modal' = (IF blocking[t] THEN t ELSE modal) /\ latest' = (IF blocking[t] THEN t ELSE latest)
      /\ UNCHANGED <<state, listed, blocking, click, announced>>
  BY DEF Submitted, AttachLog, serviceVars
<1>2. e \in Entry /\ e.id = t /\ e.state = "queued"
  BY DEF Entry, States
<1> HIDE DEF e
<1>3. entries \in Seq(Entry) /\ \A i \in DOMAIN entries : entries[i] \in Entry
  BY EntriesTyped
<1>4. /\ all \in Seq(Entry) /\ Len(all) = Len(entries) + 1
      /\ all[1] = e /\ \A i \in 2..Len(all) : all[i] = entries[i - 1]
  <2>1. <<e>> \in Seq(Entry) /\ Len(<<e>>) = 1 /\ <<e>>[1] = e
    BY <1>2
  <2>2. /\ all \in Seq(Entry) /\ Len(all) = Len(<<e>>) + Len(entries)
        /\ \A i \in 1..Len(<<e>>) + Len(entries) :
             all[i] = IF i <= Len(<<e>>) THEN <<e>>[i] ELSE entries[i - Len(<<e>>)]
    BY <1>3, <2>1, ConcatProperties
  <2>3. Len(entries) \in Nat
    BY <1>3
  <2> HIDE DEF all
  <2> QED
    BY <2>1, <2>2, <2>3
<1> HIDE DEF all
<1>5. n \in Nat /\ n <= Len(all) /\ n <= HistoryLimit
  BY <1>4, TrayAssumption
<1> HIDE DEF n
<1>6. entries' \in Seq(Entry) /\ Len(entries') = n /\ \A i \in 1..n : entries'[i] = all[i]
  <2>1. 1 \in Int /\ n \in Int /\ \A i \in 1..n : all[i] \in Entry
    BY <1>4, <1>5
  <2>2. n - 1 + 1 = n /\ \A i \in 1..n : 1 + i - 1 = i
    BY <1>5
  <2>3. entries' \in Seq(Entry) /\ Len(entries') = (IF 1 <= n THEN n - 1 + 1 ELSE 0)
        /\ \A i \in 1..n - 1 + 1 : entries'[i] = all[1 + i - 1]
    BY <1>1, <2>1, SubSeqProperties
  <2> QED
    BY <1>5, <2>2, <2>3
<1>7. \A i \in DOMAIN entries' : entries'[i] = e \/ \E j \in DOMAIN entries : entries'[i] = entries[j]
  <2>1. DOMAIN entries' = 1..n /\ DOMAIN entries = 1..Len(entries) /\ Len(entries) \in Nat
    BY <1>3, <1>6
  <2>2. ASSUME NEW i \in 1..n PROVE i = 1 \/ (i \in 2..Len(all) /\ i - 1 \in 1..Len(entries))
    BY <1>4, <1>5, <2>1
  <2> QED
    BY ZenonT(60), <1>4, <1>6, <2>1, <2>2
<1>8. At("polling") \in Steps /\ At("posted") \in Early
  BY DEF At, Steps, Early
<1>9. /\ call' \in [Ticket -> Told \cup Steps] /\ call'[t] = At("polling")
      /\ \A u \in Ticket : u # t => call'[u] = call[u]
  BY <1>1, <1>8 DEF TrayInv, TrayTypeOK
<1>10. latest \in Ticket \cup {NoTicket} /\ latest # t
  BY <1>1, <1>8, TrayAssumption DEF TrayInv, TrayTypeOK, LatestHasCome
<1>11. TrayTypeOK' /\ ServiceTyped'
  BY <1>1, <1>5, <1>6, <1>9 DEF TrayInv, TrayTypeOK, ServiceTyped, Entry
<1>12. EndsAreTrue'
  <2>1. \A u \in Ticket, s \in Ended : call'[u] = At(s) => state[u] = s
    BY <1>9, StepsDiffer DEF TrayInv, EndsAreTrue
  <2>2. \A i \in DOMAIN entries' : entries'[i].state \in Ended
                                     => state[entries'[i].id] = entries'[i].state
    BY <1>2, <1>7, StepsDiffer DEF TrayInv, EndsAreTrue
  <2> QED
    BY <1>1, <2>1, <2>2 DEF TrayInv, EndsAreTrue
<1>13. EntriesAreLater'
  <2>1. ASSUME NEW i \in DOMAIN entries' PROVE call'[entries'[i].id] \notin Early
    <3>1. CASE entries'[i] = e
      BY <1>2, <1>9, <3>1, StepsDiffer
    <3>2. CASE \E j \in DOMAIN entries : entries'[i] = entries[j]
      <4>1. PICK j \in DOMAIN entries : entries'[i] = entries[j]
        BY <3>2
      <4>2. entries[j].id \in Ticket
        BY <1>3 DEF Entry
      <4> QED
        BY <1>9, <4>1, <4>2, StepsDiffer DEF TrayInv, EntriesAreLater
    <3> QED
      BY <1>7, <3>1, <3>2
  <2> QED
    BY <2>1 DEF EntriesAreLater, Early
<1>14. AnnouncedInTime'
  <2>1. \A i \in DOMAIN entries' :
          entries'[i].state \in {"succeeded", "failed"} /\ ~blocking[entries'[i].id]
            => entries'[i].id \in announced
    BY <1>2, <1>7 DEF TrayInv, AnnouncedInTime
  <2>2. \A u \in Ticket : u # t /\ Places(u)' # {} => Places(u) # {}
    BY <1>2, <1>7 DEF Places
  <2>3. \A u \in Ticket :
          call'[u] \in {At("fetching"), At("resolved")} /\ ~blocking[u] /\ Places(u)' # {}
            => u \in announced
    BY <1>9, <2>2, StepsDiffer DEF TrayInv, AnnouncedInTime
  <2> QED
    BY <1>1, <2>1, <2>3 DEF AnnouncedInTime
<1>15. LatestHasCome' /\ ModalIsTheLatestWait'
  <2>1. CASE blocking[t]
    BY <1>1, <1>9, <2>1, StepsDiffer, TrayAssumption DEF LatestHasCome, ModalIsTheLatestWait, Settled, Early
  <2>2. CASE ~blocking[t]
    BY <1>1, <1>9, <1>10, <2>2 DEF TrayInv, LatestHasCome, ModalIsTheLatestWait, Settled, Early
  <2> QED
    BY <2>1, <2>2
<1> QED
  BY <1>11, <1>12, <1>13, <1>14, <1>15 DEF TrayInv

(* The answer of a poll goes into the entry before the result is fetched.   *)
LEMMA PolledHolds ==
  ASSUME TrayInv, NEW t \in Ticket, Polled(t)
  PROVE  TrayInv'
<1>1. PICK s \in States :
        /\ call[t] = At(s) /\ Apply(t, s, Over(s))
        /\ IF ~Over(s) THEN call' = [call EXCEPT ![t] = At("polling")] /\ UNCHANGED modal
           ELSE IF s = "succeeded" THEN call' = [call EXCEPT ![t] = At("fetching")] /\ UNCHANGED modal
           ELSE Settle(t, "rejected")
        /\ UNCHANGED <<serviceVars, blocking, click, latest>>
  BY DEF Polled
<1>2. s \in Ended => state[t] = s
  BY <1>1 DEF TrayInv, EndsAreTrue
<1>3. PICK how \in {"polling", "fetching", "rejected"} :
        /\ call' = [call EXCEPT ![t] = At(how)]
        /\ how = "fetching" => s = "succeeded"
        /\ IF how = "rejected" THEN ReleaseModal(t) ELSE modal' = modal
  BY <1>1 DEF Settle
<1>4. At(how) \in Steps
  BY DEF At, Steps
<1>5. /\ call' \in [Ticket -> Told \cup Steps] /\ call'[t] = At(how)
      /\ \A u \in Ticket : u # t => call'[u] = call[u]
  BY <1>3, <1>4 DEF TrayInv, TrayTypeOK
<1>6. /\ entries' \in Seq(Entry) /\ Len(entries') = Len(entries)
      /\ DOMAIN entries' = DOMAIN entries
      /\ logs' \subseteq Ticket /\ announced' \subseteq Ticket /\ announced \subseteq announced'
      /\ \A i \in DOMAIN entries : entries'[i].id = entries[i].id
      /\ \A i \in Places(t) : entries'[i].state = s
      /\ \A i \in DOMAIN entries :
           /\ entries'[i].state \in Ended => state[entries'[i].id] = entries'[i].state
           /\ entries'[i].state \in {"succeeded", "failed"} /\ ~blocking[entries'[i].id]
                => entries'[i].id \in announced'
  BY <1>1, <1>2, ApplyHolds DEF serviceVars
<1>7. \A u \in Ticket : Places(u)' = Places(u)
  BY <1>6 DEF Places
<1>8. modal' \in Ticket \cup {NoTicket}
  BY <1>3 DEF TrayInv, TrayTypeOK, ReleaseModal
<1>9. TrayTypeOK' /\ ServiceTyped'
  BY <1>1, <1>5, <1>6, <1>8 DEF TrayInv, TrayTypeOK, ServiceTyped, serviceVars, Entry
<1>10. EndsAreTrue'
  <2>1. \A u \in Ticket, x \in Ended : call'[u] = At(x) => state[u] = x
    BY <1>3, <1>5, StepsDiffer DEF TrayInv, EndsAreTrue
  <2> QED
    BY <1>1, <1>6, <2>1 DEF TrayInv, EndsAreTrue, serviceVars
<1>11. call[t] \notin Early /\ ~Settled(t) /\ At(how) \notin Early /\ At(how) # At("resolved")
       /\ (At(how) = At("fetching") => how = "fetching")
       /\ (At(how) = At("rejected") => how = "rejected")
  BY <1>1, <1>3, StepsDiffer DEF Settled
<1>12. EntriesAreLater'
  <2>1. \A i \in DOMAIN entries : entries[i].id \in Ticket
    BY EntriesTyped DEF Entry
  <2>2. \A i \in DOMAIN entries' : call'[entries'[i].id] \notin Early
    BY <1>5, <1>6, <1>11, <2>1 DEF TrayInv, EntriesAreLater
  <2> QED
    BY <2>2 DEF EntriesAreLater, Early
<1>13. AnnouncedInTime'
  <2>1. \A u \in Ticket :
          call'[u] \in {At("fetching"), At("resolved")} /\ ~blocking[u] /\ Places(u) # {}
            => u \in announced'
    <3> SUFFICES ASSUME NEW u \in Ticket, call'[u] \in {At("fetching"), At("resolved")},
                        ~blocking[u], Places(u) # {}
                 PROVE  u \in announced'
      OBVIOUS
    <3>1. CASE u = t
      <4>1. s = "succeeded"
        BY <1>3, <1>5, <1>11, <3>1
      <4>2. PICK i \in Places(t) : TRUE
        BY <3>1
      <4>3. i \in DOMAIN entries /\ entries[i].id = t
        BY <4>2 DEF Places
      <4> QED
        BY <1>6, <3>1, <4>1, <4>2, <4>3
    <3>2. CASE u # t
      BY <1>5, <1>6, <3>2 DEF TrayInv, AnnouncedInTime
    <3> QED
      BY <3>1, <3>2
  <2> QED
    BY <1>1, <1>6, <1>7, <2>1 DEF AnnouncedInTime
<1>14. latest # NoTicket => latest \in Ticket
  BY DEF TrayInv, TrayTypeOK
<1>15. LatestHasCome'
  BY <1>1, <1>5, <1>11, <1>14 DEF TrayInv, LatestHasCome, Early
<1>16. ModalIsTheLatestWait'
  <2>0. t # NoTicket
    BY TrayAssumption
  <2>1. \A u \in Ticket : u # t => (Settled(u)' <=> Settled(u))
    BY <1>5 DEF Settled
  <2>2. Settled(t)' <=> how = "rejected"
    BY <1>5, <1>11, StepsDiffer DEF Settled
  <2>3. modal = IF latest # NoTicket /\ ~Settled(latest) THEN latest ELSE NoTicket
    BY DEF TrayInv, ModalIsTheLatestWait
  <2>4. modal' = IF latest # NoTicket /\ ~Settled(latest)' THEN latest ELSE NoTicket
    <3>1. CASE latest = t
      BY <1>1, <1>3, <1>11, <2>0, <2>2, <2>3, <3>1 DEF ReleaseModal
    <3>2. CASE latest # t
      BY <1>1, <1>3, <1>14, <2>0, <2>1, <2>3, <3>2 DEF ReleaseModal
    <3> QED
      BY <3>1, <3>2
  <2> QED
    BY <1>1, <2>4 DEF ModalIsTheLatestWait, Settled
<1> QED
  BY <1>9, <1>10, <1>12, <1>13, <1>15, <1>16 DEF TrayInv

(* The service moves and nothing else does.                                 *)
LEMMA ServiceAloneHolds ==
  ASSUME TrayInv, ServiceKeepsEnds,
         UNCHANGED <<call, blocking, entries, modal, logs, click, announced, latest>>
  PROVE  TrayInv'
<1>1. TrayTypeOK' /\ ServiceTyped'
  BY DEF TrayInv, TrayTypeOK, ServiceKeepsEnds
<1>2. EndsAreTrue'
  <2>1. \A i \in DOMAIN entries : entries[i].id \in Ticket
    BY EntriesTyped DEF Entry
  <2>2. \A c \in Click, s \in Ended : click[c].step = At(s) => state'[click[c].id] = s
    <3> SUFFICES ASSUME NEW c \in Click, NEW s \in Ended, click[c].step = At(s)
                 PROVE  state'[click[c].id] = s
      OBVIOUS
    <3>1. click[c].id \in Ticket
      BY StepsDiffer DEF TrayInv, EndsAreTrue, Early
    <3> QED
      BY <3>1 DEF TrayInv, EndsAreTrue, ServiceKeepsEnds
  <2> QED
    BY <2>1, <2>2 DEF TrayInv, EndsAreTrue, ServiceKeepsEnds
<1>3. EntriesAreLater' /\ AnnouncedInTime' /\ LatestHasCome' /\ ModalIsTheLatestWait'
  BY DEF TrayInv, EntriesAreLater, AnnouncedInTime, LatestHasCome, ModalIsTheLatestWait,
     Places, Settled, Early
<1> QED
  BY <1>1, <1>2, <1>3 DEF TrayInv

(* A submission is admitted, of this page or of another client.             *)
LEMMA AdmittedHolds ==
  ASSUME TrayInv, NEW t \in Ticket, Admitted(t)
  PROVE  TrayInv'
<1>1. ServiceKeepsEnds
  BY ServiceHolds DEF Admitted
<1>2. /\ call \in [Ticket -> Told \cup Steps]
      /\ t \in Own => call[t] = At("posting")
      /\ UNCHANGED <<blocking, entries, modal, logs, click, announced, latest>>
  BY DEF Admitted, TrayInv, TrayTypeOK
<1>3. call' = [call EXCEPT ![t] = IF t \in Own THEN At("posted") ELSE call[t]]
  BY <1>2 DEF Admitted
<1>4. At("posted") \in Steps /\ At("posting") \in Early /\ At("posted") \in Early
  BY DEF At, Steps, Early
<1>5. CASE t \in Own
  <2>1. call' = [call EXCEPT ![t] = At("posted")]
    BY <1>3, <1>5
  <2>2. ~Settled(t)
    BY <1>2, <1>4, <1>5, StepsDiffer DEF Settled
  <2>3. \A s \in Ended : At("posted") # At(s)
    BY <1>4, StepsDiffer
  <2>4. At("posted") \notin {At("fetching"), At("resolved"), At("rejected")}
    BY <1>4, StepsDiffer
  <2> QED
    BY <1>1, <1>2, <1>4, <1>5, <2>1, <2>2, <2>3, <2>4, CallHolds
<1>6. CASE t \notin Own
  <2>1. call' = call
    BY <1>2, <1>3, <1>6
  <2> QED
    BY <1>1, <1>2, <2>1, ServiceAloneHolds
<1> QED
  BY <1>5, <1>6

(* The steps of run() that leave the tray alone.                            *)
LEMMA CallSteps ==
  ASSUME TrayInv, NEW t \in Ticket, SubmitFails(t) \/ Read(t) \/ PollFails(t) \/ Fetched(t)
  PROVE  TrayInv'
<1>1. ServiceKeepsEnds /\ UNCHANGED <<state, blocking, entries, logs, click, announced, latest>>
  BY ServiceStays DEF SubmitFails, Read, PollFails, Fetched, serviceVars
<1>2. /\ At("rejected") \in Steps /\ At("resolved") \in Steps
      /\ At("posting") \in Early /\ At("posted") \in Early
  BY DEF At, Steps, Early
<1>3. At("rejected") # At("fetching") /\ At("rejected") # At("resolved")
      /\ \A s \in Ended : At("rejected") # At(s) /\ At("resolved") # At(s)
  BY StepsDiffer
<1>4. CASE SubmitFails(t)
  <2>1. call[t] \in Early /\ call' = [call EXCEPT ![t] = At("rejected")] /\ modal' = modal
    BY <1>2, <1>4 DEF SubmitFails
  <2>2. ~Settled(t)
    BY <2>1, StepsDiffer DEF Settled
  <2>3. modal # t
    BY <2>1, TrayAssumption DEF TrayInv, LatestHasCome, ModalIsTheLatestWait
  <2>4. ReleaseModal(t)
    BY <2>1, <2>3 DEF ReleaseModal
  <2> QED
    BY <1>1, <1>2, <1>3, <2>1, <2>2, <2>4, CallHolds, StepsDiffer
<1>5. CASE Read(t)
  <2>1. /\ call[t] = At("polling") /\ call' = [call EXCEPT ![t] = At(state[t])] /\ modal' = modal
        /\ state[t] \in States /\ state' = state
    BY <1>5 DEF Read, TrayInv, ServiceTyped, serviceVars
  <2>2. ~Settled(t)
    BY <2>1, StepsDiffer DEF Settled
  <2>3. At(state[t]) \in Told /\ At(state[t]) \notin Early
        /\ At(state[t]) \notin {At("resolved"), At("rejected"), At("fetching")}
        /\ \A s \in Ended : At(state[t]) = At(s) => state'[t] = s
    BY <2>1, StepsDiffer
  <2> QED
    BY <1>1, <2>1, <2>2, <2>3, CallHolds
<1>6. CASE PollFails(t)
  <2>1. /\ call[t] \in {At("polling")} \cup {At(s) : s \in States}
        /\ call' = [call EXCEPT ![t] = At("rejected")] /\ ReleaseModal(t)
    BY <1>6 DEF PollFails, Settle
  <2>2. ~Settled(t)
    BY <2>1, StepsDiffer DEF Settled
  <2> QED
    BY <1>1, <1>2, <1>3, <2>1, <2>2, CallHolds, StepsDiffer
<1>7. CASE Fetched(t)
  <2>1. PICK v \in {At("resolved"), At("rejected")} :
          call[t] = At("fetching") /\ call' = [call EXCEPT ![t] = v] /\ ReleaseModal(t)
    BY <1>7 DEF Fetched, Settle
  <2>2. ~Settled(t)
    BY <2>1, StepsDiffer DEF Settled
  <2>3. v \notin Early /\ v \in Steps
    BY <1>2, StepsDiffer
  <2> QED
    BY <1>1, <1>3, <2>1, <2>2, <2>3, CallHolds
<1> QED
  BY <1>4, <1>5, <1>6, <1>7

(* The steps of cancel() before its refresh arrives.                        *)
LEMMA ClickSteps ==
  ASSUME TrayInv, NEW c \in Click,
         \/ \E t \in Ticket : Cancel(c, t)
         \/ CancelFound(c) \/ CancelAccepted(c) \/ CancelFails(c) \/ RefreshRead(c)
  PROVE  TrayInv'
<1> DEFINE Clicks == [id : Ticket \cup {NoTicket}, step : Told \cup [told : {"-", "asking", "found", "polling"}]]
<1>1. ServiceKeepsEnds
  <2>1. CASE CancelFound(c) \/ CancelAccepted(c)
    <3>1. click[c].id \in Ticket
      BY <2>1, StepsDiffer DEF CancelFound, CancelAccepted, TrayInv, EndsAreTrue, Early
    <3> QED
      BY <2>1, <3>1, ServiceHolds DEF CancelFound, CancelAccepted
  <2>2. CASE ~CancelFound(c) /\ ~CancelAccepted(c)
    BY <2>2, ServiceStays DEF Cancel, CancelFails, RefreshRead
  <2> QED
    BY <2>1, <2>2
<1>2. /\ UNCHANGED <<state, call, blocking, entries, modal, logs, announced, latest>>
  BY DEF Cancel, CancelFound, CancelAccepted, CancelFails, RefreshRead, serviceVars,
     Service!Ask, Service!Accept
<1>3. click \in [Click -> Clicks]
  BY DEF TrayInv, TrayTypeOK
<1> HIDE DEF Clicks
<1>4. PICK k \in Clicks : /\ click' = [click EXCEPT ![c] = k]
                          /\ k.step # At("-") => k.id \in Ticket
                          /\ \A s \in Ended : k.step = At(s) => state[k.id] = s
  <2>1. \E k \in Clicks : /\ click' = [click EXCEPT ![c] = k]
                          /\ k.step # At("-") => k.id \in Ticket
                          /\ \A s \in Ended : k.step = At(s) => state[k.id] = s
    <3>1. At("asking") \in [told : {"-", "asking", "found", "polling"}]
          /\ At("found") \in [told : {"-", "asking", "found", "polling"}]
          /\ At("polling") \in [told : {"-", "asking", "found", "polling"}]
          /\ At("-") \in [told : {"-", "asking", "found", "polling"}]
      BY DEF At
    <3>2. \A s \in Ended : At(s) \notin {At("asking"), At("found"), At("polling"), At("-")}
      BY StepsDiffer DEF Early
    <3>3. ASSUME NEW t \in Ticket, Cancel(c, t)
          PROVE  \E k \in Clicks : /\ click' = [click EXCEPT ![c] = k]
                                   /\ k.step # At("-") => k.id \in Ticket
                                   /\ \A s \in Ended : k.step = At(s) => state[k.id] = s
      <4> DEFINE k == [id |-> t, step |-> At("asking")]
      <4>1. k \in Clicks /\ k.id = t /\ k.step = At("asking") /\ click' = [click EXCEPT ![c] = k]
        BY <3>1, <3>3 DEF Cancel, Clicks
      <4> HIDE DEF k
      <4> QED
        BY <3>2, <4>1
    <3>4. ASSUME NEW v \in Told \cup [told : {"-", "asking", "found", "polling"}],
                 click' = [click EXCEPT ![c].step = v],
                 v # At("-") => click[c].id \in Ticket,
                 \A s \in Ended : v = At(s) => state[click[c].id] = s
          PROVE  \E k \in Clicks : /\ click' = [click EXCEPT ![c] = k]
                                   /\ k.step # At("-") => k.id \in Ticket
                                   /\ \A s \in Ended : k.step = At(s) => state[k.id] = s
      <4> DEFINE k == [click[c] EXCEPT !.step = v]
      <4>1. k \in Clicks /\ k.id = click[c].id /\ k.step = v
        BY <1>3 DEF Clicks
      <4>2. click' = [click EXCEPT ![c] = k]
        BY <3>4
      <4> HIDE DEF k
      <4> QED
        BY ZenonT(60), <3>4, <4>1, <4>2
    <3>5. CASE CancelFound(c) \/ CancelAccepted(c)
      <4>1. PICK v \in {"found", "polling"} :
              /\ click[c].step \in {At("asking"), At("found")}
              /\ click' = [click EXCEPT ![c].step = At(v)]
        BY <3>5 DEF CancelFound, CancelAccepted
      <4>2. click[c].id \in Ticket
        BY <4>1, StepsDiffer DEF TrayInv, EndsAreTrue, Early
      <4> QED
        BY <3>1, <3>2, <3>4, <4>1, <4>2
    <3>6. CASE CancelFails(c)
      BY <3>1, <3>2, <3>4, <3>6 DEF CancelFails
    <3>7. CASE RefreshRead(c)
      <4>1. /\ click[c].id \in Ticket /\ state[click[c].id] \in States
            /\ click' = [click EXCEPT ![c].step = At(state[click[c].id])]
        BY <3>7 DEF RefreshRead, TrayInv, ServiceTyped
      <4>2. At(state[click[c].id]) \in Told
            /\ \A s \in Ended : At(state[click[c].id]) = At(s) => state[click[c].id] = s
        BY <4>1, StepsDiffer
      <4> QED
        BY <3>4, <4>1, <4>2
    <3> QED
      BY <3>3, <3>5, <3>6, <3>7
  <2> QED
    BY <2>1
<1>5. /\ click' \in [Click -> Clicks] /\ click'[c] = k
      /\ \A d \in Click : d # c => click'[d] = click[d]
  BY <1>3, <1>4
<1>6. TrayTypeOK' /\ ServiceTyped'
  BY <1>1, <1>2, <1>5 DEF TrayInv, TrayTypeOK, ServiceKeepsEnds, Clicks
<1>7. EndsAreTrue'
  BY <1>2, <1>4, <1>5 DEF TrayInv, EndsAreTrue
<1>8. EntriesAreLater' /\ AnnouncedInTime' /\ LatestHasCome' /\ ModalIsTheLatestWait'
  BY <1>2 DEF TrayInv, EntriesAreLater, AnnouncedInTime, LatestHasCome, ModalIsTheLatestWait,
     Places, Settled, Early
<1> QED
  BY <1>6, <1>7, <1>8 DEF TrayInv

(* A refresh that arrives, early or late, announces what it ends.           *)
LEMMA RefreshedHolds ==
  ASSUME TrayInv, NEW c \in Click, Refreshed(c)
  PROVE  TrayInv'
<1>1. PICK s \in States :
        /\ click[c].step = At(s) /\ Apply(click[c].id, s, FALSE)
        /\ click' = [click EXCEPT ![c].step = At("-")]
        /\ UNCHANGED <<serviceVars, call, blocking, modal, latest>>
  BY DEF Refreshed
<1> DEFINE t == click[c].id
<1>2. t \in Ticket /\ (s \in Ended => state[t] = s)
  BY <1>1, StepsDiffer DEF TrayInv, EndsAreTrue, Early
<1>3. /\ entries' \in Seq(Entry) /\ Len(entries') = Len(entries)
      /\ DOMAIN entries' = DOMAIN entries
      /\ logs' \subseteq Ticket /\ announced' \subseteq Ticket /\ announced \subseteq announced'
      /\ \A i \in DOMAIN entries : entries'[i].id = entries[i].id
      /\ \A i \in DOMAIN entries :
           /\ entries'[i].state \in Ended => state[entries'[i].id] = entries'[i].state
           /\ entries'[i].state \in {"succeeded", "failed"} /\ ~blocking[entries'[i].id]
                => entries'[i].id \in announced'
  BY <1>1, <1>2, ApplyHolds DEF serviceVars
<1>4. \A u \in Ticket : Places(u)' = Places(u)
  BY <1>3 DEF Places
<1>5. At("-") \in [told : {"-", "asking", "found", "polling"}] /\ \A x \in Ended : At(x) # At("-")
  BY StepsDiffer DEF At, Early
<1>6. /\ click' \in [Click -> [id : Ticket \cup {NoTicket},
                               step : Told \cup [told : {"-", "asking", "found", "polling"}]]]
      /\ click'[c].step = At("-") /\ \A d \in Click : d # c => click'[d] = click[d]
  BY <1>1, <1>5 DEF TrayInv, TrayTypeOK
<1>7. TrayTypeOK' /\ ServiceTyped'
  BY <1>1, <1>3, <1>6 DEF TrayInv, TrayTypeOK, ServiceTyped, serviceVars, Entry
<1>8. EndsAreTrue'
  BY <1>1, <1>3, <1>5, <1>6 DEF TrayInv, EndsAreTrue, serviceVars
<1>9. EntriesAreLater' /\ LatestHasCome' /\ ModalIsTheLatestWait'
  BY <1>1, <1>3 DEF TrayInv, EntriesAreLater, LatestHasCome, ModalIsTheLatestWait, Settled, Early
<1>10. AnnouncedInTime'
  BY <1>1, <1>3, <1>4 DEF TrayInv, AnnouncedInTime
<1> QED
  BY <1>7, <1>8, <1>9, <1>10 DEF TrayInv

(* clearFinished() takes entries away and adds none.                        *)
LEMMA ClearHolds ==
  ASSUME TrayInv, ClearFinished
  PROVE  TrayInv'
<1>1. entries \in Seq(Entry) /\ Len(entries) \in Nat
  BY EntriesTyped
<1>2. SomeOf(entries', entries, Len(entries), Entry)
  BY <1>1, ClearingKeepsSome DEF ClearFinished
<1>3. UNCHANGED <<state, listed, call, blocking, modal, logs, click, announced, latest>>
  BY DEF ClearFinished, serviceVars
<1>4. /\ entries' \in Seq(Entry) /\ Len(entries') <= Len(entries) /\ Len(entries') \in Nat
      /\ \A i \in DOMAIN entries' : \E j \in DOMAIN entries : entries'[i] = entries[j]
  BY <1>1, <1>2 DEF SomeOf
<1>5. Len(entries') <= HistoryLimit
  <2>1. Len(entries) <= HistoryLimit
    BY DEF TrayInv, TrayTypeOK
  <2> QED
    BY <1>1, <1>4, <2>1, TrayAssumption
<1>6. TrayTypeOK' /\ ServiceTyped'
  BY <1>3, <1>4, <1>5 DEF TrayInv, TrayTypeOK, ServiceTyped, Entry
<1>7. EndsAreTrue' /\ EntriesAreLater' /\ LatestHasCome' /\ ModalIsTheLatestWait'
  BY <1>3, <1>4 DEF TrayInv, EndsAreTrue, EntriesAreLater, LatestHasCome, ModalIsTheLatestWait,
     Settled, Early
<1>8. \A u \in Ticket : Places(u)' # {} => Places(u) # {}
  BY <1>4 DEF Places
<1>9. AnnouncedInTime'
  BY <1>3, <1>4, <1>8 DEF TrayInv, AnnouncedInTime
<1> QED
  BY <1>6, <1>7, <1>9 DEF TrayInv

(* Nor does a cancellation by another client touch the page.                *)
LEMMA ElsewhereHolds ==
  ASSUME TrayInv, NEW t \in Ticket, CancelledElsewhere(t)
  PROVE  TrayInv'
BY ServiceHolds, ServiceAloneHolds DEF CancelledElsewhere

(* Every step of the task tray keeps the invariant.                         *)
LEMMA TrayStep == TrayInv /\ [TrayNext]_trayVars => TrayInv'
<1> SUFFICES ASSUME TrayInv, [TrayNext]_trayVars PROVE TrayInv'
  OBVIOUS
<1>1. CASE UNCHANGED trayVars
  <2>1. UNCHANGED <<state, listed, call, blocking, entries, modal, logs, click, announced, latest>>
    BY <1>1 DEF trayVars, serviceVars
  <2> QED
    BY <2>1 DEF TrayInv, TrayTypeOK, ServiceTyped, EndsAreTrue, EntriesAreLater, AnnouncedInTime,
       LatestHasCome, ModalIsTheLatestWait, Places, Settled, Early
<1>2. ASSUME NEW t \in Ticket, ServiceWorks(t) PROVE TrayInv'
  BY <1>2, ServiceHolds, ServiceAloneHolds DEF ServiceWorks
<1>3. ASSUME NEW t \in Ticket, Step(t) PROVE TrayInv'
  BY <1>3, SubmittedHolds, PolledHolds, CallSteps DEF Step
<1> QED
  BY <1>1, <1>2, <1>3, ElsewhereHolds, RunHolds, AdmittedHolds, ClickSteps, RefreshedHolds, ClearHolds DEF TrayNext

(* The page is dimmed for no run but the last one that is waited for, and   *)
(* for that one while the tray has a live entry for it; a run in the        *)
(* background is announced before it returns: whatever polls, refreshes and *)
(* cancellations overtake each other.  run(), wait(), cancel(), apply() and *)
(* `blocking` of the task store, for any tickets and any length of the      *)
(* tray.                                                                    *)
THEOREM TrayTellsItsUser == TraySpec => []UserIsTold
<1>1. TrayInv => LoaderIsTheLatestWait
  <2> SUFFICES ASSUME TrayInv PROVE LoaderIsTheLatestWait
    OBVIOUS
  <2>1. \A t \in Ticket : \A i \in Places(t) : Live(entries[i].state) <=> entries[i].state \notin Ended
    <3>1. \A t \in Ticket : \A i \in Places(t) : entries[i].state \in States
      BY EntriesTyped DEF Places, Entry
    <3> QED
      BY <3>1, StepsDiffer DEF Live, States
  <2>2. modal = IF latest # NoTicket /\ ~Settled(latest) THEN latest ELSE NoTicket
    BY DEF TrayInv, ModalIsTheLatestWait
  <2>3. CASE latest = NoTicket \/ Settled(latest)
    BY <2>2, <2>3 DEF Loader, LoaderIsTheLatestWait
  <2>4. CASE latest # NoTicket /\ ~Settled(latest)
    <3>1. latest \in Ticket /\ modal = latest
      BY <2>2, <2>4 DEF TrayInv, TrayTypeOK
    <3> QED
      BY <2>1, <2>4, <3>1 DEF Loader, LoaderIsTheLatestWait
  <2> QED
    BY <2>3, <2>4
<1>2. TrayInv => EndIsAnnounced
  BY DEF TrayInv, AnnouncedInTime, EndIsAnnounced
<1>3. TrayInv => UserIsTold
  BY <1>1, <1>2 DEF UserIsTold
<1> QED
  BY <1>3, TrayInitHolds, TrayStep, PTL DEF TraySpec

-----------------------------------------------------------------------------
(* The sweep (BatchSweep).                                                  *)

SweepRowsTyped ==
  /\ rows \in [Rows -> [id : DOMAIN jobs \cup {NoJob}, state : RowStates]]
  /\ subscriptions \subseteq [row : Rows, id : DOMAIN jobs]
  /\ jobs \in Seq(RowStates \cup {"asked"})
  /\ next \in 1..Individuals + 1 /\ starting \in {"-", "previewing", "submitting"}
  /\ streamProblems \in Nat

(* The rows that are still to be submitted name no run.                     *)
RowsToCome ==
  starting # "-" => next <= Individuals /\ \A i \in Rows : i >= next => rows[i].id = NoJob

SweepInv == SweepRowsTyped /\ RowsToCome /\ RowsAreFollowed

(* What the service's table and the rows hold.                              *)
JobStates == RowStates \cup {"asked"}
Row == [id : DOMAIN jobs \cup {NoJob}, state : RowStates]

(* No run has the name of none.                                             *)
LEMMA JobsAreNumbered ==
  ASSUME SweepInv
  PROVE  /\ jobs \in Seq(JobStates) /\ DOMAIN jobs = 1..Len(jobs) /\ Len(jobs) \in Nat
         /\ DOMAIN jobs \subseteq Nat /\ NoJob \notin DOMAIN jobs
<1>1. jobs \in Seq(JobStates)
  BY DEF SweepInv, SweepRowsTyped, JobStates
<1>2. DOMAIN jobs = 1..Len(jobs) /\ Len(jobs) \in Nat
  BY <1>1
<1> QED
  BY <1>1, <1>2, SweepAssumption

(* A panel without a sweep follows nothing.                                 *)
LEMMA SweepInitHolds == SweepInit => SweepInv
<1> SUFFICES ASSUME SweepInit PROVE SweepInv
  OBVIOUS
<1>1. jobs = <<>> /\ <<>> \in Seq(RowStates \cup {"asked"}) /\ DOMAIN <<>> = {}
  BY DEF SweepInit
<1>2. \A i \in Rows : rows[i] = Empty
  BY DEF SweepInit
<1>3. Empty.id = NoJob /\ Empty.state = "live" /\ Empty \in [id : {NoJob}, state : RowStates]
  BY DEF Empty, RowStates
<1>4. rows \in [Rows -> [id : DOMAIN jobs \cup {NoJob}, state : RowStates]]
  BY <1>1, <1>3 DEF SweepInit
<1>5. 1 \in 1..Individuals + 1
  BY SweepAssumption
<1> QED
  BY <1>1, <1>2, <1>3, <1>4, <1>5 DEF SweepInit, SweepInv, SweepRowsTyped, RowsToCome, RowsAreFollowed

(* A new sweep starts with empty rows and no stream.                        *)
LEMMA StartHolds ==
  ASSUME SweepInv, Start
  PROVE  SweepInv'
<1>1. /\ rows' = [i \in Rows |-> Empty] /\ subscriptions' = {} /\ next' = 1
      /\ starting' = "previewing" /\ byHand' = {} /\ UNCHANGED <<jobs, streamProblems>>
  BY DEF Start, CloseStreams
<1>2. Empty.id = NoJob /\ Empty.state = "live" /\ Empty \in [id : {NoJob}, state : RowStates]
  BY DEF Empty, RowStates
<1>3. rows' \in [Rows -> Row] /\ \A i \in Rows : rows'[i].id = NoJob
  BY <1>1, <1>2 DEF Row
<1>4. 1 \in 1..Individuals + 1 /\ 1 <= Individuals
  BY SweepAssumption
<1>5. SweepRowsTyped'
  BY <1>1, <1>3, <1>4 DEF SweepInv, SweepRowsTyped, Row
<1>6. RowsToCome' /\ RowsAreFollowed'
  BY <1>1, <1>3, <1>4 DEF RowsToCome, RowsAreFollowed
<1> QED
  BY <1>5, <1>6 DEF SweepInv

(* The loop goes on to the next row, or ends.                               *)
LEMMA NextRowHolds ==
  ASSUME SweepInv, starting # "-", NextRow
  PROVE  /\ next' \in 1..Individuals + 1 /\ starting' \in {"-", "submitting"}
         /\ starting' # "-" => next' <= Individuals
         /\ next \in Rows /\ \A i \in Rows : i >= next' => i >= next /\ i # next
<1>1. next \in 1..Individuals + 1 /\ next <= Individuals /\ Individuals \in Nat
  BY SweepAssumption DEF SweepInv, SweepRowsTyped, RowsToCome
<1>2. next' = next + 1 /\ starting' = IF next = Individuals THEN "-" ELSE "submitting"
  BY DEF NextRow
<1> QED
  BY <1>1, <1>2 DEF Rows

(* A row whose run is accepted is followed from then on.                    *)
LEMMA AcceptedHolds ==
  ASSUME SweepInv, Accepted
  PROVE  SweepInv'
<1> DEFINE n == Len(jobs')
           bond == [row |-> next, id |-> n]
<1>1. /\ starting = "submitting" /\ NextRow
      /\ jobs' = Append(jobs, "live")
      /\ rows' = [rows EXCEPT ![next].id = n, ![next].state = "live"]
      /\ subscriptions' = subscriptions \cup {bond}
      /\ UNCHANGED <<streamProblems, mounted, byHand>>
  BY DEF Accepted
<1>2. /\ next' \in 1..Individuals + 1 /\ starting' \in {"-", "submitting"}
      /\ starting' # "-" => next' <= Individuals
      /\ next \in Rows /\ \A i \in Rows : i >= next' => i >= next /\ i # next
  BY <1>1, NextRowHolds
<1>3. /\ jobs' \in Seq(JobStates) /\ n = Len(jobs) + 1 /\ n \in DOMAIN jobs' /\ n \notin DOMAIN jobs
      /\ jobs'[n] = "live" /\ DOMAIN jobs \subseteq DOMAIN jobs'
      /\ \A j \in DOMAIN jobs : jobs'[j] = jobs[j]
  <2>1. "live" \in JobStates
    BY DEF JobStates, RowStates
  <2>2. /\ jobs' \in Seq(JobStates) /\ Len(jobs') = Len(jobs) + 1
        /\ \A i \in 1..Len(jobs) : jobs'[i] = jobs[i]
        /\ jobs'[Len(jobs) + 1] = "live"
    BY <1>1, <2>1, JobsAreNumbered, AppendProperties
  <2>3. DOMAIN jobs' = 1..Len(jobs')
    BY <2>2
  <2> QED
    BY <2>2, <2>3, JobsAreNumbered
<1>4. bond.row = next /\ bond.id = n /\ bond \in [row : Rows, id : DOMAIN jobs']
  BY <1>2, <1>3
<1> HIDE DEF n
<1>5. rows \in [Rows -> Row]
  BY DEF SweepInv, SweepRowsTyped, Row
<1>6. /\ rows' \in [Rows -> [id : DOMAIN jobs' \cup {NoJob}, state : RowStates]]
      /\ rows'[next].id = n /\ rows'[next].state = "live"
      /\ \A i \in Rows : i # next => rows'[i] = rows[i]
  BY <1>1, <1>2, <1>3, <1>5 DEF Row, RowStates
<1>7. rows[next].id = NoJob
  BY <1>1, <1>2 DEF SweepInv, RowsToCome, SweepRowsTyped
<1>8. \A s \in subscriptions : s.row \in Rows /\ s.id \in DOMAIN jobs /\ s.row # next
  <2>1. \A s \in subscriptions : s.row \in Rows /\ s.id \in DOMAIN jobs /\ rows[s.row].id = s.id
    BY DEF SweepInv, SweepRowsTyped, RowsAreFollowed
  <2> QED
    BY <1>7, <2>1, JobsAreNumbered
<1>9. subscriptions' \subseteq [row : Rows, id : DOMAIN jobs']
  BY <1>1, <1>3, <1>4 DEF SweepInv, SweepRowsTyped
<1>10. SweepRowsTyped'
  BY <1>1, <1>2, <1>3, <1>6, <1>9 DEF SweepInv, SweepRowsTyped, JobStates
<1>11. RowsToCome'
  BY <1>1, <1>2, <1>6 DEF SweepInv, RowsToCome
<1>12. RowsAreFollowed'
  <2>1. \A s \in subscriptions' : rows'[s.row].id = s.id
    BY <1>1, <1>4, <1>6, <1>8 DEF SweepInv, RowsAreFollowed
  <2>2. ASSUME NEW i \in Rows, rows'[i].id # NoJob
        PROVE  /\ rows'[i].state \in Final /\ i \notin byHand' => TellsOf(rows'[i].state, jobs'[rows'[i].id])
               /\ rows'[i].state = "live" /\ mounted' /\ byHand' = {} /\ streamProblems' = 0
                    => [row |-> i, id |-> rows'[i].id] \in subscriptions'
    <3>1. CASE i = next
      BY <1>1, <1>6, <3>1 DEF Final
    <3>2. CASE i # next
      <4>1. rows'[i] = rows[i] /\ rows[i].id \in DOMAIN jobs
        BY <1>5, <1>6, <2>2, <3>2 DEF Row
      <4> QED
        <5>1. /\ rows[i].state \in Final /\ i \notin byHand => TellsOf(rows[i].state, jobs[rows[i].id])
              /\ rows[i].state = "live" /\ mounted /\ byHand = {} /\ streamProblems = 0
                   => [row |-> i, id |-> rows[i].id] \in subscriptions
          BY <2>2, <4>1 DEF SweepInv, RowsAreFollowed
        <5>2. jobs'[rows[i].id] = jobs[rows[i].id] /\ subscriptions \subseteq subscriptions'
          BY <1>1, <1>3, <4>1
        <5> QED
          BY <1>1, <4>1, <5>1, <5>2
    <3> QED
      BY <3>1, <3>2
  <2> QED
    BY <2>1, <2>2 DEF RowsAreFollowed
<1> QED
  BY <1>10, <1>11, <1>12 DEF SweepInv

(* What happens to the rows, whatever becomes of their states: their runs   *)
(* and the links stay, or links go.                                         *)
RowsKeepRuns ==
  /\ rows' \in [Rows -> Row] /\ \A i \in Rows : rows'[i].id = rows[i].id
  /\ subscriptions' \subseteq subscriptions /\ streamProblems' \in Nat
  /\ jobs' \in Seq(JobStates) /\ DOMAIN jobs' = DOMAIN jobs

(* Such a step keeps the invariant if every row is still followed.          *)
LEMMA KeepingRunsHolds ==
  ASSUME SweepInv, RowsKeepRuns, RowsToCome',
         next' \in 1..Individuals + 1, starting' \in {"-", "previewing", "submitting"},
         \A i \in Rows : rows[i].id # NoJob =>
           /\ rows'[i].state \in Final /\ i \notin byHand' => TellsOf(rows'[i].state, jobs'[rows[i].id])
           /\ rows'[i].state = "live" /\ mounted' /\ byHand' = {} /\ streamProblems' = 0
                => [row |-> i, id |-> rows[i].id] \in subscriptions'
  PROVE  SweepInv'
<1>1. subscriptions \subseteq [row : Rows, id : DOMAIN jobs]
  BY DEF SweepInv, SweepRowsTyped
<1>2. SweepRowsTyped'
  BY <1>1 DEF RowsKeepRuns, SweepInv, SweepRowsTyped, Row, JobStates
<1>3. \A s \in subscriptions' : rows'[s.row].id = s.id
  BY <1>1 DEF RowsKeepRuns, SweepInv, RowsAreFollowed
<1>4. RowsAreFollowed'
  BY <1>3 DEF RowsKeepRuns, RowsAreFollowed
<1> QED
  BY <1>2, <1>4 DEF SweepInv

(* The previews, and a submission that is tried again or given up.          *)
LEMMA SubmissionSteps ==
  ASSUME SweepInv, Previewed \/ RowNotSubmitted
  PROVE  SweepInv'
<1>1. rows \in [Rows -> Row] /\ jobs \in Seq(JobStates) /\ streamProblems \in Nat
  BY DEF SweepInv, SweepRowsTyped, Row, JobStates
<1>2. next \in 1..Individuals + 1
  BY DEF SweepInv, SweepRowsTyped
<1>3. CASE Previewed
  <2>1. /\ starting = "previewing" /\ starting' = "submitting"
        /\ UNCHANGED <<rows, next, jobs, subscriptions, streamProblems, mounted, byHand>>
    BY <1>3 DEF Previewed
  <2>2. RowsKeepRuns /\ RowsToCome'
    BY <1>1, <2>1 DEF RowsKeepRuns, SweepInv, RowsToCome
  <2> QED
    BY <1>2, <2>1, <2>2, KeepingRunsHolds DEF SweepInv, RowsAreFollowed
<1>4. CASE RowNotSubmitted
  <2>1. /\ starting = "submitting" /\ UNCHANGED <<jobs, subscriptions, streamProblems, mounted, byHand>>
        /\ \/ UNCHANGED <<starting, next, rows>>
           \/ NextRow /\ rows' = [rows EXCEPT ![next].state = "failed"]
    BY <1>4 DEF RowNotSubmitted, Refused
  <2>2. CASE UNCHANGED <<starting, next, rows>>
    <3>1. RowsKeepRuns /\ RowsToCome'
      BY <1>1, <2>1, <2>2 DEF RowsKeepRuns, SweepInv, RowsToCome
    <3> QED
      BY <1>2, <2>1, <2>2, <3>1, KeepingRunsHolds DEF SweepInv, RowsAreFollowed
  <2>3. CASE NextRow /\ rows' = [rows EXCEPT ![next].state = "failed"]
    <3>1. /\ next' \in 1..Individuals + 1 /\ starting' \in {"-", "submitting"}
          /\ starting' # "-" => next' <= Individuals
          /\ next \in Rows /\ \A i \in Rows : i >= next' => i >= next /\ i # next
      BY <2>1, <2>3, NextRowHolds
    <3>2. /\ rows' \in [Rows -> Row] /\ \A i \in Rows : rows'[i].id = rows[i].id
          /\ \A i \in Rows : i # next => rows'[i] = rows[i]
      BY <1>1, <2>3, <3>1 DEF Row, RowStates, Final
    <3>3. RowsKeepRuns /\ RowsToCome'
      BY <1>1, <2>1, <3>1, <3>2 DEF RowsKeepRuns, SweepInv, RowsToCome
    <3>4. rows[next].id = NoJob
      BY <2>1, <3>1 DEF SweepInv, RowsToCome, SweepRowsTyped
    <3> QED
      BY <2>1, <3>1, <3>2, <3>3, <3>4, KeepingRunsHolds DEF SweepInv, RowsAreFollowed
  <2> QED
    BY <2>1, <2>2, <2>3
<1> QED
  BY <1>3, <1>4

(* An event, or the end of a stream, concerns the row of its own run.       *)
LEMMA StreamSteps ==
  ASSUME SweepInv, NEW s \in subscriptions, StateEvent(s) \/ LastEvent(s) \/ StreamGivesUp(s)
  PROVE  SweepInv'
<1>1. rows \in [Rows -> Row] /\ jobs \in Seq(JobStates) /\ streamProblems \in Nat
  BY DEF SweepInv, SweepRowsTyped, Row, JobStates
<1>2. /\ next \in 1..Individuals + 1 /\ starting \in {"-", "previewing", "submitting"}
      /\ s.row \in Rows /\ s.id \in DOMAIN jobs /\ s = [row |-> s.row, id |-> s.id]
      /\ rows[s.row].id = s.id
  BY DEF SweepInv, SweepRowsTyped, RowsAreFollowed
<1>3. CASE StateEvent(s) \/ LastEvent(s)
  <2>1. jobs[s.id] \in JobStates
    BY <1>1, <1>2
  <2>2. /\ Seen(s.id) \in RowStates
        /\ jobs[s.id] \in Final => Seen(s.id) = jobs[s.id]
        /\ jobs[s.id] \notin Final => Seen(s.id) = "live"
    BY <2>1 DEF Seen, JobStates, RowStates, Final
  <2>3. PICK said \in RowStates :
          /\ rows' = [rows EXCEPT ![s.row].state = said]
          /\ jobs[s.id] \in Final => TellsOf(said, jobs[s.id])
          /\ said = "live" => jobs[s.id] \notin Final /\ subscriptions' = subscriptions
          /\ jobs[s.id] \notin Final => said = "live"
    <3>1. CASE StateEvent(s)
      BY <2>2, <3>1 DEF StateEvent, TellsOf, Final
    <3>2. CASE LastEvent(s)
      <4>1. PICK said \in Endings(jobs[s.id]) : rows' = [rows EXCEPT ![s.row].state = said]
        BY <3>2 DEF LastEvent
      <4>2. said \in Final /\ TellsOf(said, jobs[s.id]) /\ jobs[s.id] \in Final
        BY <3>2, <4>1 DEF LastEvent, Endings, TellsOf, Final
      <4> QED
        BY <4>1, <4>2 DEF RowStates, Final
    <3> QED
      BY <1>3, <3>1, <3>2
  <2>4. /\ subscriptions' \in {subscriptions, subscriptions \ {s}}
        /\ UNCHANGED <<starting, next, jobs, streamProblems, mounted, byHand>>
    BY <1>3 DEF StateEvent, LastEvent
  <2>5. /\ rows' \in [Rows -> Row] /\ \A i \in Rows : rows'[i].id = rows[i].id
        /\ rows'[s.row].state = said /\ \A i \in Rows : i # s.row => rows'[i] = rows[i]
    BY <1>1, <1>2, <2>3 DEF Row
  <2>6. RowsKeepRuns /\ RowsToCome'
    BY <1>1, <2>4, <2>5 DEF RowsKeepRuns, SweepInv, RowsToCome
  <2>7. ASSUME NEW i \in Rows, rows[i].id # NoJob
        PROVE  /\ rows'[i].state \in Final /\ i \notin byHand'
                    => TellsOf(rows'[i].state, jobs'[rows[i].id])
               /\ rows'[i].state = "live" /\ mounted' /\ byHand' = {} /\ streamProblems' = 0
                    => [row |-> i, id |-> rows[i].id] \in subscriptions'
    <3>1. CASE i = s.row
      <4>1. "live" \notin Final
        BY DEF Final
      <4> QED
        BY <1>2, <2>3, <2>4, <2>5, <3>1, <4>1
    <3>2. CASE i # s.row
      <4> DEFINE bond == [row |-> i, id |-> rows[i].id]
      <4>1. bond # s
        <5>1. bond.row = i
          OBVIOUS
        <5> HIDE DEF bond
        <5> QED
          BY <3>2, <5>1
      <4>2. /\ rows[i].state \in Final /\ i \notin byHand => TellsOf(rows[i].state, jobs[rows[i].id])
            /\ rows[i].state = "live" /\ mounted /\ byHand = {} /\ streamProblems = 0
                 => bond \in subscriptions
        BY <2>7 DEF SweepInv, RowsAreFollowed
      <4> HIDE DEF bond
      <4>3. rows'[i].state = "live" /\ mounted' /\ byHand' = {} /\ streamProblems' = 0
              => bond \in subscriptions'
        BY <2>4, <2>5, <3>2, <4>1, <4>2
      <4> QED
        BY <2>4, <2>5, <3>2, <4>2, <4>3 DEF bond
    <3> QED
      BY <3>1, <3>2
  <2> QED
    BY <1>2, <2>4, <2>6, <2>7, KeepingRunsHolds
<1>4. CASE StreamGivesUp(s)
  <2>1. /\ subscriptions' = subscriptions \ {s} /\ streamProblems' = streamProblems + 1
        /\ UNCHANGED <<rows, starting, next, jobs, mounted, byHand>>
    BY <1>4 DEF StreamGivesUp
  <2>2. RowsKeepRuns /\ RowsToCome' /\ streamProblems' # 0
    BY <1>1, <2>1 DEF RowsKeepRuns, SweepInv, RowsToCome
  <2> QED
    BY <1>2, <2>1, <2>2, KeepingRunsHolds DEF SweepInv, RowsAreFollowed
<1> QED
  BY <1>3, <1>4

(* The cancel button, from this sweep or the one before, and leaving.       *)
LEMMA ButtonStepsOfSweep ==
  ASSUME SweepInv,
         Leave \/ \E p \in Press : CancelAll(p) \/ CancelReplied(p) \/ CancelMisses(p)
                                   \/ CancelDone(p)
  PROVE  SweepInv'
<1>1. rows \in [Rows -> Row] /\ jobs \in Seq(JobStates) /\ streamProblems \in Nat
  BY DEF SweepInv, SweepRowsTyped, Row, JobStates
<1>2. next \in 1..Individuals + 1 /\ starting \in {"-", "previewing", "submitting"}
  BY DEF SweepInv, SweepRowsTyped
<1>3. CASE Leave
  <2>1. /\ mounted' = FALSE /\ subscriptions' = {}
        /\ UNCHANGED <<rows, starting, next, jobs, streamProblems, byHand>>
    BY <1>3 DEF Leave
  <2>2. RowsKeepRuns /\ RowsToCome'
    BY <1>1, <2>1 DEF RowsKeepRuns, SweepInv, RowsToCome
  <2> QED
    BY <1>2, <2>1, <2>2, KeepingRunsHolds DEF SweepInv, RowsAreFollowed
<1>4. ASSUME NEW p \in Press, CancelAll(p) PROVE SweepInv'
  <2>1. UNCHANGED <<rows, starting, next, jobs, subscriptions, streamProblems, mounted, byHand>>
    BY <1>4 DEF CancelAll
  <2> QED
    BY <2>1 DEF SweepInv, SweepRowsTyped, RowsToCome, RowsAreFollowed
<1>5. ASSUME NEW p \in Press, CancelDone(p) PROVE SweepInv'
  <2>1. /\ subscriptions' = {} /\ byHand' = byHand \cup {0}
        /\ UNCHANGED <<rows, starting, next, jobs, streamProblems, mounted>>
    BY <1>5 DEF CancelDone
  <2>2. RowsKeepRuns /\ RowsToCome'
    BY <1>1, <2>1 DEF RowsKeepRuns, SweepInv, RowsToCome
  <2> QED
    BY <1>2, <2>1, <2>2, KeepingRunsHolds DEF SweepInv, RowsAreFollowed
<1>6. ASSUME NEW p \in Press, CancelMisses(p) PROVE SweepInv'
  <2>1. UNCHANGED <<rows, starting, next, jobs, subscriptions, streamProblems, mounted, byHand>>
    BY <1>6 DEF CancelMisses
  <2> QED
    BY <2>1 DEF SweepInv, SweepRowsTyped, RowsToCome, RowsAreFollowed
<1>7. ASSUME NEW p \in Press, CancelReplied(p) PROVE SweepInv'
  <2> DEFINE c == Head(cancelling[p])
  <2>1. /\ UNCHANGED <<starting, next, jobs, subscriptions, streamProblems, mounted>>
        /\ rows' = [rows EXCEPT ![c.row].state = "cancelled"]
        /\ byHand' = byHand \cup {c.row}
    BY <1>7 DEF CancelReplied
  <2> HIDE DEF c
  <2>2. /\ rows' \in [Rows -> Row] /\ \A i \in Rows : rows'[i].id = rows[i].id
        /\ \A i \in Rows : i \notin byHand' => rows'[i] = rows[i]
    BY <1>1, <2>1 DEF Row, RowStates, Final
  <2>3. RowsKeepRuns /\ RowsToCome' /\ byHand' # {}
    BY <1>1, <2>1, <2>2 DEF RowsKeepRuns, SweepInv, RowsToCome
  <2>4. ASSUME NEW i \in Rows, rows[i].id # NoJob, rows'[i].state \in Final, i \notin byHand'
        PROVE  TellsOf(rows'[i].state, jobs'[rows[i].id])
    <3>1. rows'[i] = rows[i] /\ i \notin byHand
      BY <2>1, <2>2, <2>4
    <3> QED
      BY <2>1, <2>4, <3>1 DEF SweepInv, RowsAreFollowed
  <2> QED
    BY <1>2, <2>1, <2>3, <2>4, KeepingRunsHolds
<1> QED
  BY <1>3, <1>4, <1>5, <1>6, <1>7

(* The service is asked to cancel a run, from here or elsewhere, or ends    *)
(* one: no row changes, and what has ended stays.                           *)
LEMMA ServiceStepsOfSweep ==
  ASSUME SweepInv,
         (\E p \in Press : CancelArrives(p)) \/ (\E j \in Job : AskedElsewhere(j) \/ JobEnds(j))
  PROVE  SweepInv'
<1>1. rows \in [Rows -> Row] /\ jobs \in Seq(JobStates) /\ streamProblems \in Nat
  BY DEF SweepInv, SweepRowsTyped, Row, JobStates
<1>2. next \in 1..Individuals + 1 /\ starting \in {"-", "previewing", "submitting"}
  BY DEF SweepInv, SweepRowsTyped
<1>3. PICK j : jobs[j] \notin Final /\ \E s \in Final \cup {"asked"} : jobs' = [jobs EXCEPT ![j] = s]
  <2>1. ASSUME NEW p \in Press, CancelArrives(p)
        PROVE  LET c == Head(cancelling[p]).id IN
               jobs' = [jobs EXCEPT ![c] = "asked"] /\ jobs[c] \notin Final
    BY <2>1 DEF CancelArrives
  <2>2. ASSUME NEW j, AskedElsewhere(j)
        PROVE  jobs' = [jobs EXCEPT ![j] = "asked"] /\ jobs[j] \notin Final
    BY <2>2 DEF AskedElsewhere, Final
  <2>3. ASSUME NEW j, JobEnds(j)
        PROVE  \E s \in Final : jobs' = [jobs EXCEPT ![j] = s] /\ jobs[j] \notin Final
    BY <2>3 DEF JobEnds
  <2>4. "asked" \in Final \cup {"asked"} /\ Final \subseteq Final \cup {"asked"}
    OBVIOUS
  <2>5. CASE \E p \in Press : CancelArrives(p)
    BY <2>1, <2>4, <2>5
  <2>6. CASE \E j \in Job : AskedElsewhere(j)
    BY <2>2, <2>4, <2>6
  <2>7. CASE \E j \in Job : JobEnds(j)
    BY <2>3, <2>4, <2>7
  <2> QED
    BY <2>5, <2>6, <2>7
<1>4. UNCHANGED <<rows, starting, next, subscriptions, streamProblems, mounted, byHand>>
  BY DEF CancelArrives, AskedElsewhere, JobEnds
<1>5. /\ jobs' \in Seq(JobStates) /\ DOMAIN jobs' = DOMAIN jobs
      /\ \A i \in DOMAIN jobs : jobs[i] \in Final => jobs'[i] = jobs[i]
  <2>1. PICK s \in Final \cup {"asked"} : jobs' = [jobs EXCEPT ![j] = s]
    BY <1>3
  <2>2. s \in JobStates /\ jobs \in [1..Len(jobs) -> JobStates] /\ Len(jobs) \in Nat
    BY <1>1 DEF JobStates, RowStates
  <2>3. jobs' \in [1..Len(jobs) -> JobStates]
    BY <2>1, <2>2
  <2> QED
    BY <1>3, <2>1, <2>2, <2>3
<1>6. RowsKeepRuns /\ RowsToCome'
  BY <1>1, <1>4, <1>5 DEF RowsKeepRuns, SweepInv, RowsToCome
<1>7. ASSUME NEW i \in Rows, rows[i].id # NoJob, rows[i].state \in Final, i \notin byHand
      PROVE  TellsOf(rows[i].state, jobs'[rows[i].id])
  <2>1. rows[i].id \in DOMAIN jobs /\ TellsOf(rows[i].state, jobs[rows[i].id])
    BY <1>1, <1>7 DEF Row, SweepInv, RowsAreFollowed
  <2>2. jobs[rows[i].id] \in Final
    BY <1>7, <2>1 DEF TellsOf, Final
  <2> QED
    BY <1>5, <2>1, <2>2
<1> QED
  BY <1>2, <1>4, <1>6, <1>7, KeepingRunsHolds DEF SweepInv, RowsAreFollowed

(* Every step of the sweep keeps the invariant.                             *)
LEMMA SweepStep == SweepInv /\ [SweepNext]_sweepVars => SweepInv'
<1> SUFFICES ASSUME SweepInv, [SweepNext]_sweepVars PROVE SweepInv'
  OBVIOUS
<1>1. CASE UNCHANGED sweepVars
  BY <1>1 DEF sweepVars, SweepInv, SweepRowsTyped, RowsToCome, RowsAreFollowed
<1> QED
  BY <1>1, StartHolds, AcceptedHolds, SubmissionSteps, StreamSteps, ButtonStepsOfSweep, ServiceStepsOfSweep
  DEF SweepNext

(* An open stream is of the run its row names, a live row has one unless    *)
(* one gave up, something was cancelled or the panel is gone, and a row     *)
(* that ended and was not marked tells the end of its run, but for "failed" *)
(* of one that was cancelled elsewhere: BatchPanel.vue, for any number of   *)
(* individuals, sweeps and presses of the button.                           *)
THEOREM SweepFollowsItsRows == SweepSpec => []RowsAreFollowed
<1>1. SweepInv => RowsAreFollowed
  BY DEF SweepInv
<1> QED
  BY <1>1, SweepInitHolds, SweepStep, PTL DEF SweepSpec

-----------------------------------------------------------------------------
(* Fetching samples (SampleSocket).                                         *)

Frames == [kind : {"chunk", "event", "error", "done"}, offset : Nat, count : Nat]
Asking == [kind : {"fetch"}, fetch : Fetch]
Messages == {[kind |-> "subscribe"]} \cup Asking
Entries == [fetch : Fetch, items : Seq(Nat), next : Nat, frameSize : Nat]

SocketTyped ==
  /\ out \in Seq(Frames) /\ down \in Seq(Frames)
  /\ up \in Seq(Messages) /\ queue \in Seq(Asking) /\ pending \in Seq(Entries)
  /\ status \in [Fetch -> {"idle", "pending", "resolved", "rejected"}]
  /\ got \in [Fetch -> Seq(Nat)]
  /\ session \in {"none", "serving", "waiting"}
  /\ link \in {"opening", "open", "broken", "idle"}
  /\ connected \in BOOLEAN /\ closed \in BOOLEAN /\ delivered \in BOOLEAN /\ lost \in BOOLEAN
  /\ attempt \in Nat /\ fruitless \in Nat

(* Where there is a connection, and what is under way on it.                *)
LinkInv ==
  /\ closed => link = "idle"
  /\ ~connected => up = <<>> /\ down = <<>> /\ out = <<>>
  /\ connected => queue = <<>>
  /\ link = "opening" => ~connected
  /\ link = "open" => connected
  /\ link = "idle" /\ ~closed => ~connected
  /\ session = "none" => out = <<>>
  /\ link # "open" => session = "none" /\ up = <<>>

(* Every promise that is pending has an entry, and every entry a place in   *)
(* the channel of its own.                                                  *)
PromiseInv ==
  /\ \A k \in 1..Len(pending) : status[pending[k].fetch] = "pending"
  /\ \A f \in Fetch : status[f] = "pending" => \E k \in 1..Len(pending) : pending[k].fetch = f
  /\ \A k, m \in 1..Len(pending) : pending[k].fetch.offset = pending[m].fetch.offset => k = m

(* Samples that follow each other from an offset on.                        *)
Follow(items, offset) == \A i \in 1..Len(items) : items[i] = offset + i - 1

ItemsInv ==
  /\ \A k \in 1..Len(pending) :
       /\ Follow(pending[k].items, pending[k].fetch.offset)
       /\ pending[k].next = pending[k].fetch.offset + Len(pending[k].items)
  /\ \A f \in Fetch : Follow(got[f], f.offset)

BudgetInv ==
  /\ attempt <= MaxRetries
  /\ fruitless <= attempt + (IF closed THEN 1 ELSE 0)
  /\ closed => pending = <<>>

SocketInv == SocketTyped /\ LinkInv /\ PromiseInv /\ ItemsInv /\ BudgetInv

LEMMA SocketConstants ==
  /\ FrameSamples \in Nat \ {0} /\ QueueCap \in Nat \ {0} /\ Total \in Nat
  /\ PageCap \in Nat /\ ClientCap \in Nat /\ MaxRetries \in Nat /\ MaxEvents \in Nat
  /\ \A f \in Fetch : f.offset \in Nat /\ f.limit \in Nat
BY SocketAssumption

LEMMA SocketInit == Init => SocketInv
<1> SUFFICES ASSUME Init PROVE SocketInv
  OBVIOUS
<1>1. Init /\ Connection(FALSE) /\ Len(<<>>) = 0
  BY DEF Init
<1>2. SocketTyped
  <2>1. status = [f \in Fetch |-> "idle"] /\ got = [f \in Fetch |-> <<>>] /\ <<>> \in Seq(Nat)
    BY <1>1 DEF Connection
  <2>2. got \in [Fetch -> Seq(Nat)]
    BY <2>1
  <2>3. status \in [Fetch -> {"idle", "pending", "resolved", "rejected"}]
    BY <2>1
  <2>4. /\ out = <<>> /\ down = <<>> /\ up = <<>> /\ queue = <<>> /\ pending = <<>>
        /\ session = "none" /\ link = "opening" /\ connected = FALSE /\ closed = FALSE
        /\ delivered = FALSE /\ lost = FALSE /\ attempt = 0 /\ fruitless = 0
    BY <1>1 DEF Connection
  <2>5. /\ connected \in BOOLEAN /\ closed \in BOOLEAN /\ delivered \in BOOLEAN /\ lost \in BOOLEAN
    BY <2>4
  <2>6. /\ out \in Seq(Frames) /\ down \in Seq(Frames)
        /\ up \in Seq(Messages) /\ queue \in Seq(Asking) /\ pending \in Seq(Entries)
    BY <2>4
  <2>7. attempt \in Nat /\ fruitless \in Nat /\ session = "none" /\ link = "opening"
    BY <2>4
  <2> QED
    BY <2>2, <2>3, <2>5, <2>6, <2>7 DEF SocketTyped
<1>3. LinkInv /\ PromiseInv
  BY <1>1 DEF Connection, LinkInv, PromiseInv
<1>4. ItemsInv
  BY <1>1 DEF Connection, ItemsInv, Follow
<1>5. BudgetInv
  BY <1>1, SocketConstants DEF Connection, BudgetInv
<1> QED
  BY <1>2, <1>3, <1>4, <1>5 DEF SocketInv

(* The frames of a reply: each starts where the one before ends, and there  *)
(* is another as long as samples are wanted and the one before started      *)
(* inside the channel.                                                      *)
Wanted(f) == Least(f.limit, PageCap)
Passed(k) == (k - 1) * FrameSamples
GoesOn(f, k) == k * FrameSamples < Wanted(f) /\ f.offset + Passed(k) < Total
Nth(f, k) ==
  Chunk(f.offset + Passed(k), Available(f.offset + Passed(k), Least(Wanted(f) - Passed(k), FrameSamples)))

LEMMA ProductsGrow ==
  ASSUME NEW k \in Nat, NEW m \in Nat, k <= m
  PROVE  k * FrameSamples \in Nat /\ m * FrameSamples \in Nat /\ k * FrameSamples <= m * FrameSamples
<1>1. FrameSamples \in Nat
  BY SocketConstants
<1>2. PICK d \in Nat : m = k + d
  <2>1. m - k \in Nat /\ m = k + (m - k)
    OBVIOUS
  <2> QED
    BY <2>1
<1>3. m * FrameSamples = k * FrameSamples + d * FrameSamples
  BY <1>1, <1>2
<1>4. k * FrameSamples \in Nat /\ d * FrameSamples \in Nat
  BY <1>1
<1> QED
  BY <1>3, <1>4

LEMMA ReplyFrames ==
  ASSUME NEW f \in Fetch
  PROVE  /\ Len(Reply(f)) \in Nat \ {0} /\ DOMAIN Reply(f) = 1..Len(Reply(f))
         /\ Reply(f) = [k \in 1..Len(Reply(f)) |-> Nth(f, k)]
         /\ \A k \in 1..Len(Reply(f)) : k = 1 \/ GoesOn(f, k - 1)
         /\ \A k \in Nat \ {0} : GoesOn(f, k) => k + 1 <= Len(Reply(f))
<1> DEFINE W == Wanted(f)
           S == {k \in 0..W : k = 0 \/ GoesOn(f, k)}
           N == Cardinality(S)
<1>1. W \in Nat /\ W = Least(f.limit, PageCap) /\ f.offset \in Nat /\ Total \in Nat
      /\ FrameSamples \in Nat /\ FrameSamples # 0
  BY SocketConstants DEF Least, Wanted
<1>2. Reply(f) = [k \in 1..N |-> Nth(f, k)]
  BY DEF Reply, Nth, Passed, GoesOn, Wanted
<1> HIDE DEF W
<1> DEFINE T == {n \in Nat : n \notin S}
<1>3. PICK m \in T : \A n \in T : m <= n
  <2>1. W + 1 \in T
    BY <1>1
  <2> QED
    BY <2>1, LeastNatural
<1>4. m \in Nat \ {0} /\ \A n \in Nat : n < m => n \in S
  <2>1. 0 \in S
    BY <1>1
  <2>2. m \in Nat /\ m # 0
    BY <1>3, <2>1
  <2>3. \A n \in Nat : n < m => n \notin T
    BY <1>3, <2>2
  <2> QED
    BY <2>2, <2>3
<1>5. ASSUME NEW n \in S PROVE n < m
  <2>1. SUFFICES ASSUME m <= n PROVE FALSE
    BY <1>1, <1>4
  <2>2. n \in Nat /\ n # 0 /\ n <= W /\ GoesOn(f, n)
    BY <1>1, <1>4, <1>5, <2>1
  <2>3. m * FrameSamples \in Nat /\ n * FrameSamples \in Nat /\ m * FrameSamples <= n * FrameSamples
    BY <1>4, <2>1, <2>2, ProductsGrow
  <2>4. (m - 1) * FrameSamples \in Nat /\ (n - 1) * FrameSamples \in Nat
        /\ (m - 1) * FrameSamples <= (n - 1) * FrameSamples
    <3>1. m - 1 \in Nat /\ n - 1 \in Nat /\ m - 1 <= n - 1
      BY <1>4, <2>1, <2>2
    <3> QED
      BY <3>1, ProductsGrow
  <2>5. n * FrameSamples < W /\ f.offset + (n - 1) * FrameSamples < Total
    BY <2>2 DEF GoesOn, Passed, W
  <2>6. m * FrameSamples < W /\ f.offset + (m - 1) * FrameSamples < Total
    BY <1>1, <2>3, <2>4, <2>5
  <2>7. GoesOn(f, m)
    BY <2>6 DEF GoesOn, Passed, W
  <2>8. m \in 0..W
    BY <1>1, <1>4, <2>1, <2>2
  <2> QED
    BY <1>3, <2>7, <2>8
<1>6. S = 0..m - 1
  BY <1>1, <1>4, <1>5
<1>7. N = m
  <2>1. 0 \in Int /\ m - 1 \in Int /\ ~(0 > m - 1) /\ m - 1 - 0 + 1 = m
    BY <1>4
  <2>2. Cardinality(0..m - 1) = m
    BY <2>1, FS_Interval
  <2> QED
    BY <1>6, <2>2
<1> HIDE DEF N
<1>8. Len(Reply(f)) = m /\ DOMAIN Reply(f) = 1..m
  BY <1>2, <1>4, <1>7
<1>9. \A k \in 1..m : k = 1 \/ GoesOn(f, k - 1)
  <2>1. ASSUME NEW k \in 1..m, k # 1 PROVE GoesOn(f, k - 1)
    <3>1. k - 1 \in S /\ k - 1 # 0
      BY <1>4, <2>1
    <3> QED
      BY <3>1
  <2> QED
    BY <2>1
<1>10. ASSUME NEW k \in Nat \ {0}, GoesOn(f, k) PROVE k + 1 <= m
  <2>1. k <= W
    <3>1. k * FrameSamples < W
      BY <1>10 DEF GoesOn, W
    <3>2. k <= k * FrameSamples
      BY <1>1
    <3> QED
      BY <1>1, <3>1, <3>2
  <2>2. k \in S
    BY <1>1, <1>10, <2>1
  <2> QED
    BY <1>4, <1>5, <2>2
<1> QED
  BY <1>2, <1>4, <1>7, <1>8, <1>9, <1>10

(* What a frame holds.                                                      *)
LEMMA FrameHolds ==
  ASSUME NEW f \in Fetch, NEW k \in 1..Len(Reply(f))
  PROVE  /\ Passed(k) \in Nat /\ Nth(f, k) \in Frames /\ Reply(f)[k] = Nth(f, k)
         /\ Nth(f, k).kind = "chunk" /\ Nth(f, k).offset = f.offset + Passed(k)
         /\ Wanted(f) \in Nat /\ Passed(k) <= Wanted(f)
         /\ LET left == IF f.offset + Passed(k) >= Total THEN 0 ELSE Total - (f.offset + Passed(k))
                take == Least(Wanted(f) - Passed(k), FrameSamples)
            IN  Nth(f, k).count = Least(take, left)
<1> DEFINE at == f.offset + Passed(k)
           left == IF at >= Total THEN 0 ELSE Total - at
           take == Least(Wanted(f) - Passed(k), FrameSamples)
           count == Available(at, take)
<1>1. Wanted(f) \in Nat /\ f.offset \in Nat /\ Total \in Nat /\ FrameSamples \in Nat
  BY SocketConstants DEF Least, Wanted
<1>2. k \in Nat \ {0} /\ k - 1 \in Nat
  BY ReplyFrames
<1>3. Passed(k) \in Nat
  BY <1>1, <1>2, ProductsGrow DEF Passed
<1>4. Passed(k) <= Wanted(f)
  <2>1. CASE k = 1
    BY <1>1, <2>1 DEF Passed
  <2>2. CASE GoesOn(f, k - 1)
    BY <1>1, <1>3, <2>2 DEF GoesOn, Passed
  <2> QED
    BY <2>1, <2>2, ReplyFrames
<1>5. Reply(f)[k] = Nth(f, k)
  BY ReplyFrames
<1>6. Nth(f, k) = [kind |-> "chunk", offset |-> at, count |-> count]
  BY DEF Nth, Chunk
<1>7. take \in Nat /\ at \in Nat
  BY <1>1, <1>3, <1>4 DEF Least
<1> HIDE DEF take, at
<1>8. count = Least(take, left) /\ count \in Nat
  BY <1>1, <1>7 DEF Available, Least
<1> HIDE DEF count, left
<1>9. Nth(f, k) \in Frames
  BY <1>6, <1>7, <1>8 DEF Frames
<1>10. Nth(f, k).kind = "chunk" /\ Nth(f, k).offset = at /\ Nth(f, k).count = count
  BY <1>6
<1> QED
  BY <1>1, <1>3, <1>4, <1>5, <1>8, <1>9, <1>10 DEF at, left, take

LEMMA ReplyTyped ==
  ASSUME NEW f \in Fetch
  PROVE  Reply(f) \in Seq(Frames)
<1>1. /\ Len(Reply(f)) \in Nat
      /\ Reply(f) = [k \in 1..Len(Reply(f)) |-> Nth(f, k)]
  BY ReplyFrames
<1>2. \A k \in 1..Len(Reply(f)) : Nth(f, k) \in Frames
  BY FrameHolds
<1>3. Reply(f) \in [1..Len(Reply(f)) -> Frames]
  BY <1>1, <1>2
<1> QED
  BY <1>1, <1>3

(* What the connection and the server do to none of the promises.           *)
LEMMA PromisesStay ==
  ASSUME SocketInv, UNCHANGED <<pending, status, got, attempt, closed, fruitless>>
  PROVE  PromiseInv' /\ ItemsInv' /\ BudgetInv'
BY DEF SocketInv, PromiseInv, ItemsInv, BudgetInv, Follow

(* What leaves the queue and what joins it.                                 *)
LEMMA SendTyped ==
  ASSUME SocketTyped, NEW frames \in Seq(Frames), SendNow(frames)
  PROVE  out' \in Seq(Frames) /\ lost' \in BOOLEAN
<1> DEFINE room == Least(Len(frames), QueueCap - Len(out))
           sent == SubSeq(frames, 1, room)
<1>1. room \in Int /\ room <= Len(frames) /\ Len(frames) \in Nat
  BY SocketConstants DEF SocketTyped, Least
<1> HIDE DEF room
<1>2. \A i \in 1..room : frames[i] \in Frames
  BY <1>1
<1>3. sent \in Seq(Frames)
  BY <1>1, <1>2, SubSeqProperties
<1> HIDE DEF sent
<1>4. out \o sent \in Seq(Frames)
  BY <1>3, ConcatProperties DEF SocketTyped
<1>5. out' = out \o sent /\ lost' = (lost \/ room < Len(frames))
  BY DEF SendNow, sent, room
<1>6. lost' \in BOOLEAN
  BY <1>5 DEF SocketTyped
<1> QED
  BY <1>4, <1>5, <1>6

LEMMA PlainTyped ==
  ASSUME NEW kind \in {"event", "error", "done"}
  PROVE  Plain(kind) \in Frames
BY DEF Plain, Frames

LEMMA HandleHolds ==
  ASSUME SocketInv, Handle
  PROVE  SocketInv'
<1>1. SocketTyped /\ LinkInv
  BY DEF SocketInv
<1>2. /\ session = "serving" /\ up # <<>> /\ up' = Tail(up)
      /\ UNCHANGED <<result, told, link, down, client, breaks, fruitless>>
  BY DEF Handle
<1>3. UNCHANGED <<connected, closed, attempt, delivered, queue, pending, status, got, fruitless>>
  BY <1>2 DEF client
<1>4. PromiseInv' /\ ItemsInv' /\ BudgetInv'
  BY <1>3, PromisesStay
<1>5. Head(up) \in Messages /\ up' \in Seq(Messages)
  BY <1>1, <1>2, HeadTailProperties DEF SocketTyped
<1>6. out' \in Seq(Frames) /\ lost' \in BOOLEAN /\ session' \in {"serving", "waiting"}
  <2>1. CASE Head(up).kind = "fetch" /\ SendNow(Reply(Head(up).fetch))
    <3>1. Head(up).fetch \in Fetch
      BY <1>5, <2>1 DEF Messages, Asking
    <3>2. Reply(Head(up).fetch) \in Seq(Frames)
      BY <3>1, ReplyTyped
    <3> QED
      BY <1>1, <1>2, <2>1, <3>2, SendTyped DEF SendNow
  <2>2. CASE SendError
    <3>1. lost' = lost /\ (out' = out \/ out' = Append(out, Plain("error")))
          /\ session' \in {"serving", "waiting"}
      BY <1>2, <2>2 DEF SendError
    <3>2. Append(out, Plain("error")) \in Seq(Frames)
      BY <1>1, PlainTyped, AppendProperties DEF SocketTyped
    <3> QED
      BY <1>1, <3>1, <3>2 DEF SocketTyped
  <2>3. CASE SendNow(<<Plain("event")>>)
    <3>1. <<Plain("event")>> \in Seq(Frames)
      BY PlainTyped
    <3> QED
      BY <1>1, <1>2, <2>3, <3>1, SendTyped DEF SendNow
  <2> QED
    BY <2>1, <2>2, <2>3 DEF Handle
<1>7. SocketTyped'
  BY <1>1, <1>2, <1>3, <1>5, <1>6 DEF SocketTyped
<1>8. LinkInv'
  <2>1. link = "open" /\ connected
    BY <1>1, <1>2 DEF LinkInv, SocketTyped
  <2> QED
    BY <1>1, <1>2, <1>3, <1>6, <2>1 DEF LinkInv
<1> QED
  BY <1>4, <1>7, <1>8 DEF SocketInv

LEMMA ServerSteps ==
  ASSUME SocketInv, TaskMoves \/ Drain \/ Pump
  PROVE  SocketInv'
<1>1. SocketTyped /\ LinkInv
  BY DEF SocketInv
<1>2. /\ UNCHANGED <<connected, closed, attempt, delivered, queue, pending, status, got, fruitless>>
      /\ UNCHANGED <<session, link, up, lost>>
  BY DEF TaskMoves, Drain, Pump, client, history
<1>3. PromiseInv' /\ ItemsInv' /\ BudgetInv'
  BY <1>2, PromisesStay
<1>4. CASE TaskMoves
  <2>1. UNCHANGED <<out, down>>
    BY <1>4 DEF TaskMoves
  <2> QED
    BY <1>1, <1>2, <1>3, <2>1 DEF SocketInv, SocketTyped, LinkInv
<1>5. CASE Drain
  <2>1. session = "serving" /\ out # <<>> /\ down' = Append(down, Head(out)) /\ out' = Tail(out)
    BY <1>5 DEF Drain
  <2>2. out' \in Seq(Frames) /\ down' \in Seq(Frames)
    BY <1>1, <2>1, HeadTailProperties, AppendProperties DEF SocketTyped
  <2>3. link = "open" /\ connected
    BY <1>1, <2>1 DEF LinkInv, SocketTyped
  <2>4. LinkInv'
    BY <1>1, <1>2, <2>1, <2>3 DEF LinkInv
  <2>5. SocketTyped'
    BY <1>1, <1>2, <2>2 DEF SocketTyped
  <2> QED
    BY <1>3, <2>4, <2>5 DEF SocketInv
<1>6. CASE Pump
  <2>1. /\ session # "none" /\ UNCHANGED down
        /\ \E kind \in {"event", "done"} : out' = Append(out, Plain(kind))
    BY <1>6 DEF Pump
  <2>2. out' \in Seq(Frames) /\ down' \in Seq(Frames)
    BY <1>1, <2>1, PlainTyped, AppendProperties DEF SocketTyped
  <2>3. link = "open" /\ connected
    BY <1>1, <2>1 DEF LinkInv, SocketTyped
  <2>4. LinkInv'
    BY <1>1, <1>2, <2>1, <2>3 DEF LinkInv
  <2>5. SocketTyped'
    BY <1>1, <1>2, <2>2 DEF SocketTyped
  <2> QED
    BY <1>3, <2>4, <2>5 DEF SocketInv
<1> QED
  BY <1>4, <1>5, <1>6

LEMMA LinkSteps ==
  ASSUME SocketInv, Open \/ Break \/ Reopen
  PROVE  SocketInv'
<1>1. SocketTyped /\ LinkInv
  BY DEF SocketInv
<1>2. UNCHANGED <<closed, attempt, pending, status, got, fruitless>>
  BY DEF Open, Break, Reopen, client, history
<1>3. PromiseInv' /\ ItemsInv' /\ BudgetInv'
  BY <1>2, PromisesStay
<1>4. CASE Open
  <2>1. /\ link = "opening" /\ ~closed /\ link' = "open" /\ session' = "serving" /\ out' = <<>>
        /\ connected' = TRUE /\ up' = <<[kind |-> "subscribe"]>> \o queue /\ queue' = <<>>
        /\ UNCHANGED <<down, delivered, lost>>
    BY <1>4 DEF Open, history
  <2>2. up' \in Seq(Messages)
    <3>1. <<[kind |-> "subscribe"]>> \in Seq(Messages) /\ queue \in Seq(Messages)
      BY <1>1, SeqMonotonic DEF SocketTyped, Messages
    <3> QED
      BY <2>1, <3>1, ConcatProperties
  <2>3. SocketTyped'
    BY <1>1, <1>2, <2>1, <2>2 DEF SocketTyped
  <2>4. LinkInv'
    BY <1>1, <1>2, <2>1 DEF LinkInv
  <2> QED
    BY <1>3, <2>3, <2>4 DEF SocketInv
<1>5. CASE Break
  <2>1. /\ link \in {"opening", "open"} /\ ~closed /\ link' = "broken" /\ session' = "none"
        /\ out' = <<>> /\ up' = <<>> /\ UNCHANGED <<connected, delivered, queue>>
        /\ \E n \in 0..Len(down) : down' = SubSeq(down, 1, n)
        /\ lost' = (lost \/ pending # <<>>)
    BY <1>5 DEF Break, client
  <2>2. down' \in Seq(Frames) /\ (down = <<>> => down' = <<>>)
    <3>1. PICK n \in 0..Len(down) : down' = SubSeq(down, 1, n)
      BY <2>1
    <3>2. /\ 1 \in Int /\ n \in Int /\ Len(down) \in Nat
          /\ \A i \in 1..n : down[i] \in Frames
      BY <1>1 DEF SocketTyped
    <3>3. down' \in Seq(Frames) /\ Len(down') = IF 1 <= n THEN n - 1 + 1 ELSE 0
      BY <3>1, <3>2, SubSeqProperties
    <3>4. down = <<>> => Len(down') = 0
      BY <3>2, <3>3
    <3> QED
      BY <3>3, <3>4
  <2>3. lost' \in BOOLEAN
    BY <1>1, <2>1 DEF SocketTyped
  <2>4. SocketTyped'
    BY <1>1, <1>2, <2>1, <2>2, <2>3 DEF SocketTyped
  <2>5. LinkInv'
    BY <1>1, <1>2, <2>1, <2>2 DEF LinkInv
  <2> QED
    BY <1>3, <2>4, <2>5 DEF SocketInv
<1>6. CASE Reopen
  <2>1. /\ link = "idle" /\ ~closed /\ link' = "opening" /\ delivered' = FALSE
        /\ UNCHANGED <<session, out, up, down, connected, queue, lost>>
    BY <1>6 DEF Reopen, server, history
  <2>2. SocketTyped'
    BY <1>1, <1>2, <2>1 DEF SocketTyped
  <2>3. LinkInv'
    BY <1>1, <1>2, <2>1 DEF LinkInv
  <2> QED
    BY <1>3, <2>2, <2>3 DEF SocketInv
<1> QED
  BY <1>4, <1>5, <1>6

(* A session that is over has told everyone.                                *)
LEMMA Abandoned ==
  ASSUME SocketInv, Abandon, UNCHANGED got
  PROVE  /\ PromiseInv' /\ ItemsInv' /\ pending' = <<>> /\ closed' = TRUE /\ link' = "idle"
         /\ up' = <<>> /\ down' = <<>> /\ out' = <<>> /\ session' = "none"
         /\ status' \in [Fetch -> {"idle", "pending", "resolved", "rejected"}]
<1>1. /\ pending' = <<>> /\ closed' = TRUE /\ link' = "idle" /\ Len(<<>>) = 0
      /\ up' = <<>> /\ down' = <<>> /\ out' = <<>> /\ session' = "none"
      /\ status' = [f \in Fetch |-> IF status[f] = "pending" THEN "rejected" ELSE status[f]]
  BY DEF Abandon
<1>2. status \in [Fetch -> {"idle", "pending", "resolved", "rejected"}]
  BY DEF SocketInv, SocketTyped
<1>3. status' \in [Fetch -> {"idle", "pending", "resolved", "rejected"}]
      /\ \A f \in Fetch : status'[f] # "pending"
  BY <1>1, <1>2
<1>4. PromiseInv'
  BY <1>1, <1>3 DEF PromiseInv
<1>5. ItemsInv'
  BY <1>1 DEF ItemsInv, SocketInv, Follow
<1> QED
  BY <1>1, <1>3, <1>4, <1>5

LEMMA EndSteps ==
  ASSUME SocketInv, Close \/ Reconnect
  PROVE  SocketInv'
<1>1. SocketTyped /\ LinkInv /\ BudgetInv
  BY DEF SocketInv
<1>2. CASE Close
  <2>1. ~closed /\ Abandon /\ UNCHANGED <<connected, attempt, delivered, queue, got, lost, fruitless>>
    BY <1>2 DEF Close, history
  <2>2. /\ PromiseInv' /\ ItemsInv' /\ pending' = <<>> /\ closed' = TRUE /\ link' = "idle"
        /\ up' = <<>> /\ down' = <<>> /\ out' = <<>> /\ session' = "none"
        /\ status' \in [Fetch -> {"idle", "pending", "resolved", "rejected"}]
    BY <2>1, Abandoned
  <2>3. SocketTyped'
    BY <1>1, <2>1, <2>2 DEF SocketTyped
  <2>4. LinkInv'
    BY <1>1, <2>1, <2>2 DEF LinkInv
  <2>5. BudgetInv'
    BY <1>1, <2>1, <2>2, SocketConstants DEF BudgetInv, SocketTyped
  <2> QED
    BY <2>2, <2>3, <2>4, <2>5 DEF SocketInv
<1>3. CASE Reconnect
  <2>1. /\ link = "broken" /\ down = <<>> /\ connected' = FALSE
        /\ fruitless' = IF delivered THEN 0 ELSE fruitless + 1
        /\ UNCHANGED <<delivered, queue, got, lost>>
    BY <1>3 DEF Reconnect
  <2>2. ~closed /\ session = "none" /\ up = <<>> /\ out = <<>>
    BY <1>1, <2>1 DEF LinkInv
  <2>3. fruitless' \in Nat /\ fruitless' <= attempt + 1 /\ attempt \in Nat /\ attempt <= MaxRetries
    BY <1>1, <2>1, <2>2 DEF BudgetInv, SocketTyped
  <2>6. connected' \in BOOLEAN /\ UNCHANGED <<delivered, queue, got, lost>> /\ fruitless' \in Nat
    BY <2>1, <2>3
  <2>4. CASE attempt >= MaxRetries
    <3>1. Abandon /\ UNCHANGED attempt
      BY <1>3, <2>4 DEF Reconnect
    <3>2. /\ PromiseInv' /\ ItemsInv' /\ pending' = <<>> /\ closed' = TRUE /\ link' = "idle"
          /\ up' = <<>> /\ down' = <<>> /\ out' = <<>> /\ session' = "none"
          /\ status' \in [Fetch -> {"idle", "pending", "resolved", "rejected"}]
      BY <2>1, <3>1, Abandoned
    <3>3. SocketTyped'
      BY <1>1, <2>6, <3>1, <3>2 DEF SocketTyped
    <3>4. LinkInv'
      BY <1>1, <2>1, <3>2 DEF LinkInv
    <3>5. BudgetInv'
      BY <2>3, <3>1, <3>2, SocketConstants DEF BudgetInv
    <3> QED
      BY <3>2, <3>3, <3>4, <3>5 DEF SocketInv
  <2>5. CASE ~(attempt >= MaxRetries)
    <3>1. /\ attempt' = attempt + 1 /\ link' = "idle"
          /\ UNCHANGED <<closed, up, down, session, out, status, pending>>
      BY <1>3, <2>5 DEF Reconnect
    <3>2. PromiseInv' /\ ItemsInv'
      BY <2>1, <3>1 DEF SocketInv, PromiseInv, ItemsInv, Follow
    <3>3. SocketTyped'
      <4>1. attempt' \in Nat
        BY <2>3, <3>1
      <4>2. link' = "idle" /\ UNCHANGED <<closed, up, down, session, out, status, pending>>
        BY <3>1
      <4> QED
        BY <1>1, <2>6, <4>1, <4>2 DEF SocketTyped
    <3>4. LinkInv'
      BY <1>1, <2>1, <2>2, <3>1 DEF LinkInv
    <3>5. BudgetInv'
      BY <1>1, <2>2, <2>3, <2>5, <3>1, SocketConstants DEF BudgetInv
    <3> QED
      BY <3>2, <3>3, <3>4, <3>5 DEF SocketInv
  <2> QED
    BY <2>4, <2>5
<1> QED
  BY <1>2, <1>3

(* A fetch that is sent joins the promises.                                 *)
LEMMA RequestHolds ==
  ASSUME SocketInv, NEW f \in Fetch, Request(f)
  PROVE  SocketInv'
<1>1. SocketTyped /\ LinkInv /\ PromiseInv /\ ItemsInv /\ BudgetInv
  BY DEF SocketInv
<1>2. /\ status[f] = "idle"
      /\ UNCHANGED <<result, session, out, told, link, down, connected, closed, attempt, delivered,
                     got, breaks, refused, fruitless>>
  BY DEF Request, server
<1>3. CASE closed \/ \E k \in DOMAIN pending : pending[k].fetch.offset = f.offset
  <2>1. status' = [status EXCEPT ![f] = "rejected"] /\ UNCHANGED <<pending, queue, up, lost>>
    BY <1>3 DEF Request
  <2>2. SocketTyped' /\ LinkInv'
    BY <1>1, <1>2, <2>1 DEF SocketTyped, LinkInv
  <2>3. PromiseInv'
    <3>1. \A g \in Fetch : g # f => status'[g] = status[g]
      BY <1>1, <2>1 DEF SocketTyped
    <3>2. status'[f] = "rejected"
      BY <1>1, <2>1 DEF SocketTyped
    <3>3. \A k \in 1..Len(pending) : pending[k].fetch \in Fetch /\ pending[k].fetch # f
      <4>1. \A k \in 1..Len(pending) : pending[k] \in Entries
        BY <1>1 DEF SocketTyped
      <4>2. \A k \in 1..Len(pending) : pending[k].fetch \in Fetch
        BY <4>1 DEF Entries
      <4> QED
        BY <1>1, <1>2, <4>2 DEF PromiseInv
    <3> QED
      BY <1>1, <2>1, <3>1, <3>2, <3>3 DEF PromiseInv
  <2>4. ItemsInv' /\ BudgetInv'
    BY <1>1, <1>2, <2>1 DEF ItemsInv, BudgetInv, Follow
  <2> QED
    BY <2>2, <2>3, <2>4 DEF SocketInv
<1>4. CASE ~(closed \/ \E k \in DOMAIN pending : pending[k].fetch.offset = f.offset)
  <2> DEFINE m == [kind |-> "fetch", fetch |-> f]
             entry == [fetch |-> f, items |-> <<>>, next |-> f.offset, frameSize |-> 0]
  <2>1. /\ status' = [status EXCEPT ![f] = "pending"]
        /\ pending' = Append(pending, entry)
        /\ queue' = IF connected THEN queue ELSE Append(queue, m)
        /\ up' = IF connected /\ link = "open" THEN Append(up, m) ELSE up
        /\ lost' = (lost \/ (connected /\ link # "open"))
    BY <1>4 DEF Request
  <2>2. m \in Asking /\ m \in Messages
    BY DEF Asking, Messages
  <2>3. /\ entry \in Entries /\ entry.fetch = f /\ entry.items = <<>> /\ entry.next = f.offset
        /\ Len(<<>>) = 0
    BY SocketConstants DEF Entries
  <2> HIDE DEF m, entry
  <2>4. /\ pending' \in Seq(Entries) /\ Len(pending') = Len(pending) + 1 /\ Len(pending) \in Nat
        /\ \A k \in 1..Len(pending) : pending'[k] = pending[k]
        /\ pending'[Len(pending) + 1] = entry
    BY <1>1, <2>1, <2>3, AppendProperties DEF SocketTyped
  <2>5. \A k \in 1..Len(pending') : k \in 1..Len(pending) \/ k = Len(pending) + 1
    BY <2>4
  <2>6. up' \in Seq(Messages) /\ queue' \in Seq(Asking)
    BY <1>1, <2>1, <2>2, AppendProperties DEF SocketTyped
  <2>7. lost' \in BOOLEAN
    BY <1>1, <2>1 DEF SocketTyped
  <2>8. status' \in [Fetch -> {"idle", "pending", "resolved", "rejected"}]
        /\ status'[f] = "pending" /\ \A g \in Fetch : g # f => status'[g] = status[g]
    BY <1>1, <2>1 DEF SocketTyped
  <2>9. SocketTyped'
    BY <1>1, <1>2, <2>4, <2>6, <2>7, <2>8 DEF SocketTyped
  <2>10. LinkInv'
    BY <1>1, <1>2, <2>1 DEF LinkInv
  <2>11. \A k \in 1..Len(pending) : pending[k].fetch \in Fetch /\ pending[k].fetch.offset # f.offset
    <3>1. \A k \in 1..Len(pending) : pending[k] \in Entries
      BY <1>1 DEF SocketTyped
    <3>2. \A k \in 1..Len(pending) : pending[k].fetch \in Fetch
      BY <3>1 DEF Entries
    <3>3. DOMAIN pending = 1..Len(pending)
      BY <1>1 DEF SocketTyped
    <3> QED
      BY <1>4, <3>2, <3>3
  <2>12. PromiseInv'
    <3>1. \A k \in 1..Len(pending') : status'[pending'[k].fetch] = "pending"
      BY <1>1, <2>3, <2>4, <2>5, <2>8, <2>11 DEF PromiseInv
    <3>2. ASSUME NEW g \in Fetch, status'[g] = "pending"
          PROVE  \E k \in 1..Len(pending') : pending'[k].fetch = g
      <4>1. CASE g = f
        BY <2>3, <2>4, <4>1
      <4>2. CASE g # f
        <5>1. PICK k \in 1..Len(pending) : pending[k].fetch = g
          BY <1>1, <2>8, <3>2, <4>2 DEF PromiseInv
        <5> QED
          BY <2>4, <5>1
      <4> QED
        BY <4>1, <4>2
    <3>3. \A k, j \in 1..Len(pending') : pending'[k].fetch.offset = pending'[j].fetch.offset => k = j
      BY <1>1, <2>3, <2>4, <2>5, <2>11 DEF PromiseInv
    <3> QED
      BY <3>1, <3>2, <3>3 DEF PromiseInv
  <2>13. ItemsInv'
    <3>1. \A k \in 1..Len(pending') :
            /\ Follow(pending'[k].items, pending'[k].fetch.offset)
            /\ pending'[k].next = pending'[k].fetch.offset + Len(pending'[k].items)
      <4>1. \A k \in 1..Len(pending) :
              /\ Follow(pending[k].items, pending[k].fetch.offset)
              /\ pending[k].next = pending[k].fetch.offset + Len(pending[k].items)
        BY <1>1 DEF ItemsInv
      <4>2. Follow(entry.items, entry.fetch.offset)
        BY <2>3 DEF Follow
      <4>3. entry.next = entry.fetch.offset + Len(entry.items)
        BY <2>3, SocketConstants
      <4>4. \A k \in 1..Len(pending') : pending'[k] = entry \/ \E j \in 1..Len(pending) : pending'[k] = pending[j]
        BY <2>4, <2>5
      <4> QED
        BY <4>1, <4>2, <4>3, <4>4
    <3>2. \A g \in Fetch : Follow(got'[g], g.offset)
      BY <1>1, <1>2 DEF ItemsInv
    <3> QED
      BY <3>1, <3>2 DEF ItemsInv, Follow
  <2>14. BudgetInv'
    BY <1>1, <1>2, <1>4 DEF BudgetInv
  <2> QED
    BY <2>9, <2>10, <2>12, <2>13, <2>14 DEF SocketInv
<1> QED
  BY <1>3, <1>4

(* A frame that answers an entry carries its items on.                      *)
LEMMA ExtendFollows ==
  ASSUME NEW e \in Entries, NEW chunk \in Frames, Answers(e, chunk),
         Follow(e.items, e.fetch.offset), e.next = e.fetch.offset + Len(e.items)
  PROVE  LET x == Extend(e, chunk)
         IN  /\ x \in Entries /\ x.fetch = e.fetch /\ Follow(x.items, e.fetch.offset)
             /\ Len(x.items) = Len(e.items) + chunk.count
             /\ x.next = e.fetch.offset + Len(x.items)
             /\ x.frameSize = IF e.frameSize = 0 THEN chunk.count ELSE e.frameSize
<1> DEFINE n == chunk.count
           more == [k \in 1..n |-> chunk.offset + k - 1]
           all == e.items \o more
           size == IF e.frameSize = 0 THEN n ELSE e.frameSize
           x == Extend(e, chunk)
<1>1. /\ e = [fetch |-> e.fetch, items |-> e.items, next |-> e.next, frameSize |-> e.frameSize]
      /\ e.fetch \in Fetch /\ e.items \in Seq(Nat) /\ e.next \in Nat /\ e.frameSize \in Nat
      /\ chunk.offset \in Nat /\ n \in Nat /\ e.next = chunk.offset
  BY DEF Entries, Frames, Answers
<1>2. e.fetch.offset \in Nat
  BY <1>1, SocketConstants
<1>2a. e.items \in Seq(Nat)
  BY <1>1
<1> HIDE DEF n
<1>3. more \in Seq(Nat) /\ Len(more) = n /\ \A k \in 1..n : more[k] = chunk.offset + k - 1
  <2>1. \A k \in 1..n : chunk.offset + k - 1 \in Nat
    BY <1>1
  <2>2. more \in [1..n -> Nat]
    BY <2>1
  <2> QED
    BY SMTT(30), <1>1, <2>2
<1> HIDE DEF more
<1>4. /\ all \in Seq(Nat) /\ Len(all) = Len(e.items) + n /\ Len(e.items) \in Nat
      /\ \A k \in 1..Len(e.items) + n :
           all[k] = IF k <= Len(e.items) THEN e.items[k] ELSE more[k - Len(e.items)]
  <2> DEFINE old == e.items
             both == old \o more
  <2>1. old \in Seq(Nat) /\ Len(old) \in Nat
    BY <1>2a
  <2> HIDE DEF old
  <2>2. /\ both \in Seq(Nat) /\ Len(both) = Len(old) + Len(more)
        /\ \A k \in 1..Len(old) + Len(more) :
             both[k] = IF k <= Len(old) THEN old[k] ELSE more[k - Len(old)]
    BY <1>3, <2>1, ConcatProperties
  <2>3. all = both
    BY DEF old
  <2> HIDE DEF both, all
  <2> QED
    BY <1>3, <2>1, <2>2, <2>3 DEF old
<1> HIDE DEF all
<1>5. ASSUME NEW k \in 1..Len(all) PROVE all[k] = e.fetch.offset + k - 1
  <2>1. CASE k <= Len(e.items)
    BY <1>4, <1>5, <2>1 DEF Follow
  <2>2. CASE ~(k <= Len(e.items))
    <3>1. k - Len(e.items) \in 1..n
      BY <1>1, <1>4, <2>2
    <3>2. all[k] = chunk.offset + (k - Len(e.items)) - 1
      BY <1>3, <1>4, <2>2, <3>1
    <3> QED
      BY SMTT(30), <1>1, <1>2, <1>4, <3>2
  <2> QED
    BY <2>1, <2>2
<1>6. x = [fetch |-> e.fetch, items |-> all, next |-> chunk.offset + n, frameSize |-> size]
  <2>1. x = [e EXCEPT !.items = e.items \o more, !.next = chunk.offset + n, !.frameSize = size]
    BY DEF Extend, more, n
  <2> QED
    BY <1>1, <2>1 DEF all
<1>7. size \in Nat
  BY <1>1
<1> HIDE DEF x, size
<1>8. x.fetch = e.fetch /\ x.items = all /\ x.next = chunk.offset + n /\ x.frameSize = size
  BY <1>6
<1>9. x \in Entries
  BY <1>1, <1>4, <1>6, <1>7 DEF Entries
<1>10. x.next = e.fetch.offset + Len(x.items)
  BY <1>1, <1>2, <1>4, <1>8
<1>11. Follow(x.items, e.fetch.offset)
  BY <1>5, <1>8 DEF Follow
<1> QED
  BY <1>4, <1>8, <1>9, <1>10, <1>11 DEF x, size, n

(* The entry a frame goes to.                                               *)
LEMMA AcceptCases ==
  ASSUME SocketTyped, NEW chunk, AcceptChunk(chunk)
  PROVE  \/ /\ \A k \in 1..Len(pending) : ~Answers(pending[k], chunk)
            /\ UNCHANGED <<pending, status, got>>
         \/ \E k \in 1..Len(pending) :
              /\ Answers(pending[k], chunk)
              /\ \A j \in 1..Len(pending) : Answers(pending[j], chunk) => k <= j
              /\ LET x == Extend(pending[k], chunk)
                 IN  \/ /\ ReplyComplete(x, chunk.count)
                        /\ pending' = RemoveAt(pending, k)
                        /\ status' = [status EXCEPT ![x.fetch] = "resolved"]
                        /\ got' = [got EXCEPT ![x.fetch] = x.items]
                     \/ /\ ~ReplyComplete(x, chunk.count)
                        /\ pending' = [pending EXCEPT ![k] = x]
                        /\ UNCHANGED <<status, got>>
<1> DEFINE answered == {k \in DOMAIN pending : Answers(pending[k], chunk)}
<1>1. DOMAIN pending = 1..Len(pending) /\ Len(pending) \in Nat
  BY DEF SocketTyped
<1>2. CASE answered = {}
  <2>1. UNCHANGED <<pending, status, got>>
    BY <1>2 DEF AcceptChunk
  <2> QED
    BY <1>1, <1>2, <2>1
<1>3. CASE answered # {}
  <2> DEFINE k == CHOOSE i \in answered : \A j \in answered : i <= j
             x == Extend(pending[k], chunk)
  <2>1. \E i \in answered : \A j \in answered : i <= j
    <3>1. answered \in SUBSET Nat
      BY <1>1
    <3> HIDE DEF answered
    <3> QED
      BY <1>3, <3>1, LeastNatural
  <2>2. k \in answered /\ \A j \in answered : k <= j
    BY <2>1
  <2>3. IF ReplyComplete(x, chunk.count)
        THEN /\ pending' = RemoveAt(pending, k)
             /\ status' = [status EXCEPT ![x.fetch] = "resolved"]
             /\ got' = [got EXCEPT ![x.fetch] = x.items]
        ELSE /\ pending' = [pending EXCEPT ![k] = x]
             /\ UNCHANGED <<status, got>>
    BY <1>3 DEF AcceptChunk
  <2> HIDE DEF k
  <2> QED
    BY <1>1, <2>2, <2>3
<1> QED
  BY <1>2, <1>3

LEMMA AcceptHolds ==
  ASSUME SocketInv, NEW chunk \in Frames, AcceptChunk(chunk)
  PROVE  /\ PromiseInv' /\ ItemsInv'
         /\ pending' \in Seq(Entries) /\ got' \in [Fetch -> Seq(Nat)]
         /\ status' \in [Fetch -> {"idle", "pending", "resolved", "rejected"}]
         /\ pending = <<>> => pending' = <<>>
<1>1. SocketTyped /\ PromiseInv /\ ItemsInv
  BY DEF SocketInv
<1>2. CASE UNCHANGED <<pending, status, got>>
  BY <1>1, <1>2 DEF SocketTyped, PromiseInv, ItemsInv, Follow
<1>3. ASSUME NEW k \in 1..Len(pending), Answers(pending[k], chunk),
             NEW x, x = Extend(pending[k], chunk),
             \/ /\ pending' = RemoveAt(pending, k)
                /\ status' = [status EXCEPT ![x.fetch] = "resolved"]
                /\ got' = [got EXCEPT ![x.fetch] = x.items]
             \/ /\ pending' = [pending EXCEPT ![k] = x]
                /\ UNCHANGED <<status, got>>
      PROVE  /\ PromiseInv' /\ ItemsInv'
             /\ pending' \in Seq(Entries) /\ got' \in [Fetch -> Seq(Nat)]
             /\ status' \in [Fetch -> {"idle", "pending", "resolved", "rejected"}]
             /\ pending = <<>> => pending' = <<>>
  <2> DEFINE e == pending[k]
  <2>1. /\ pending \in Seq(Entries) /\ Len(pending) \in Nat
        /\ status \in [Fetch -> {"idle", "pending", "resolved", "rejected"}]
        /\ got \in [Fetch -> Seq(Nat)]
    BY <1>1 DEF SocketTyped
  <2>2. e \in Entries /\ Follow(e.items, e.fetch.offset) /\ e.next = e.fetch.offset + Len(e.items)
    BY <1>1, <2>1 DEF ItemsInv
  <2>3. /\ x \in Entries /\ x.fetch = e.fetch /\ Follow(x.items, x.fetch.offset)
        /\ x.next = x.fetch.offset + Len(x.items)
    <3> HIDE DEF e
    <3> QED
      BY <1>3, <2>2, ExtendFollows DEF e
  <2>4. x.fetch \in Fetch /\ x.items \in Seq(Nat)
    BY <2>3 DEF Entries
  <2>5. \A j \in 1..Len(pending) : pending[j].fetch \in Fetch
    <3>1. \A j \in 1..Len(pending) : pending[j] \in Entries
      BY <2>1
    <3> QED
      BY <3>1 DEF Entries
  <2>6. pending # <<>>
    BY <2>1
  <2>7. CASE /\ pending' = RemoveAt(pending, k)
             /\ status' = [status EXCEPT ![x.fetch] = "resolved"]
             /\ got' = [got EXCEPT ![x.fetch] = x.items]
    <3>1. /\ pending' \in Seq(Entries) /\ Len(pending') = Len(pending) - 1
          /\ \A j \in 1..Len(pending) - 1 :
               pending'[j] = IF j < k THEN pending[j] ELSE pending[j + 1]
      BY <2>1, <2>7, RemovedAt
    <3>2. \A j \in 1..Len(pending') :
            /\ j \in 1..Len(pending) /\ j + 1 \in 1..Len(pending)
            /\ \/ j < k /\ pending'[j] = pending[j]
               \/ k < j + 1 /\ pending'[j] = pending[j + 1]
      BY <2>1, <3>1
    <3>3. /\ status' \in [Fetch -> {"idle", "pending", "resolved", "rejected"}]
          /\ status'[x.fetch] = "resolved"
          /\ \A g \in Fetch : g # x.fetch => status'[g] = status[g]
      BY <2>1, <2>4, <2>7
    <3>4. /\ got' \in [Fetch -> Seq(Nat)] /\ got'[x.fetch] = x.items
          /\ \A g \in Fetch : g # x.fetch => got'[g] = got[g]
      BY <2>1, <2>4, <2>7
    <3>5. \A i, j \in 1..Len(pending) : pending[i].fetch.offset = pending[j].fetch.offset => i = j
      BY <1>1 DEF PromiseInv
    <3>6. PromiseInv'
      <4>1. \A j \in 1..Len(pending') : status'[pending'[j].fetch] = "pending"
        <5>1. TAKE j \in 1..Len(pending')
        <5>2. PICK i \in 1..Len(pending) : i # k /\ pending'[j] = pending[i]
          BY <2>1, <3>2
        <5>3. pending[i].fetch # x.fetch /\ pending[i].fetch \in Fetch
          BY <2>3, <2>5, <3>5, <5>2
        <5>4. status[pending[i].fetch] = "pending"
          BY <1>1 DEF PromiseInv
        <5> QED
          BY <3>3, <5>2, <5>3, <5>4
      <4>2. ASSUME NEW g \in Fetch, status'[g] = "pending"
            PROVE  \E j \in 1..Len(pending') : pending'[j].fetch = g
        <5>1. g # x.fetch /\ status[g] = "pending"
          BY <3>3, <4>2
        <5>2. PICK i \in 1..Len(pending) : pending[i].fetch = g
          BY <1>1, <5>1 DEF PromiseInv
        <5>3. i # k
          BY <2>3, <5>1, <5>2
        <5>4. CASE i < k
          <6>1. i \in 1..Len(pending')
            BY <2>1, <3>1, <5>4
          <6> QED
            BY <3>1, <5>2, <5>4, <6>1
        <5>5. CASE k < i
          <6>1. i - 1 \in 1..Len(pending') /\ ~(i - 1 < k) /\ i - 1 + 1 = i
            BY <2>1, <3>1, <5>5
          <6> QED
            BY <3>1, <5>2, <6>1
        <5> QED
          BY <2>1, <5>3, <5>4, <5>5
      <4>3. \A i, j \in 1..Len(pending') : pending'[i].fetch.offset = pending'[j].fetch.offset => i = j
        <5>1. ASSUME NEW i \in 1..Len(pending'), NEW j \in 1..Len(pending'),
                     pending'[i].fetch.offset = pending'[j].fetch.offset
              PROVE  i = j
          <6>1. CASE i < k /\ j < k
            BY <2>1, <3>1, <3>2, <3>5, <5>1, <6>1
          <6>2. CASE i < k /\ ~(j < k)
            <7>1. i = j + 1
              BY <2>1, <3>1, <3>2, <3>5, <5>1, <6>2
            <7> QED
              BY <2>1, <6>2, <7>1
          <6>3. CASE ~(i < k) /\ j < k
            <7>1. i + 1 = j
              BY <2>1, <3>1, <3>2, <3>5, <5>1, <6>3
            <7> QED
              BY <2>1, <6>3, <7>1
          <6>4. CASE ~(i < k) /\ ~(j < k)
            <7>1. /\ i + 1 \in 1..Len(pending) /\ j + 1 \in 1..Len(pending)
                  /\ pending'[i] = pending[i + 1] /\ pending'[j] = pending[j + 1]
              BY <3>2, <6>4
            <7>2. i + 1 = j + 1
              BY <3>5, <5>1, <7>1
            <7>3. i \in Nat /\ j \in Nat
              BY <2>1, <3>1
            <7> QED
              BY <7>2, <7>3
          <6> QED
            BY <6>1, <6>2, <6>3, <6>4
        <5> QED
          BY <5>1
      <4> QED
        BY <4>1, <4>2, <4>3 DEF PromiseInv
    <3>7. ItemsInv'
      <4>1. \A j \in 1..Len(pending') :
              /\ Follow(pending'[j].items, pending'[j].fetch.offset)
              /\ pending'[j].next = pending'[j].fetch.offset + Len(pending'[j].items)
        BY <1>1, <3>2 DEF ItemsInv
      <4>2. \A g \in Fetch : Follow(got'[g], g.offset)
        BY <1>1, <2>3, <3>4 DEF ItemsInv
      <4> QED
        BY <4>1, <4>2 DEF ItemsInv, Follow
    <3> QED
      BY <2>6, <3>1, <3>3, <3>4, <3>6, <3>7
  <2>8. CASE pending' = [pending EXCEPT ![k] = x] /\ UNCHANGED <<status, got>>
    <3>1. /\ pending' \in Seq(Entries) /\ Len(pending') = Len(pending)
          /\ \A j \in 1..Len(pending) : pending'[j] = IF j = k THEN x ELSE pending[j]
      BY <2>1, <2>3, <2>8, ExceptSeq
    <3>2. \A j \in 1..Len(pending) : pending'[j].fetch = pending[j].fetch
      BY <2>3, <3>1
    <3>3. PromiseInv'
      BY <1>1, <2>8, <3>1, <3>2 DEF PromiseInv
    <3>4. \A j \in 1..Len(pending') :
              /\ Follow(pending'[j].items, pending'[j].fetch.offset)
              /\ pending'[j].next = pending'[j].fetch.offset + Len(pending'[j].items)
      BY <1>1, <2>3, <3>1 DEF ItemsInv
    <3>5. ItemsInv'
      BY <1>1, <2>8, <3>4 DEF ItemsInv, Follow
    <3> QED
      BY <2>1, <2>6, <2>8, <3>1, <3>3, <3>5
  <2> QED
    BY <1>3, <2>7, <2>8
<1> QED
  BY <1>1, <1>2, <1>3, AcceptCases

LEMMA ReceiveHolds ==
  ASSUME SocketInv, Receive
  PROVE  SocketInv'
<1>1. SocketTyped /\ LinkInv /\ BudgetInv
  BY DEF SocketInv
<1>2. /\ ~closed /\ down # <<>> /\ down' = Tail(down) /\ delivered' = TRUE
      /\ attempt' = IF delivered THEN attempt ELSE 0
      /\ fruitless' = 0
      /\ UNCHANGED <<session, out, link, up, connected, closed, queue, lost>>
  BY DEF Receive, server
<1>3. Head(down) \in Frames /\ down' \in Seq(Frames)
  BY <1>1, <1>2, HeadTailProperties DEF SocketTyped
<1>4. /\ PromiseInv' /\ ItemsInv'
      /\ pending' \in Seq(Entries) /\ got' \in [Fetch -> Seq(Nat)]
      /\ status' \in [Fetch -> {"idle", "pending", "resolved", "rejected"}]
  <2>1. CASE AcceptChunk(Head(down))
    BY <1>3, <2>1, AcceptHolds
  <2>2. CASE UNCHANGED <<pending, status, got>>
    BY ZenonT(60), <2>2 DEF SocketInv, SocketTyped, PromiseInv, ItemsInv, Follow
  <2> QED
    BY <2>1, <2>2 DEF Receive
<1>5. attempt' \in Nat /\ attempt' <= MaxRetries
  BY <1>1, <1>2, SocketConstants DEF SocketTyped, BudgetInv
<1>6. delivered' \in BOOLEAN /\ fruitless' \in Nat /\ fruitless' = 0
  BY <1>2
<1>7. SocketTyped'
  <2>1. UNCHANGED <<session, out, link, up, connected, closed, queue, lost>>
    BY <1>2
  <2> QED
    BY <1>1, <1>3, <1>4, <1>5, <1>6, <2>1 DEF SocketTyped
<1>8. LinkInv'
  <2>1. connected
    BY <1>1, <1>2 DEF LinkInv
  <2> QED
    BY <1>1, <1>2, <2>1 DEF LinkInv
<1>9. BudgetInv'
  BY <1>1, <1>2, <1>5, <1>6 DEF BudgetInv
<1> QED
  BY <1>4, <1>7, <1>8, <1>9 DEF SocketInv

LEMMA SocketStep == SocketInv /\ [Next]_vars => SocketInv'
<1> SUFFICES ASSUME SocketInv, [Next]_vars PROVE SocketInv'
  OBVIOUS
<1>1. CASE UNCHANGED vars
  BY <1>1 DEF vars, server, client, history, SocketInv, SocketTyped, LinkInv, PromiseInv, ItemsInv,
              BudgetInv, Follow
<1>2. CASE Next
  BY <1>2, HandleHolds, ServerSteps, LinkSteps, EndSteps, RequestHolds, ReceiveHolds
     DEF Next, Serve
<1> QED
  BY <1>1, <1>2

(* The items of a promise follow each other from where it began.            *)
NoHoles == \A f \in Fetch : \A k \in DOMAIN got[f] : got[f][k] = f.offset + k - 1

(* A fetch never resolves with a hole, a session that is over owes nothing, *)
(* and an endpoint that delivers nothing is given up on (ws.ts,             *)
(* acceptChunk, close, reconnect): for any fetches, frame sizes and losses. *)
THEOREM SocketKeepsItsWord ==
  Spec => [](SocketEndsCleanly /\ NoHoles)
<1>1. Init => SocketInv
  BY SocketInit
<1>2. SocketInv /\ [Next]_vars => SocketInv'
  BY SocketStep
<1>3. SocketInv => SocketEndsCleanly /\ NoHoles
  <2> SUFFICES ASSUME SocketInv
               PROVE  SocketEndsCleanly /\ NoHoles
    OBVIOUS
  <2>1. ClosedOwesNothing
    BY DEF ClosedOwesNothing, SocketInv, BudgetInv, PromiseInv
  <2>2. RetryBudget
    BY SocketConstants DEF RetryBudget, SocketInv, BudgetInv, SocketTyped
  <2>3. \A f \in Fetch : \A k \in DOMAIN got[f] : got[f][k] = f.offset + k - 1
    <3>1. \A f \in Fetch : got[f] \in Seq(Nat) /\ Follow(got[f], f.offset)
      BY DEF SocketInv, SocketTyped, ItemsInv
    <3> QED
      BY SMTT(30), <3>1 DEF Follow
  <2> QED
    BY <2>1, <2>2, <2>3 DEF SocketEndsCleanly, NoHoles
<1> QED
  BY <1>1, <1>2, <1>3, PTL DEF Spec

-----------------------------------------------------------------------------
(* How far an entry has come in the reply of its fetch.                     *)

(* What the client asks for is what the server sends of it: "The service    *)
(* caps one reply at the page limit the client documents" (ws.ts, fetch);   *)
(* by default both are 100000.                                              *)
CapsAgree == \A f \in Fetch : Least(f.limit, PageCap) = Least(f.limit, ClientCap)

(* An entry that has taken r frames: all of them whole, and the reply goes  *)
(* on.                                                                      *)
EntryHolds(e, r) ==
  /\ Len(e.items) = r * FrameSamples /\ e.next = e.fetch.offset + r * FrameSamples
  /\ IF r = 0 THEN e.frameSize = 0
     ELSE /\ e.frameSize = FrameSamples
          /\ r * FrameSamples < Wanted(e.fetch) /\ e.fetch.offset + r * FrameSamples < Total

LEMMA StillOwed ==
  ASSUME NEW e \in Entries, NEW r \in Nat, EntryHolds(e, r)
  PROVE  r + 1 \in 1..Len(Reply(e.fetch))
<1>1. e.fetch \in Fetch
  BY DEF Entries
<1>2. e.fetch.offset \in Nat /\ Total \in Nat
  BY <1>1, SocketConstants
<1>3. CASE r = 0
  BY <1>1, <1>3, ReplyFrames
<1>4. CASE r # 0
  <2>1. r * FrameSamples < Wanted(e.fetch) /\ e.fetch.offset + r * FrameSamples < Total
    BY <1>4 DEF EntryHolds
  <2>2. r - 1 \in Nat /\ r - 1 <= r
    BY <1>4
  <2>3. (r - 1) * FrameSamples \in Nat /\ r * FrameSamples \in Nat
        /\ (r - 1) * FrameSamples <= r * FrameSamples
    BY <2>2, ProductsGrow
  <2>4. GoesOn(e.fetch, r)
    BY <1>2, <2>1, <2>3 DEF GoesOn, Passed
  <2>5. r \in Nat \ {0}
    BY <1>4
  <2>6. r + 1 <= Len(Reply(e.fetch)) /\ Len(Reply(e.fetch)) \in Nat
    BY <1>1, <2>4, <2>5, ReplyFrames
  <2> QED
    BY <2>6
<1> QED
  BY <1>3, <1>4

(* The slice that a fetch asked for, by its length.                         *)
LEMMA WholeSlice ==
  ASSUME CapsAgree, NEW f \in Fetch, NEW items \in Seq(Nat), Follow(items, f.offset),
         Len(items) = IF f.offset >= Total THEN 0 ELSE Least(Wanted(f), Total - f.offset)
  PROVE  items = Slice(f)
<1> DEFINE n == Available(f.offset, Least(f.limit, ClientCap))
<1>1. f.offset \in Nat /\ Total \in Nat
  BY SocketConstants
<1>2. n = Len(items)
  BY DEF Available, CapsAgree, Wanted
<1>3. Slice(f) = [k \in 1..n |-> f.offset + k - 1]
  BY DEF Slice
<1> HIDE DEF n
<1>4. items = [k \in 1..Len(items) |-> items[k]]
  OBVIOUS
<1>5. \A k \in 1..Len(items) : items[k] = f.offset + k - 1
  BY DEF Follow
<1> QED
  BY <1>2, <1>3, <1>4, <1>5

(* The next frame of its own reply: it is taken; if the entry is complete   *)
(* then it is the whole slice, and what else comes of the reply is empty.   *)
LEMMA OwnFrame ==
  ASSUME CapsAgree, NEW e \in Entries, NEW r \in Nat, EntryHolds(e, r),
         Follow(e.items, e.fetch.offset)
  PROVE  LET f == e.fetch
             chunk == Nth(f, r + 1)
             x == Extend(e, chunk)
         IN  /\ Answers(e, chunk)
             /\ ReplyComplete(x, chunk.count) =>
                  /\ x.items = Slice(f)
                  /\ \A n \in 1..Len(Reply(f)) : n > r + 1 => f.offset + Passed(n) >= Total
             /\ ~ReplyComplete(x, chunk.count) => EntryHolds(x, r + 1)
<1> DEFINE f == e.fetch
           chunk == Nth(f, r + 1)
           x == Extend(e, chunk)
           F == FrameSamples
           W == Wanted(f)
           off == f.offset
           p == r * F
           q == (r + 1) * F
           count == chunk.count
           left == IF off + p >= Total THEN 0 ELSE Total - (off + p)
<1>1. /\ f \in Fetch /\ off \in Nat /\ Total \in Nat /\ F \in Nat /\ F > 0
  <2>1. f \in Fetch
    BY DEF Entries
  <2> QED
    BY <2>1, SocketConstants
<1>2. r + 1 \in 1..Len(Reply(f))
  BY StillOwed
<1>3. p \in Nat /\ q \in Nat /\ q = p + F /\ Passed(r + 1) = p
  <2>1. r + 1 - 1 = r /\ r + 1 \in Nat
    OBVIOUS
  <2>2. Passed(r + 1) = r * F
    BY <2>1 DEF Passed
  <2> QED
    BY <1>1, <2>2
<1>4. /\ W \in Nat /\ p <= W /\ chunk \in Frames /\ chunk.offset = off + p
      /\ count = Least(Least(W - p, F), left)
  <2>1. /\ Wanted(f) \in Nat /\ Passed(r + 1) <= Wanted(f) /\ Nth(f, r + 1) \in Frames
        /\ Nth(f, r + 1).offset = f.offset + Passed(r + 1)
        /\ Nth(f, r + 1).count =
             Least(Least(Wanted(f) - Passed(r + 1), FrameSamples),
                   IF f.offset + Passed(r + 1) >= Total THEN 0
                   ELSE Total - (f.offset + Passed(r + 1)))
    BY <1>1, <1>2, FrameHolds
  <2> QED
    BY <1>3, <2>1
<1>5. /\ Len(e.items) = p /\ e.next = off + p
      /\ r = 0 => e.frameSize = 0 /\ p = 0
      /\ r # 0 => e.frameSize = F /\ p < W /\ off + p < Total
  <2>1. r = 0 => p = 0
    BY <1>1
  <2> QED
    BY <2>1 DEF EntryHolds
<1>6. Answers(e, chunk)
  BY <1>4, <1>5 DEF Answers
<1>7. /\ x \in Entries /\ x.fetch = f /\ Follow(x.items, off)
      /\ Len(x.items) = p + count /\ x.next = off + (p + count)
      /\ x.frameSize = IF r = 0 THEN count ELSE F
  <2> HIDE DEF chunk
  <2>1. /\ x \in Entries /\ x.fetch = e.fetch /\ Follow(x.items, e.fetch.offset)
        /\ Len(x.items) = Len(e.items) + chunk.count
        /\ x.next = e.fetch.offset + Len(x.items)
        /\ x.frameSize = IF e.frameSize = 0 THEN chunk.count ELSE e.frameSize
    BY <1>4, <1>5, <1>6, ExtendFollows
  <2> HIDE DEF x
  <2> QED
    BY <1>1, <1>5, <2>1
<1>8. ReplyComplete(x, count) <=>
        \/ count = 0 \/ count < x.frameSize \/ p + count >= W \/ off + (p + count) >= Total
  <2>1. Least(f.limit, ClientCap) = W
    BY <1>1 DEF CapsAgree, Wanted
  <2> HIDE DEF x, count, W
  <2> QED
    BY <1>7, <2>1 DEF ReplyComplete
<1> HIDE DEF x, chunk, count, p, q, W, F, off, left, f
<1>9. /\ left \in Nat /\ (off + p >= Total => left = 0) /\ (off + p < Total => left = Total - (off + p))
  BY <1>1, <1>3 DEF left
<1>10. /\ count \in Nat /\ count <= F /\ count <= W - p /\ count <= left
       /\ (count = F \/ count = W - p \/ count = left)
  BY <1>1, <1>3, <1>4, <1>9 DEF Least
<1>11. ASSUME ReplyComplete(x, count)
       PROVE  x.items = Slice(f)
  <2>1. p + count = IF off >= Total THEN 0 ELSE Least(W, Total - off)
    <3>1. CASE r = 0
      <4>1. p = 0
        BY <1>5, <3>1
      <4>2. count = 0 \/ count >= W \/ off + count >= Total
        BY <1>1, <1>3, <1>7, <1>8, <1>10, <1>11, <3>1, <4>1
      <4>3. CASE off >= Total
        BY <1>1, <1>9, <1>10, <4>1, <4>3
      <4>4. CASE ~(off >= Total)
        <5>1. left = Total - off /\ left > 0
          BY <1>1, <1>9, <4>1, <4>4
        <5>2. count = Least(W, Total - off)
          BY <1>1, <1>4, <1>10, <4>1, <4>2, <5>1 DEF Least
        <5> QED
          BY <4>1, <4>4, <5>2, <1>10
      <4> QED
        BY <4>3, <4>4
    <3>2. CASE r # 0
      <4>1. p < W /\ off + p < Total /\ left = Total - (off + p) /\ left > 0
        BY <1>1, <1>3, <1>5, <1>9, <3>2
      <4>2. count < F \/ p + count >= W \/ off + (p + count) >= Total
        BY <1>1, <1>7, <1>8, <1>10, <1>11, <3>2
      <4>3. ~(off >= Total)
        BY <1>1, <1>3, <4>1
      <4>4. p + count = Least(W, Total - off)
        BY <1>1, <1>3, <1>4, <1>10, <4>1, <4>2 DEF Least
      <4> QED
        BY <4>3, <4>4
    <3> QED
      BY <3>1, <3>2
  <2>2. x.items \in Seq(Nat)
    BY <1>7 DEF Entries
  <2>3. Follow(x.items, f.offset) /\ Len(x.items) = IF f.offset >= Total THEN 0 ELSE Least(Wanted(f), Total - f.offset)
    BY <1>7, <2>1 DEF off, W
  <2> QED
    BY <1>1, <2>2, <2>3, WholeSlice
<1>12. ASSUME ReplyComplete(x, count), NEW n \in 1..Len(Reply(f)), n > r + 1
       PROVE  f.offset + Passed(n) >= Total
  <2>1. n \in Nat /\ n - 1 \in Nat /\ r + 1 <= n - 1 /\ n # 1
    BY <1>1, <1>12, ReplyFrames
  <2>2. GoesOn(f, n - 1)
    BY <1>1, <1>12, <2>1, ReplyFrames
  <2>3. (n - 1) * F \in Nat /\ q <= (n - 1) * F
    <3>1. r + 1 \in Nat
      OBVIOUS
    <3> QED
      BY <2>1, <3>1, ProductsGrow DEF F, q
  <2>4. (n - 1) * F < W
    BY <2>2 DEF GoesOn, F, W
  <2>5. Passed(n) = (n - 1) * F
    BY DEF Passed, F
  <2> DEFINE z == (n - 1) * F
  <2> HIDE DEF z
  <2>6. z \in Nat /\ q <= z /\ z < W /\ Passed(n) = z
    BY <2>3, <2>4, <2>5 DEF z
  <2>7. off + z >= Total
    <3>1. CASE off + p >= Total
      BY <1>1, <1>3, <2>6, <3>1
    <3>2. CASE off + p < Total
      <4>1. left > 0 /\ left = Total - (off + p)
        BY <1>1, <1>3, <1>9, <3>2
      <4>2. count # W - p /\ p + count < W
        BY <1>1, <1>3, <1>4, <1>10, <2>6
      <4>3. count < F \/ off + (p + count) >= Total
        <5>1. CASE r = 0
          BY <1>1, <1>3, <1>4, <1>7, <1>8, <1>10, <1>12, <4>2, <5>1, <4>1
        <5>2. CASE r # 0
          BY <1>1, <1>3, <1>4, <1>7, <1>8, <1>10, <1>12, <4>2, <5>2, <4>1
        <5> QED
          BY <5>1, <5>2
      <4> QED
        BY SMTT(30), <1>1, <1>3, <1>4, <1>10, <2>6, <4>1, <4>2, <4>3
    <3> QED
      BY <1>1, <1>3, <3>1, <3>2
  <2> QED
    BY <2>6, <2>7 DEF off
<1>13. ASSUME ~ReplyComplete(x, count) PROVE EntryHolds(x, r + 1)
  <2>1. count # 0 /\ ~(count < x.frameSize) /\ p + count < W /\ off + (p + count) < Total
    BY <1>1, <1>3, <1>4, <1>8, <1>10, <1>13
  <2>2. count = F
    BY <1>1, <1>3, <1>4, <1>9, <1>10, <2>1
  <2>3. x.frameSize = F /\ Len(x.items) = q /\ x.next = off + q /\ q < W /\ off + q < Total
    BY <1>3, <1>7, <2>1, <2>2
  <2>4. r + 1 # 0
    OBVIOUS
  <2> QED
    BY <1>7, <2>3, <2>4 DEF EntryHolds, q, F, W, off
<1> QED
  BY <1>6, <1>11, <1>12, <1>13 DEF x, chunk, count, f

(* A frame from beyond the channel: only a fetch from beyond it takes it,   *)
(* and is complete and empty.                                               *)
LEMMA SpentFrame ==
  ASSUME CapsAgree, NEW e \in Entries, NEW r \in Nat, EntryHolds(e, r),
         NEW chunk \in Frames, chunk.offset >= Total, chunk.count = 0, Answers(e, chunk)
  PROVE  LET x == Extend(e, chunk)
         IN  /\ ReplyComplete(x, chunk.count)
             /\ x.items = Slice(e.fetch) /\ e.fetch.offset >= Total
<1> DEFINE x == Extend(e, chunk)
<1>1. /\ e.fetch \in Fetch /\ e.fetch.offset \in Nat /\ Total \in Nat /\ e.items \in Seq(Nat)
  <2>1. e.fetch \in Fetch /\ e.items \in Seq(Nat)
    BY DEF Entries
  <2> QED
    BY <2>1, SocketConstants
<1>2. e.next = chunk.offset
  BY DEF Answers
<1>3. r = 0
  BY <1>1, <1>2 DEF EntryHolds
<1>4. 0 * FrameSamples = 0
  BY SocketConstants
<1>5. Len(e.items) = 0 /\ e.next = e.fetch.offset
  BY <1>1, <1>3, <1>4 DEF EntryHolds
<1>6. Follow(e.items, e.fetch.offset) /\ e.next = e.fetch.offset + Len(e.items)
  BY <1>1, <1>5 DEF Follow
<1>7. x \in Entries /\ Follow(x.items, e.fetch.offset) /\ Len(x.items) = 0
  <2>1. /\ x \in Entries /\ Follow(x.items, e.fetch.offset)
        /\ Len(x.items) = Len(e.items) + chunk.count
    BY <1>6, ExtendFollows
  <2> HIDE DEF x
  <2> QED
    BY <1>5, <2>1
<1>8. e.fetch.offset >= Total
  BY <1>2, <1>5
<1> HIDE DEF x
<1>9. x.items \in Seq(Nat)
  BY <1>7 DEF Entries
<1>10. x.items = Slice(e.fetch)
  BY <1>1, <1>7, <1>8, <1>9, WholeSlice
<1>11. ReplyComplete(x, chunk.count)
  BY DEF ReplyComplete
<1> QED
  BY <1>8, <1>10, <1>11 DEF x

-----------------------------------------------------------------------------
(* What is under way is what is waited for.                                 *)

(* What is under way to the client: s, the frames on the connection, and w, *)
(* the messages that the server is still to read.  own: the fetch a chunk   *)
(* frame belongs to, and its rank in the reply; taken: how many frames of   *)
(* its reply an entry has.                                                  *)
ChunksOf(s) == {i \in 1..Len(s) : s[i].kind = "chunk"}
AsksOf(w) == {u \in 1..Len(w) : w[u].kind = "fetch"}

(* Every frame is one of a reply; those of a fetch that is settled are from *)
(* beyond the channel; and those of one reply are in order.                 *)
FramesOwned(s, st, own) ==
  /\ \A i \in ChunksOf(s) :
       /\ own[i].fetch \in Fetch /\ own[i].rank \in 1..Len(Reply(own[i].fetch))
       /\ s[i] = Nth(own[i].fetch, own[i].rank)
       /\ st[own[i].fetch] # "idle"
       /\ st[own[i].fetch] # "pending" => own[i].fetch.offset + Passed(own[i].rank) >= Total
  /\ \A i, j \in ChunksOf(s) :
       i < j /\ own[i].fetch = own[j].fetch => own[i].rank < own[j].rank

(* What the server is still to read it has not answered.                    *)
AsksOwned(s, w, st, own) ==
  /\ \A u \in AsksOf(w) :
       /\ w[u].fetch \in Fetch /\ st[w[u].fetch] # "idle"
       /\ st[w[u].fetch] # "pending" => w[u].fetch.offset >= Total
       /\ \A i \in ChunksOf(s) : own[i].fetch # w[u].fetch
  /\ \A u, v \in AsksOf(w) : w[u].fetch = w[v].fetch => u = v

(* What an entry still has to take is under way, all of it.                 *)
Awaited(s, w, f, r, own) ==
  \/ r = 0 /\ \E u \in AsksOf(w) : w[u].fetch = f
  \/ /\ \A n \in r + 1..Len(Reply(f)) :
          \E i \in ChunksOf(s) : own[i].fetch = f /\ own[i].rank = n
     /\ \A i \in ChunksOf(s) : own[i].fetch = f => own[i].rank > r

(* What is f's comes before what is g's.                                    *)
Before(s, w, f, g, own) ==
  /\ \A i, j \in ChunksOf(s) : own[i].fetch = f /\ own[j].fetch = g => i < j
  /\ \A u \in AsksOf(w), j \in ChunksOf(s) : w[u].fetch = f => own[j].fetch # g
  /\ \A u, v \in AsksOf(w) : w[u].fetch = f /\ w[v].fetch = g => u < v

Road(s, w, p, st, own, taken) ==
  /\ FramesOwned(s, st, own) /\ AsksOwned(s, w, st, own)
  /\ \A k \in 1..Len(p) :
       /\ taken[p[k].fetch] \in Nat /\ EntryHolds(p[k], taken[p[k].fetch])
       /\ Awaited(s, w, p[k].fetch, taken[p[k].fetch], own)
  /\ \A k, m \in 1..Len(p) : k < m => Before(s, w, p[k].fetch, p[m].fetch, own)

(* The entries are the promises that are pending.                           *)
Promised(p, st) ==
  /\ p \in Seq(Entries)
  /\ \A k \in 1..Len(p) : p[k] \in Entries /\ p[k].fetch \in Fetch /\ st[p[k].fetch] = "pending"
  /\ \A f \in Fetch : st[f] = "pending" => \E k \in 1..Len(p) : p[k].fetch = f
  /\ \A k, m \in 1..Len(p) : p[k].fetch = p[m].fetch => k = m

(* Frames and messages that move, come or go without a change to the order  *)
(* of those that matter: a and b tell where they were.                      *)
Moved(s, w, s2, w2, st, own, a, b) ==
  /\ \A i \in ChunksOf(s2) : a[i] \in ChunksOf(s) /\ s2[i] = s[a[i]]
  /\ \A i, j \in ChunksOf(s2) : (i < j) <=> (a[i] < a[j])
  /\ \A i \in ChunksOf(s) : st[own[i].fetch] = "pending" => \E j \in ChunksOf(s2) : a[j] = i
  /\ \A u \in AsksOf(w2) : b[u] \in AsksOf(w) /\ w2[u] = w[b[u]]
  /\ \A u, v \in AsksOf(w2) : (u < v) <=> (b[u] < b[v])
  /\ \A u, v \in AsksOf(w2) : b[u] = b[v] => u = v
  /\ \A u \in AsksOf(w) : st[w[u].fetch] = "pending" => \E v \in AsksOf(w2) : b[v] = u

LEMMA RoadMoves ==
  ASSUME NEW s, NEW w, NEW s2, NEW w2, NEW p, NEW st, NEW own, NEW taken, NEW a, NEW b,
         Promised(p, st), Road(s, w, p, st, own, taken),
         Moved(s, w, s2, w2, st, own, a, b)
  PROVE  \E own2 : Road(s2, w2, p, st, own2, taken)
<1> DEFINE own2 == [i \in 1..Len(s2) |-> own[a[i]]]
<1>1. \A i \in ChunksOf(s2) : own2[i] = own[a[i]]
  BY DEF ChunksOf
<1> HIDE DEF own2
<1>0. /\ \A i \in ChunksOf(s2) : a[i] \in ChunksOf(s) /\ s2[i] = s[a[i]]
      /\ \A i, j \in ChunksOf(s2) : (i < j) <=> (a[i] < a[j])
      /\ \A i \in ChunksOf(s) : st[own[i].fetch] = "pending" => \E j \in ChunksOf(s2) : a[j] = i
      /\ \A u \in AsksOf(w2) : b[u] \in AsksOf(w) /\ w2[u] = w[b[u]]
      /\ \A u, v \in AsksOf(w2) : (u < v) <=> (b[u] < b[v])
      /\ \A u, v \in AsksOf(w2) : b[u] = b[v] => u = v
      /\ \A u \in AsksOf(w) : st[w[u].fetch] = "pending" => \E v \in AsksOf(w2) : b[v] = u
  BY DEF Moved
<1>2. FramesOwned(s2, st, own2)
  BY <1>0, <1>1 DEF Road, FramesOwned
<1>3. AsksOwned(s2, w2, st, own2)
  BY <1>0, <1>1 DEF Road, AsksOwned
<1>4. ASSUME NEW k \in 1..Len(p)
      PROVE  /\ taken[p[k].fetch] \in Nat /\ EntryHolds(p[k], taken[p[k].fetch])
             /\ Awaited(s2, w2, p[k].fetch, taken[p[k].fetch], own2)
  <2> DEFINE f == p[k].fetch
             r == taken[f]
  <2>1. Awaited(s, w, f, r, own) /\ r \in Nat /\ EntryHolds(p[k], r) /\ st[f] = "pending"
    BY DEF Road, Promised
  <2> HIDE DEF f, r
  <2>2. CASE r = 0 /\ \E u \in AsksOf(w) : w[u].fetch = f
    <3>1. PICK u \in AsksOf(w) : w[u].fetch = f
      BY <2>2
    <3>2. PICK v \in AsksOf(w2) : b[v] = u
      BY <1>0, <2>1, <3>1
    <3>3. w2[v].fetch = f
      BY <1>0, <3>1, <3>2
    <3> QED
      BY <2>1, <2>2, <3>3 DEF Awaited, f, r
  <2>3. CASE /\ \A n \in r + 1..Len(Reply(f)) :
                  \E i \in ChunksOf(s) : own[i].fetch = f /\ own[i].rank = n
             /\ \A i \in ChunksOf(s) : own[i].fetch = f => own[i].rank > r
    <3>1. ASSUME NEW n \in r + 1..Len(Reply(f))
          PROVE  \E i \in ChunksOf(s2) : own2[i].fetch = f /\ own2[i].rank = n
      <4>1. PICK i \in ChunksOf(s) : own[i].fetch = f /\ own[i].rank = n
        BY <2>3
      <4>2. PICK j \in ChunksOf(s2) : a[j] = i
        BY <1>0, <2>1, <4>1
      <4> QED
        BY <1>0, <1>1, <4>1, <4>2
    <3>2. \A i \in ChunksOf(s2) : own2[i].fetch = f => own2[i].rank > r
      BY <1>0, <1>1, <2>3
    <3> QED
      BY <2>1, <3>1, <3>2 DEF Awaited, f, r
  <2> QED
    BY <2>1, <2>2, <2>3 DEF Awaited
<1>5. ASSUME NEW k \in 1..Len(p), NEW m \in 1..Len(p), k < m
      PROVE  Before(s2, w2, p[k].fetch, p[m].fetch, own2)
  <2>1. Before(s, w, p[k].fetch, p[m].fetch, own)
    BY <1>5 DEF Road
  <2> QED
    BY <1>0, <1>1, <2>1 DEF Before
<1>6. Road(s2, w2, p, st, own2, taken)
  BY <1>2, <1>3, <1>4, <1>5 DEF Road
<1> QED
  BY <1>6

(* The server answers the first message it is to read.                      *)
LEMMA RoadAnswers ==
  ASSUME NEW s \in Seq(Frames), NEW w \in Seq(Messages), NEW p, NEW st, NEW own, NEW taken,
         Promised(p, st), Road(s, w, p, st, own, taken), w # <<>>, Head(w).kind = "fetch",
         NEW s2, s2 = s \o Reply(Head(w).fetch)
  PROVE  \E own2 : Road(s2, Tail(w), p, st, own2, taken)
<1> DEFINE f == Head(w).fetch
           n == Len(s)
           z == Len(Reply(f))
           w2 == Tail(w)
           own2 == [i \in 1..Len(s2) |-> IF i <= n THEN own[i] ELSE [fetch |-> f, rank |-> i - n]]
<1>1. /\ w \in Seq(Messages) /\ w2 \in Seq(Messages) /\ Len(w2) = Len(w) - 1 /\ Len(w) \in Nat
      /\ Len(w) # 0 /\ Head(w) = w[1] /\ \A u \in 1..Len(w2) : w2[u] = w[u + 1]
  BY HeadTailProperties
<1>2. 1 \in AsksOf(w) /\ w[1].fetch = f
  BY <1>1 DEF AsksOf
<1>3. f \in Fetch
  BY <1>2 DEF Road, AsksOwned
<1>4. Reply(f) \in Seq(Frames) /\ z \in Nat \ {0} /\ n \in Nat
  BY <1>3, ReplyTyped, ReplyFrames
<1>5. /\ Len(s2) = n + z
      /\ \A i \in 1..n : s2[i] = s[i]
      /\ \A i \in 1..Len(s2) : ~(i <= n) => i - n \in 1..z /\ s2[i] = Reply(f)[i - n]
  <2> DEFINE t == Reply(f)
  <2>1. t \in Seq(Frames) /\ s2 = s \o t /\ z = Len(t)
    BY <1>4
  <2> HIDE DEF t, z, f
  <2>2. /\ Len(s2) = Len(s) + Len(t)
        /\ \A i \in 1..Len(s) + Len(t) : s2[i] = IF i <= Len(s) THEN s[i] ELSE t[i - Len(s)]
    BY ZenonT(60), <2>1, ConcatProperties
  <2> QED
    BY <1>4, <2>1, <2>2 DEF t
<1> HIDE DEF f, w2
<1>6. \A k \in 1..z : Nth(f, k).kind = "chunk" /\ Reply(f)[k] = Nth(f, k)
  BY <1>3, FrameHolds DEF z
<1> HIDE DEF z, n
<1>7. \A i \in ChunksOf(s2) :
        \/ i <= n /\ i \in ChunksOf(s) /\ own2[i] = own[i] /\ s2[i] = s[i]
        \/ /\ ~(i <= n) /\ i - n \in 1..z /\ s2[i] = Nth(f, i - n)
           /\ own2[i].fetch = f /\ own2[i].rank = i - n
  <2> SUFFICES ASSUME NEW i \in ChunksOf(s2)
               PROVE  \/ i <= n /\ i \in ChunksOf(s) /\ own2[i] = own[i] /\ s2[i] = s[i]
                      \/ /\ ~(i <= n) /\ i - n \in 1..z /\ s2[i] = Nth(f, i - n)
                         /\ own2[i].fetch = f /\ own2[i].rank = i - n
    OBVIOUS
  <2>1. i \in 1..Len(s2) /\ s2[i].kind = "chunk"
    BY DEF ChunksOf
  <2>2. CASE i <= n
    <3>1. i \in 1..n /\ i \in 1..Len(s)
      BY <1>4, <1>5, <2>1, <2>2 DEF n
    <3> QED
      BY <1>5, <2>1, <2>2, <3>1 DEF ChunksOf
  <2>3. CASE ~(i <= n)
    BY <1>5, <1>6, <2>1, <2>3
  <2> QED
    BY <2>2, <2>3
<1>8. \A i \in ChunksOf(s) : i <= n /\ i \in ChunksOf(s2) /\ own2[i] = own[i]
  <2> SUFFICES ASSUME NEW i \in ChunksOf(s) PROVE i <= n /\ i \in ChunksOf(s2) /\ own2[i] = own[i]
    OBVIOUS
  <2>1. i \in 1..n /\ i \in 1..Len(s2) /\ s[i].kind = "chunk"
    BY <1>4, <1>5 DEF ChunksOf, n
  <2> QED
    BY <1>5, <2>1 DEF ChunksOf
<1>9. \A k \in 1..z : n + k \in ChunksOf(s2) /\ own2[n + k].fetch = f /\ own2[n + k].rank = k
  <2> SUFFICES ASSUME NEW k \in 1..z
               PROVE  n + k \in ChunksOf(s2) /\ own2[n + k].fetch = f /\ own2[n + k].rank = k
    OBVIOUS
  <2> DEFINE i == n + k
  <2>1. i \in 1..Len(s2) /\ ~(i <= n) /\ i - n = k
    BY <1>4, <1>5
  <2> HIDE DEF i
  <2>2. s2[i] = Nth(f, k) /\ Nth(f, k).kind = "chunk"
    BY <1>5, <1>6, <2>1
  <2>3. i \in ChunksOf(s2)
    BY <2>1, <2>2 DEF ChunksOf
  <2>4. own2[i] = [fetch |-> f, rank |-> i - n]
    BY <2>1
  <2>5. own2[i].fetch = f /\ own2[i].rank = k
    BY <2>1, <2>4
  <2> QED
    BY <2>3, <2>5 DEF i
<1>10. \A u \in AsksOf(w2) : u + 1 \in AsksOf(w) /\ w2[u] = w[u + 1] /\ u + 1 # 1 /\ u \in Nat
  BY <1>1 DEF AsksOf
<1>11. \A u \in AsksOf(w) : u # 1 => u - 1 \in AsksOf(w2) /\ w2[u - 1] = w[u]
  <2> SUFFICES ASSUME NEW u \in AsksOf(w), u # 1 PROVE u - 1 \in AsksOf(w2) /\ w2[u - 1] = w[u]
    OBVIOUS
  <2>1. u - 1 \in 1..Len(w2) /\ u - 1 + 1 = u /\ w[u].kind = "fetch"
    BY <1>1 DEF AsksOf
  <2>2. w2[u - 1] = w[u]
    BY <1>1, <2>1
  <2> QED
    BY <2>1, <2>2 DEF AsksOf
<1> HIDE DEF own2
<1>12. /\ FramesOwned(s, st, own) /\ AsksOwned(s, w, st, own)
       /\ st[f] # "idle" /\ (st[f] # "pending" => f.offset >= Total)
       /\ \A i \in ChunksOf(s) : own[i].fetch # f
  BY <1>2 DEF Road, AsksOwned
<1>13. FramesOwned(s2, st, own2)
  <2>1. ASSUME NEW i \in ChunksOf(s2)
        PROVE  /\ own2[i].fetch \in Fetch /\ own2[i].rank \in 1..Len(Reply(own2[i].fetch))
               /\ s2[i] = Nth(own2[i].fetch, own2[i].rank)
               /\ st[own2[i].fetch] # "idle"
               /\ st[own2[i].fetch] # "pending" =>
                    own2[i].fetch.offset + Passed(own2[i].rank) >= Total
    <3>1. CASE i <= n /\ i \in ChunksOf(s) /\ own2[i] = own[i] /\ s2[i] = s[i]
      BY <1>12, <3>1 DEF FramesOwned
    <3>2. CASE /\ ~(i <= n) /\ i - n \in 1..z /\ s2[i] = Nth(f, i - n)
               /\ own2[i].fetch = f /\ own2[i].rank = i - n
      <4>1. Passed(i - n) \in Nat /\ f.offset \in Nat /\ Total \in Nat
        BY <1>3, <3>2, FrameHolds, SocketConstants DEF z
      <4>2. st[f] # "idle" /\ (st[f] # "pending" => f.offset + Passed(i - n) >= Total)
        BY <1>12, <4>1
      <4>3. i - n \in 1..Len(Reply(f))
        BY <3>2 DEF z
      <4> QED
        BY <1>3, <3>2, <4>2, <4>3
    <3> QED
      BY <1>7, <3>1, <3>2
  <2>2. ASSUME NEW i \in ChunksOf(s2), NEW j \in ChunksOf(s2), i < j,
               own2[i].fetch = own2[j].fetch
        PROVE  own2[i].rank < own2[j].rank
    <3>0. i \in Nat /\ j \in Nat
      BY DEF ChunksOf
    <3>1. CASE j <= n
      <4>1. i <= n
        BY <1>4, <2>2, <3>0, <3>1
      <4> QED
        BY <1>7, <1>12, <2>2, <3>1, <4>1 DEF FramesOwned
    <3>2. CASE ~(j <= n) /\ i <= n
      BY <1>7, <1>12, <2>2, <3>2
    <3>3. CASE ~(j <= n) /\ ~(i <= n)
      <4>1. own2[i].rank = i - n /\ own2[j].rank = j - n
        BY <1>7, <3>3
      <4> QED
        BY <1>4, <2>2, <3>0, <4>1
    <3> QED
      BY <3>1, <3>2, <3>3
  <2> QED
    BY <2>1, <2>2 DEF FramesOwned
<1>14. AsksOwned(s2, w2, st, own2)
  <2>1. ASSUME NEW u \in AsksOf(w2)
        PROVE  /\ w2[u].fetch \in Fetch /\ st[w2[u].fetch] # "idle"
               /\ st[w2[u].fetch] # "pending" => w2[u].fetch.offset >= Total
               /\ \A i \in ChunksOf(s2) : own2[i].fetch # w2[u].fetch
    <3>1. u + 1 \in AsksOf(w) /\ w2[u] = w[u + 1] /\ u + 1 # 1
      BY <1>10
    <3>2. w[u + 1].fetch # f
      BY <1>2, <1>12, <3>1 DEF AsksOwned
    <3> QED
      BY SMTT(30), <1>7, <1>12, <3>1, <3>2 DEF AsksOwned
  <2>2. ASSUME NEW u \in AsksOf(w2), NEW v \in AsksOf(w2), w2[u].fetch = w2[v].fetch
        PROVE  u = v
    <3>1. u + 1 = v + 1 /\ u \in Nat /\ v \in Nat
      BY <1>10, <1>12, <2>2 DEF AsksOwned
    <3> QED
      BY <3>1
  <2> QED
    BY <2>1, <2>2 DEF AsksOwned
<1>15. ASSUME NEW k \in 1..Len(p)
       PROVE  /\ taken[p[k].fetch] \in Nat /\ EntryHolds(p[k], taken[p[k].fetch])
              /\ Awaited(s2, w2, p[k].fetch, taken[p[k].fetch], own2)
  <2> DEFINE g == p[k].fetch
             r == taken[g]
  <2>1. Awaited(s, w, g, r, own) /\ r \in Nat /\ EntryHolds(p[k], r)
    BY DEF Road
  <2> HIDE DEF g, r
  <2>2. CASE r = 0 /\ \E u \in AsksOf(w) : w[u].fetch = g
    <3>1. PICK u \in AsksOf(w) : w[u].fetch = g
      BY <2>2
    <3>2. CASE u = 1
      <4>1. g = f
        BY <1>2, <3>1, <3>2
      <4>2. \A m \in r + 1..Len(Reply(g)) :
              \E i \in ChunksOf(s2) : own2[i].fetch = g /\ own2[i].rank = m
        <5>1. ASSUME NEW m \in r + 1..Len(Reply(g)) PROVE m \in 1..z
          BY <2>2, <4>1 DEF z
        <5> QED
          BY <1>9, <4>1, <5>1
      <4>3. \A i \in ChunksOf(s2) : own2[i].fetch = g => own2[i].rank > r
        <5>1. ASSUME NEW i \in ChunksOf(s2), own2[i].fetch = g PROVE own2[i].rank > r
          <6>1. own2[i].rank \in 1..z
            BY <1>7, <1>12, <4>1, <5>1
          <6> QED
            BY <1>4, <2>2, <6>1
        <5> QED
          BY <5>1
      <4> QED
        BY <2>1, <4>2, <4>3 DEF Awaited, g, r
    <3>3. CASE u # 1
      <4>1. u - 1 \in AsksOf(w2) /\ w2[u - 1].fetch = g
        BY <1>11, <3>1, <3>3
      <4> QED
        BY <2>1, <2>2, <4>1 DEF Awaited, g, r
    <3> QED
      BY <3>2, <3>3
  <2>3. CASE /\ \A m \in r + 1..Len(Reply(g)) :
                  \E i \in ChunksOf(s) : own[i].fetch = g /\ own[i].rank = m
             /\ \A i \in ChunksOf(s) : own[i].fetch = g => own[i].rank > r
    <3>1. g # f
      <4>1. p[k] \in Entries
        BY DEF Promised
      <4>2. r + 1 \in 1..Len(Reply(g)) /\ Len(Reply(g)) \in Nat
        <5>1. r + 1 \in 1..Len(Reply(g))
          BY <2>1, <4>1, StillOwed DEF g
        <5>2. g \in Fetch
          BY DEF Promised, g
        <5> QED
          BY <5>1, <5>2, ReplyFrames
      <4>3. r + 1 \in r + 1..Len(Reply(g))
        BY <2>1, <4>2
      <4>4. PICK i \in ChunksOf(s) : own[i].fetch = g
        BY <2>3, <4>3
      <4> QED
        BY <1>12, <4>4
    <3>2. \A m \in r + 1..Len(Reply(g)) :
            \E i \in ChunksOf(s2) : own2[i].fetch = g /\ own2[i].rank = m
      BY <1>8, <2>3
    <3>3. \A i \in ChunksOf(s2) : own2[i].fetch = g => own2[i].rank > r
      BY <1>7, <2>3, <3>1
    <3> QED
      BY <2>1, <3>2, <3>3 DEF Awaited, g, r
  <2> QED
    BY <2>1, <2>2, <2>3 DEF Awaited
<1>16. ASSUME NEW k \in 1..Len(p), NEW m \in 1..Len(p), k < m
       PROVE  Before(s2, w2, p[k].fetch, p[m].fetch, own2)
  <2> DEFINE g == p[k].fetch
             h == p[m].fetch
  <2>1. Before(s, w, g, h, own) /\ g # h
    <3>1. p \in Seq(Entries) /\ k # m
      BY <1>16 DEF Promised
    <3> QED
      BY <1>16, <3>1 DEF Road, Promised
  <2> HIDE DEF g, h
  <2>2. ASSUME NEW i \in ChunksOf(s2), NEW j \in ChunksOf(s2), own2[i].fetch = g, own2[j].fetch = h
        PROVE  i < j
    <3>0. i \in Nat /\ j \in Nat
      BY DEF ChunksOf
    <3>1. CASE i <= n /\ j <= n
      BY <1>7, <2>1, <2>2, <3>1 DEF Before
    <3>2. CASE i <= n /\ ~(j <= n)
      BY <1>4, <3>0, <3>2
    <3>3. CASE ~(i <= n) /\ j <= n
      <4>1. g = f /\ j \in ChunksOf(s) /\ own[j].fetch = h
        BY <1>7, <2>2, <3>3
      <4> QED
        BY <1>2, <2>1, <4>1 DEF Before
    <3>4. CASE ~(i <= n) /\ ~(j <= n)
      BY <1>7, <2>1, <2>2, <3>4
    <3> QED
      BY <3>1, <3>2, <3>3, <3>4
  <2>3. ASSUME NEW u \in AsksOf(w2), NEW j \in ChunksOf(s2), w2[u].fetch = g
        PROVE  own2[j].fetch # h
    <3>1. u + 1 \in AsksOf(w) /\ w[u + 1].fetch = g /\ ~(u + 1 < 1)
      BY <1>10, <2>3
    <3>2. CASE j <= n
      BY <1>7, <2>1, <3>1, <3>2 DEF Before
    <3>3. CASE ~(j <= n)
      <4>1. own2[j].fetch = f
        BY <1>7, <3>3
      <4> QED
        BY <1>2, <2>1, <3>1, <4>1 DEF Before
    <3> QED
      BY <3>2, <3>3
  <2>4. ASSUME NEW u \in AsksOf(w2), NEW v \in AsksOf(w2), w2[u].fetch = g, w2[v].fetch = h
        PROVE  u < v
    <3>1. u + 1 \in AsksOf(w) /\ w[u + 1].fetch = g /\ v + 1 \in AsksOf(w) /\ w[v + 1].fetch = h
          /\ u \in Nat /\ v \in Nat
      BY <1>10, <2>4
    <3>2. u + 1 < v + 1
      BY <2>1, <3>1 DEF Before
    <3> QED
      BY <3>1, <3>2
  <2> QED
    BY <2>2, <2>3, <2>4 DEF Before, g, h
<1>17. Road(s2, w2, p, st, own2, taken)
  BY <1>13, <1>14, <1>15, <1>16 DEF Road
<1> QED
  BY <1>17 DEF w2

(* The client asks, on a connection or for the next one.                    *)
LEMMA RoadAsks ==
  ASSUME NEW s \in Seq(Frames), NEW w \in Seq(Messages), NEW p, NEW st, NEW own, NEW taken,
         NEW f \in Fetch, st \in [Fetch -> {"idle", "pending", "resolved", "rejected"}],
         Promised(p, st), Road(s, w, p, st, own, taken), st[f] = "idle",
         NEW e \in Entries, e.fetch = f, EntryHolds(e, 0)
  PROVE  \E taken2 : Road(s, Append(w, [kind |-> "fetch", fetch |-> f]), Append(p, e),
                          [st EXCEPT ![f] = "pending"], own, taken2)
<1> DEFINE msg == [kind |-> "fetch", fetch |-> f]
           w2 == Append(w, msg)
           p2 == Append(p, e)
           st2 == [st EXCEPT ![f] = "pending"]
           taken2 == [g \in Fetch |-> IF g = f THEN 0 ELSE taken[g]]
           z == Len(w) + 1
           y == Len(p) + 1
<1>1. /\ w2 \in Seq(Messages) /\ Len(w2) = Len(w) + 1
      /\ \A u \in 1..Len(w) : w2[u] = w[u]
      /\ w2[Len(w) + 1] = msg
  <2>1. msg \in Messages
    BY DEF Messages, Asking
  <2> HIDE DEF msg
  <2> QED
    BY <2>1, AppendProperties
<1>2. /\ p \in Seq(Entries) /\ Len(p2) = Len(p) + 1 /\ \A k \in 1..Len(p) : p2[k] = p[k]
      /\ p2[Len(p) + 1] = e
  <2>1. p \in Seq(Entries)
    BY DEF Promised
  <2> QED
    BY <2>1, AppendProperties
<1>3. Len(w) \in Nat /\ Len(p) \in Nat /\ z \in Nat /\ y \in Nat
  BY <1>2
<1>4. /\ \A g \in Fetch : st2[g] = IF g = f THEN "pending" ELSE st[g]
      /\ \A g \in Fetch : taken2[g] = IF g = f THEN 0 ELSE taken[g]
  OBVIOUS
<1>5. msg.kind = "fetch" /\ msg.fetch = f
  OBVIOUS
<1>6. Len(w2) = z /\ w2[z] = msg /\ Len(p2) = y /\ p2[y] = e
  BY <1>1, <1>2
<1> HIDE DEF msg, w2, p2, st2, taken2
<1>7. \A u \in AsksOf(w) : u \in 1..Len(w) /\ u < z /\ u \in AsksOf(w2) /\ w2[u] = w[u]
  <2> SUFFICES ASSUME NEW u \in AsksOf(w)
               PROVE  u \in 1..Len(w) /\ u < z /\ u \in AsksOf(w2) /\ w2[u] = w[u]
    OBVIOUS
  <2>1. u \in 1..Len(w) /\ u < z /\ u \in 1..Len(w2) /\ w[u].kind = "fetch"
    BY <1>1, <1>3 DEF AsksOf
  <2> QED
    BY <1>1, <2>1 DEF AsksOf
<1>8. z \in AsksOf(w2) /\ w2[z].fetch = f
  BY <1>3, <1>5, <1>6 DEF AsksOf
<1>9. \A u \in AsksOf(w2) : u = z \/ u \in AsksOf(w)
  <2> SUFFICES ASSUME NEW u \in AsksOf(w2), u # z PROVE u \in AsksOf(w)
    OBVIOUS
  <2>1. u \in 1..Len(w) /\ w2[u].kind = "fetch"
    BY <1>3, <1>6 DEF AsksOf
  <2> QED
    BY <1>1, <2>1 DEF AsksOf
<1> HIDE DEF z, y
<1>10. /\ \A i \in ChunksOf(s) : own[i].fetch \in Fetch /\ own[i].fetch # f
       /\ \A u \in AsksOf(w) : w[u].fetch \in Fetch /\ w[u].fetch # f
       /\ \A k \in 1..Len(p) : p[k].fetch \in Fetch /\ p[k].fetch # f
  BY DEF Road, FramesOwned, AsksOwned, Promised
<1>11. FramesOwned(s, st2, own)
  BY <1>4, <1>10 DEF Road, FramesOwned
<1>12. AsksOwned(s, w2, st2, own)
  <2>1. ASSUME NEW u \in AsksOf(w2)
        PROVE  /\ w2[u].fetch \in Fetch /\ st2[w2[u].fetch] # "idle"
               /\ st2[w2[u].fetch] # "pending" => w2[u].fetch.offset >= Total
               /\ \A i \in ChunksOf(s) : own[i].fetch # w2[u].fetch
    <3>1. CASE u = z
      BY <1>4, <1>8, <1>10, <3>1
    <3>2. CASE u \in AsksOf(w)
      <4>1. w2[u] = w[u]
        BY <1>7, <3>2
      <4> QED
        BY <1>4, <1>10, <3>2, <4>1 DEF Road, AsksOwned
    <3> QED
      BY <1>9, <3>1, <3>2
  <2>2. ASSUME NEW u \in AsksOf(w2), NEW v \in AsksOf(w2), w2[u].fetch = w2[v].fetch
        PROVE  u = v
    <3>1. CASE u \in AsksOf(w) /\ v \in AsksOf(w)
      BY <1>7, <2>2, <3>1 DEF Road, AsksOwned
    <3>2. CASE u = z \/ v = z
      BY <1>7, <1>8, <1>9, <1>10, <2>2, <3>2
    <3> QED
      BY <1>9, <3>1, <3>2
  <2> QED
    BY <2>1, <2>2 DEF AsksOwned
<1>13. ASSUME NEW k \in 1..Len(p2)
       PROVE  \/ k = y /\ p2[k] = e
              \/ k \in 1..Len(p) /\ p2[k] = p[k] /\ k < y
  BY <1>2, <1>3, <1>6 DEF y
<1>14. ASSUME NEW k \in 1..Len(p2)
       PROVE  /\ taken2[p2[k].fetch] \in Nat /\ EntryHolds(p2[k], taken2[p2[k].fetch])
              /\ Awaited(s, w2, p2[k].fetch, taken2[p2[k].fetch], own)
  <2>1. CASE p2[k] = e
    <3>1. taken2[f] = 0
      BY <1>4
    <3>2. Awaited(s, w2, f, 0, own)
      BY <1>8 DEF Awaited
    <3> QED
      BY <2>1, <3>1, <3>2
  <2>2. CASE k \in 1..Len(p) /\ p2[k] = p[k]
    <3> DEFINE g == p[k].fetch
               r == taken[g]
    <3>1. Awaited(s, w, g, r, own) /\ r \in Nat /\ EntryHolds(p[k], r) /\ g \in Fetch /\ g # f
      BY <1>10, <2>2 DEF Road
    <3>2. taken2[g] = r
      BY <1>4, <3>1
    <3> HIDE DEF g, r
    <3>3. Awaited(s, w2, g, r, own)
      BY <1>7, <3>1 DEF Awaited
    <3> QED
      BY <2>2, <3>1, <3>2, <3>3 DEF g
  <2> QED
    BY <1>13, <2>1, <2>2
<1>15. ASSUME NEW k \in 1..Len(p2), NEW m \in 1..Len(p2), k < m
       PROVE  Before(s, w2, p2[k].fetch, p2[m].fetch, own)
  <2>0. k \in 1..Len(p) /\ p2[k] = p[k]
    BY <1>3, <1>6, <1>13, <1>15
  <2> DEFINE g == p[k].fetch
  <2>1. CASE m \in 1..Len(p) /\ p2[m] = p[m]
    <3> DEFINE h == p[m].fetch
    <3>1. Before(s, w, g, h, own) /\ g # f /\ h # f
      BY <1>10, <1>15, <2>0, <2>1 DEF Road
    <3> HIDE DEF g, h
    <3>2. Before(s, w2, g, h, own)
      BY SMTT(30), <1>7, <1>8, <1>9, <3>1 DEF Before
    <3> QED
      BY <2>0, <2>1, <3>2 DEF g, h
  <2>2. CASE p2[m] = e
    <3>1. g # f
      BY <1>10, <2>0
    <3> HIDE DEF g
    <3>2. ASSUME NEW u \in AsksOf(w2), NEW v \in AsksOf(w2), w2[u].fetch = g, w2[v].fetch = f
          PROVE  u < v
      <4>1. u \in AsksOf(w) /\ v = z
        BY <1>7, <1>8, <1>9, <1>10, <3>1, <3>2
      <4> QED
        BY <1>7, <4>1
    <3>3. Before(s, w2, g, f, own)
      BY <1>10, <3>2 DEF Before
    <3> QED
      BY <2>0, <2>2, <3>3 DEF g
  <2> QED
    BY <1>13, <2>1, <2>2
<1>16. Road(s, w2, p2, st2, own, taken2)
  BY <1>11, <1>12, <1>14, <1>15 DEF Road
<1> QED
  BY <1>16 DEF w2, p2, st2, msg

(* A fetch that is rejected when it is made.                                *)
LEMMA RoadRefuses ==
  ASSUME NEW s, NEW w, NEW p, NEW st, NEW own, NEW taken,
         NEW f \in Fetch, st \in [Fetch -> {"idle", "pending", "resolved", "rejected"}],
         Road(s, w, p, st, own, taken), st[f] = "idle"
  PROVE  Road(s, w, p, [st EXCEPT ![f] = "rejected"], own, taken)
<1> DEFINE st2 == [st EXCEPT ![f] = "rejected"]
<1>1. \A g \in Fetch : g # f => st2[g] = st[g]
  OBVIOUS
<1> HIDE DEF st2
<1>2. /\ \A i \in ChunksOf(s) : own[i].fetch \in Fetch /\ own[i].fetch # f
      /\ \A u \in AsksOf(w) : w[u].fetch \in Fetch /\ w[u].fetch # f
  BY DEF Road, FramesOwned, AsksOwned
<1>3. FramesOwned(s, st2, own) /\ AsksOwned(s, w, st2, own)
  BY <1>1, <1>2 DEF Road, FramesOwned, AsksOwned
<1>4. Road(s, w, p, st2, own, taken)
  BY <1>3 DEF Road
<1> QED
  BY <1>4 DEF st2

(* The frames after the first.                                              *)
Later(s, own) == [i \in 1..Len(s) |-> own[i + 1]]

Shifts(s, w, own, s2, own2) ==
  /\ \A i \in ChunksOf(s2) : /\ i + 1 \in ChunksOf(s) /\ s2[i] = s[i + 1] /\ i \in Nat
                             /\ own2[i] = own[i + 1] /\ i + 1 # 1 /\ 1 < i + 1
  /\ \A i \in ChunksOf(s) : i # 1 => /\ i - 1 \in ChunksOf(s2) /\ i - 1 + 1 = i
                                     /\ own2[i - 1] = own[i]
  /\ \A f, r : /\ 1 \in ChunksOf(s) => own[1].fetch # f
               /\ Awaited(s, w, f, r, own)
               => Awaited(s2, w, f, r, own2)
  /\ \A f, g : Before(s, w, f, g, own) => Before(s2, w, f, g, own2)

LEMMA FirstTaken ==
  ASSUME NEW s \in Seq(Frames), s # <<>>, NEW own, NEW w
  PROVE  Shifts(s, w, own, Tail(s), Later(Tail(s), own))
<1> DEFINE s2 == Tail(s)
           own2 == Later(s2, own)
<1>1. /\ s2 \in Seq(Frames) /\ Len(s2) = Len(s) - 1 /\ Len(s) \in Nat
      /\ Len(s) # 0 /\ \A i \in 1..Len(s2) : s2[i] = s[i + 1]
  BY HeadTailProperties
<1>2. \A i \in 1..Len(s2) : own2[i] = own[i + 1]
  BY DEF Later
<1> HIDE DEF s2, own2
<1>3. \A i \in ChunksOf(s2) : /\ i + 1 \in ChunksOf(s) /\ s2[i] = s[i + 1] /\ i \in Nat
                              /\ own2[i] = own[i + 1] /\ i + 1 # 1 /\ 1 < i + 1
  BY <1>1, <1>2 DEF ChunksOf
<1>4. \A i \in ChunksOf(s) : i # 1 => /\ i - 1 \in ChunksOf(s2) /\ i - 1 + 1 = i
                                      /\ own2[i - 1] = own[i]
  <2> SUFFICES ASSUME NEW i \in ChunksOf(s), i # 1
               PROVE  i - 1 \in ChunksOf(s2) /\ i - 1 + 1 = i /\ own2[i - 1] = own[i]
    OBVIOUS
  <2> DEFINE j == i - 1
  <2>1. j \in 1..Len(s2) /\ j + 1 = i /\ s[i].kind = "chunk"
    BY <1>1 DEF ChunksOf
  <2> HIDE DEF j
  <2>2. s2[j] = s[i] /\ own2[j] = own[i]
    BY <1>1, <1>2, <2>1
  <2>3. j \in ChunksOf(s2)
    BY <2>1, <2>2 DEF ChunksOf
  <2> QED
    BY <2>1, <2>2, <2>3 DEF j
<1>5. ASSUME NEW f, NEW r, 1 \in ChunksOf(s) => own[1].fetch # f, Awaited(s, w, f, r, own)
      PROVE  Awaited(s2, w, f, r, own2)
  <2>1. CASE r = 0 /\ \E u \in AsksOf(w) : w[u].fetch = f
    BY <2>1 DEF Awaited
  <2>2. CASE /\ \A n \in r + 1..Len(Reply(f)) :
                  \E i \in ChunksOf(s) : own[i].fetch = f /\ own[i].rank = n
             /\ \A i \in ChunksOf(s) : own[i].fetch = f => own[i].rank > r
    <3>1. ASSUME NEW n \in r + 1..Len(Reply(f))
          PROVE  \E i \in ChunksOf(s2) : own2[i].fetch = f /\ own2[i].rank = n
      <4>1. PICK i \in ChunksOf(s) : own[i].fetch = f /\ own[i].rank = n
        BY <2>2
      <4>2. i # 1
        BY <1>5, <4>1
      <4> QED
        BY <1>4, <4>1, <4>2
    <3>2. \A i \in ChunksOf(s2) : own2[i].fetch = f => own2[i].rank > r
      BY <1>3, <2>2
    <3> QED
      BY <3>1, <3>2 DEF Awaited
  <2> QED
    BY <1>5, <2>1, <2>2 DEF Awaited
<1>6. ASSUME NEW f, NEW g, Before(s, w, f, g, own) PROVE Before(s2, w, f, g, own2)
  <2>1. ASSUME NEW i \in ChunksOf(s2), NEW j \in ChunksOf(s2), own2[i].fetch = f, own2[j].fetch = g
        PROVE  i < j
    <3>1. i + 1 < j + 1 /\ i \in Nat /\ j \in Nat
      BY <1>3, <1>6, <2>1 DEF Before
    <3> QED
      BY <3>1
  <2>2. ASSUME NEW u \in AsksOf(w), NEW j \in ChunksOf(s2), w[u].fetch = f
        PROVE  own2[j].fetch # g
    BY <1>3, <1>6, <2>2 DEF Before
  <2>3. ASSUME NEW u \in AsksOf(w), NEW v \in AsksOf(w), w[u].fetch = f, w[v].fetch = g
        PROVE  u < v
    BY <1>6, <2>3 DEF Before
  <2> QED
    BY <2>1, <2>2, <2>3 DEF Before
<1> QED
  BY <1>3, <1>4, <1>5, <1>6 DEF Shifts, s2, own2

(* A frame goes to the entry it is for, and the reply goes on.              *)
LEMMA RoadTakes ==
  ASSUME NEW s \in Seq(Frames), s # <<>>, NEW w, NEW p, NEW st, NEW own, NEW taken,
         Promised(p, st), Road(s, w, p, st, own, taken),
         1 \in ChunksOf(s), 1 \in 1..Len(p), own[1].fetch = p[1].fetch,
         own[1].rank = taken[p[1].fetch] + 1,
         NEW x \in Entries, x.fetch = p[1].fetch, EntryHolds(x, taken[p[1].fetch] + 1)
  PROVE  \E own2, taken2 : Road(Tail(s), w, [p EXCEPT ![1] = x], st, own2, taken2)
<1> DEFINE s2 == Tail(s)
           own2 == Later(s2, own)
           p2 == [p EXCEPT ![1] = x]
           f == p[1].fetch
           r == taken[f]
           taken2 == [g \in Fetch |-> IF g = f THEN r + 1 ELSE taken[g]]
<1>1. f \in Fetch /\ r \in Nat /\ Awaited(s, w, f, r, own) /\ own[1].fetch = f /\ own[1].rank = r + 1
  BY DEF Road, Promised
<1>2. /\ Len(p2) = Len(p) /\ p2[1] = x /\ \A k \in 1..Len(p) : k # 1 => p2[k] = p[k]
      /\ x.fetch = f /\ EntryHolds(x, r + 1)
  BY DEF Promised
<1>3. taken2[f] = r + 1 /\ \A g \in Fetch : g # f => taken2[g] = taken[g]
  BY <1>1
<1> HIDE DEF p2, taken2, f, r
<1>0. Shifts(s, w, own, s2, own2)
  BY FirstTaken
<1> HIDE DEF s2, own2
<1>4. /\ \A i \in ChunksOf(s2) : /\ i + 1 \in ChunksOf(s) /\ s2[i] = s[i + 1] /\ i \in Nat
                                 /\ own2[i] = own[i + 1] /\ i + 1 # 1 /\ 1 < i + 1
      /\ \A i \in ChunksOf(s) : i # 1 => /\ i - 1 \in ChunksOf(s2) /\ i - 1 + 1 = i
                                         /\ own2[i - 1] = own[i]
  BY <1>0 DEF Shifts
<1>5. \A g, q : own[1].fetch # g /\ Awaited(s, w, g, q, own) => Awaited(s2, w, g, q, own2)
  BY <1>0 DEF Shifts
<1>6. \A g, h : Before(s, w, g, h, own) => Before(s2, w, g, h, own2)
  BY <1>0 DEF Shifts
<1>7. FramesOwned(s2, st, own2)
  <2>1. \A i \in ChunksOf(s2) :
          /\ own2[i].fetch \in Fetch /\ own2[i].rank \in 1..Len(Reply(own2[i].fetch))
          /\ s2[i] = Nth(own2[i].fetch, own2[i].rank)
          /\ st[own2[i].fetch] # "idle"
          /\ st[own2[i].fetch] # "pending" => own2[i].fetch.offset + Passed(own2[i].rank) >= Total
    BY SMTT(30), <1>4 DEF Road, FramesOwned
  <2>2. ASSUME NEW i \in ChunksOf(s2), NEW j \in ChunksOf(s2), i < j, own2[i].fetch = own2[j].fetch
        PROVE  own2[i].rank < own2[j].rank
    <3>1. /\ i + 1 \in ChunksOf(s) /\ j + 1 \in ChunksOf(s) /\ i + 1 < j + 1
          /\ own2[i] = own[i + 1] /\ own2[j] = own[j + 1]
      BY <1>4, <2>2
    <3>2. own[i + 1].fetch = own[j + 1].fetch => own[i + 1].rank < own[j + 1].rank
      BY <3>1 DEF Road, FramesOwned
    <3> QED
      BY <2>2, <3>1, <3>2
  <2> QED
    BY <2>1, <2>2 DEF FramesOwned
<1>8. AsksOwned(s2, w, st, own2)
  BY <1>4 DEF Road, AsksOwned
<1>9. ASSUME NEW k \in 1..Len(p2)
      PROVE  /\ taken2[p2[k].fetch] \in Nat /\ EntryHolds(p2[k], taken2[p2[k].fetch])
             /\ Awaited(s2, w, p2[k].fetch, taken2[p2[k].fetch], own2)
  <2>1. CASE k = 1
    <3>1. \A n \in r + 1..Len(Reply(f)) : \E i \in ChunksOf(s) : own[i].fetch = f /\ own[i].rank = n
      <4>1. ~\E u \in AsksOf(w) : w[u].fetch = f
        BY <1>1 DEF Road, AsksOwned
      <4> QED
        BY <1>1, <4>1 DEF Awaited
    <3>2. ASSUME NEW n \in r + 1 + 1..Len(Reply(f))
          PROVE  \E i \in ChunksOf(s2) : own2[i].fetch = f /\ own2[i].rank = n
      <4>1. n \in r + 1..Len(Reply(f)) /\ n # r + 1
        BY <1>1
      <4>2. PICK i \in ChunksOf(s) : own[i].fetch = f /\ own[i].rank = n
        BY <3>1, <4>1
      <4>3. i # 1
        BY <1>1, <4>1, <4>2
      <4> QED
        BY <1>4, <4>2, <4>3
    <3>3. ASSUME NEW i \in ChunksOf(s2), own2[i].fetch = f PROVE own2[i].rank > r + 1
      <4>1. /\ i + 1 \in ChunksOf(s) /\ 1 < i + 1 /\ own[i + 1].fetch = f
            /\ own[i + 1].rank = own2[i].rank
        BY <1>4, <3>3
      <4>2. own[1].rank < own[i + 1].rank
        BY <1>1, <4>1 DEF Road, FramesOwned
      <4>3. own[i + 1].rank \in 1..Len(Reply(f))
        BY <4>1 DEF Road, FramesOwned
      <4>4. own2[i].rank \in Int
        BY <4>1, <4>3
      <4> QED
        BY <1>1, <4>1, <4>2, <4>4
    <3>4. Awaited(s2, w, f, r + 1, own2)
      BY <3>2, <3>3 DEF Awaited
    <3> QED
      BY <1>1, <1>2, <1>3, <2>1, <3>4
  <2>2. CASE k # 1
    <3> DEFINE g == p[k].fetch
    <3>1. k \in 1..Len(p) /\ p2[k] = p[k] /\ g \in Fetch /\ g # f
      BY <1>2, <2>2 DEF Promised, f
    <3>2. taken[g] \in Nat /\ EntryHolds(p[k], taken[g]) /\ Awaited(s, w, g, taken[g], own)
      BY <3>1 DEF Road
    <3> HIDE DEF g
    <3>3. Awaited(s2, w, g, taken[g], own2) /\ taken2[g] = taken[g]
      BY <1>1, <1>3, <1>5, <3>1, <3>2
    <3> QED
      BY <3>1, <3>2, <3>3 DEF g
  <2> QED
    BY <2>1, <2>2
<1>10. \A k \in 1..Len(p2) : k \in 1..Len(p) /\ p2[k].fetch = p[k].fetch
  BY <1>2 DEF f
<1>11. ASSUME NEW k \in 1..Len(p2), NEW m \in 1..Len(p2), k < m
       PROVE  Before(s2, w, p2[k].fetch, p2[m].fetch, own2)
  BY <1>6, <1>10, <1>11 DEF Road
<1>12. Road(s2, w, p2, st, own2, taken2)
  BY <1>7, <1>8, <1>9, <1>11 DEF Road
<1> QED
  BY <1>12 DEF s2, p2

(* A frame settles the entry it goes to.                                    *)
LEMMA RoadSettles ==
  ASSUME NEW s \in Seq(Frames), s # <<>>, NEW w, NEW p, NEW own, NEW taken,
         NEW st, st \in [Fetch -> {"idle", "pending", "resolved", "rejected"}],
         Promised(p, st), Road(s, w, p, st, own, taken),
         1 \in ChunksOf(s), NEW k \in 1..Len(p),
         own[1].fetch = p[k].fetch \/ st[own[1].fetch] # "pending",
         \A i \in ChunksOf(s) : i # 1 /\ own[i].fetch = p[k].fetch =>
           p[k].fetch.offset + Passed(own[i].rank) >= Total,
         \A u \in AsksOf(w) : w[u].fetch = p[k].fetch => p[k].fetch.offset >= Total
  PROVE  \E own2 : Road(Tail(s), w, RemoveAt(p, k), [st EXCEPT ![p[k].fetch] = "resolved"],
                        own2, taken)
<1> DEFINE s2 == Tail(s)
           own2 == Later(s2, own)
           p2 == RemoveAt(p, k)
           f == p[k].fetch
           st2 == [st EXCEPT ![f] = "resolved"]
<1>0. Shifts(s, w, own, s2, own2)
  BY FirstTaken
<1> HIDE DEF s2, own2
<1>4. /\ \A i \in ChunksOf(s2) : /\ i + 1 \in ChunksOf(s) /\ s2[i] = s[i + 1] /\ i \in Nat
                                 /\ own2[i] = own[i + 1] /\ i + 1 # 1 /\ 1 < i + 1
      /\ \A i \in ChunksOf(s) : i # 1 => /\ i - 1 \in ChunksOf(s2) /\ i - 1 + 1 = i
                                         /\ own2[i - 1] = own[i]
  BY <1>0 DEF Shifts
<1>5. \A g, q : own[1].fetch # g /\ Awaited(s, w, g, q, own) => Awaited(s2, w, g, q, own2)
  BY <1>0 DEF Shifts
<1>6. \A g, h : Before(s, w, g, h, own) => Before(s2, w, g, h, own2)
  BY <1>0 DEF Shifts
<1>1. f \in Fetch /\ st[f] = "pending" /\ p \in Seq(Entries)
  BY DEF Promised
<1>2. \A g \in Fetch : st2[g] = IF g = f THEN "resolved" ELSE st[g]
  BY <1>1
<1> DEFINE Was(i) == IF i < k THEN i ELSE i + 1
<1>3. /\ \A i \in 1..Len(p2) : Was(i) \in 1..Len(p) /\ Was(i) # k /\ p2[i] = p[Was(i)]
      /\ \A i, j \in 1..Len(p2) : i < j => Was(i) < Was(j)
  <2>1. /\ Len(p2) = Len(p) - 1
        /\ \A i \in 1..Len(p) - 1 : p2[i] = IF i < k THEN p[i] ELSE p[i + 1]
    BY <1>1, RemovedAt
  <2> HIDE DEF p2
  <2>2. k \in Nat /\ Len(p) \in Nat
    BY <1>1
  <2> QED
    BY <2>1, <2>2
<1> HIDE DEF p2, st2, Was
<1>7. FramesOwned(s2, st2, own2)
  <2>1. ASSUME NEW i \in ChunksOf(s2)
        PROVE  /\ own2[i].fetch \in Fetch /\ own2[i].rank \in 1..Len(Reply(own2[i].fetch))
               /\ s2[i] = Nth(own2[i].fetch, own2[i].rank)
               /\ st2[own2[i].fetch] # "idle"
               /\ st2[own2[i].fetch] # "pending" =>
                    own2[i].fetch.offset + Passed(own2[i].rank) >= Total
    <3>1. /\ i + 1 \in ChunksOf(s) /\ i + 1 # 1 /\ own2[i] = own[i + 1] /\ s2[i] = s[i + 1]
      BY <1>4
    <3>2. /\ own[i + 1].fetch \in Fetch /\ own[i + 1].rank \in 1..Len(Reply(own[i + 1].fetch))
          /\ s[i + 1] = Nth(own[i + 1].fetch, own[i + 1].rank)
          /\ st[own[i + 1].fetch] # "idle"
          /\ st[own[i + 1].fetch] # "pending" =>
               own[i + 1].fetch.offset + Passed(own[i + 1].rank) >= Total
      BY <3>1 DEF Road, FramesOwned
    <3>3. own[i + 1].fetch = f => own[i + 1].fetch.offset + Passed(own[i + 1].rank) >= Total
      BY <3>1
    <3> QED
      BY <1>2, <3>1, <3>2, <3>3
  <2>2. ASSUME NEW i \in ChunksOf(s2), NEW j \in ChunksOf(s2), i < j, own2[i].fetch = own2[j].fetch
        PROVE  own2[i].rank < own2[j].rank
    <3>1. /\ i + 1 \in ChunksOf(s) /\ j + 1 \in ChunksOf(s) /\ i + 1 < j + 1
          /\ own2[i] = own[i + 1] /\ own2[j] = own[j + 1]
      BY <1>4, <2>2
    <3>2. own[i + 1].fetch = own[j + 1].fetch => own[i + 1].rank < own[j + 1].rank
      BY <3>1 DEF Road, FramesOwned
    <3> QED
      BY <2>2, <3>1, <3>2
  <2> QED
    BY <2>1, <2>2 DEF FramesOwned
<1>8. AsksOwned(s2, w, st2, own2)
  <2>1. ASSUME NEW u \in AsksOf(w)
        PROVE  /\ w[u].fetch \in Fetch /\ st2[w[u].fetch] # "idle"
               /\ st2[w[u].fetch] # "pending" => w[u].fetch.offset >= Total
               /\ \A i \in ChunksOf(s2) : own2[i].fetch # w[u].fetch
    <3>1. /\ w[u].fetch \in Fetch /\ st[w[u].fetch] # "idle"
          /\ st[w[u].fetch] # "pending" => w[u].fetch.offset >= Total
          /\ \A i \in ChunksOf(s) : own[i].fetch # w[u].fetch
      BY DEF Road, AsksOwned
    <3> QED
      BY <1>2, <1>4, <3>1
  <2> QED
    BY <2>1 DEF Road, AsksOwned
<1>9. ASSUME NEW i \in 1..Len(p2)
      PROVE  /\ taken[p2[i].fetch] \in Nat /\ EntryHolds(p2[i], taken[p2[i].fetch])
             /\ Awaited(s2, w, p2[i].fetch, taken[p2[i].fetch], own2)
  <2> DEFINE m == Was(i)
             g == p[m].fetch
  <2>1. m \in 1..Len(p) /\ p2[i] = p[m] /\ m # k
    BY <1>3
  <2>2. g # f /\ st[g] = "pending"
    BY <2>1 DEF Promised
  <2>3. taken[g] \in Nat /\ EntryHolds(p[m], taken[g]) /\ Awaited(s, w, g, taken[g], own)
    BY <2>1 DEF Road
  <2> HIDE DEF g
  <2>4. own[1].fetch # g
    BY <2>2
  <2>5. Awaited(s2, w, g, taken[g], own2)
    BY <1>5, <2>3, <2>4
  <2> QED
    BY <2>1, <2>3, <2>5 DEF g
<1>10. ASSUME NEW i \in 1..Len(p2), NEW j \in 1..Len(p2), i < j
       PROVE  Before(s2, w, p2[i].fetch, p2[j].fetch, own2)
  <2>1. /\ Was(i) \in 1..Len(p) /\ Was(j) \in 1..Len(p) /\ Was(i) < Was(j)
        /\ p2[i] = p[Was(i)] /\ p2[j] = p[Was(j)]
    BY <1>3, <1>10
  <2>2. Before(s, w, p[Was(i)].fetch, p[Was(j)].fetch, own)
    BY <2>1 DEF Road
  <2> QED
    BY <1>6, <2>1, <2>2
<1>11. Road(s2, w, p2, st2, own2, taken)
  BY <1>7, <1>8, <1>9, <1>10 DEF Road
<1> QED
  BY <1>11 DEF s2, p2, st2, f

(* The first frame under way, if its fetch is pending, is the one that the  *)
(* oldest entry has to take next.                                           *)
LEMMA FirstIsNext ==
  ASSUME NEW s, NEW w, NEW p, NEW st, NEW own, NEW taken,
         Promised(p, st), Road(s, w, p, st, own, taken),
         1 \in ChunksOf(s), st[own[1].fetch] = "pending"
  PROVE  1 \in 1..Len(p) /\ own[1].fetch = p[1].fetch /\ own[1].rank = taken[p[1].fetch] + 1
<1> DEFINE g == own[1].fetch
<1>1. g \in Fetch /\ st[g] = "pending"
  BY DEF Road, FramesOwned
<1>2. PICK m \in 1..Len(p) : p[m].fetch = g
  BY <1>1 DEF Promised
<1>3. p \in Seq(Entries) /\ Len(p) \in Nat /\ \A k \in 1..Len(p) : p[k] \in Entries
  BY DEF Promised
<1>4. \A i \in ChunksOf(s) : i \in Nat /\ i >= 1
  BY DEF ChunksOf
<1>5. ASSUME NEW k \in 1..Len(p)
      PROVE  /\ taken[p[k].fetch] \in Nat /\ Awaited(s, w, p[k].fetch, taken[p[k].fetch], own)
             /\ taken[p[k].fetch] + 1 \in taken[p[k].fetch] + 1..Len(Reply(p[k].fetch))
  <2>1. /\ taken[p[k].fetch] \in Nat /\ EntryHolds(p[k], taken[p[k].fetch])
        /\ Awaited(s, w, p[k].fetch, taken[p[k].fetch], own) /\ p[k].fetch \in Fetch
    BY DEF Road, Promised
  <2>2. taken[p[k].fetch] + 1 \in 1..Len(Reply(p[k].fetch))
    BY <1>3, <2>1, StillOwed
  <2>3. Len(Reply(p[k].fetch)) \in Nat
    BY <2>1, ReplyFrames
  <2> QED
    BY <2>1, <2>2, <2>3
<1> HIDE DEF g
<1>6. m = 1
  <2> SUFFICES ASSUME m # 1 PROVE FALSE
    OBVIOUS
  <2> DEFINE h == p[1].fetch
             r == taken[h]
  <2>1. 1 \in 1..Len(p) /\ 1 < m
    BY <1>2, <1>3
  <2>2. Before(s, w, h, g, own)
    BY <1>2, <2>1 DEF Road
  <2>3. Awaited(s, w, h, r, own) /\ r + 1 \in r + 1..Len(Reply(h))
    BY <1>5, <2>1
  <2> HIDE DEF h, r
  <2>4. CASE \E u \in AsksOf(w) : w[u].fetch = h
    BY <2>2, <2>4 DEF Before, g
  <2>5. CASE \A n \in r + 1..Len(Reply(h)) :
               \E i \in ChunksOf(s) : own[i].fetch = h /\ own[i].rank = n
    <3>1. PICK i \in ChunksOf(s) : own[i].fetch = h
      BY <2>3, <2>5
    <3>2. i < 1
      BY <2>2, <3>1 DEF Before, g
    <3> QED
      BY <1>4, <3>1, <3>2
  <2> QED
    BY <2>3, <2>4, <2>5 DEF Awaited
<1>7. own[1].rank = taken[g] + 1
  <2> DEFINE r == taken[g]
  <2>1. Awaited(s, w, g, r, own) /\ r + 1 \in r + 1..Len(Reply(g)) /\ r \in Nat
    BY <1>2, <1>5
  <2> HIDE DEF r
  <2>2. ~\E u \in AsksOf(w) : w[u].fetch = g
    BY DEF Road, AsksOwned, g
  <2>3. /\ \A n \in r + 1..Len(Reply(g)) :
             \E i \in ChunksOf(s) : own[i].fetch = g /\ own[i].rank = n
        /\ \A i \in ChunksOf(s) : own[i].fetch = g => own[i].rank > r
    BY <2>1, <2>2 DEF Awaited
  <2>4. PICK i \in ChunksOf(s) : own[i].fetch = g /\ own[i].rank = r + 1
    BY <2>1, <2>3
  <2>5. own[1].rank > r /\ own[1].rank \in Int
    <3>1. own[1].fetch = g /\ own[1].rank \in 1..Len(Reply(g))
      BY DEF Road, FramesOwned, g
    <3> QED
      BY <2>3, <3>1
  <2>6. CASE i # 1
    <3>1. 1 < i
      BY <1>4, <2>6
    <3>2. own[1].rank < own[i].rank
      BY <2>4, <3>1 DEF Road, FramesOwned, g
    <3> QED
      BY <2>1, <2>4, <2>5, <3>2
  <2> QED
    BY <2>4, <2>6 DEF r
<1> QED
  BY <1>2, <1>6, <1>7 DEF g

(* The first frame under way is gone, and nobody had to take it.            *)
LEMMA RoadDrops ==
  ASSUME NEW s \in Seq(Frames), s # <<>>, NEW w \in Seq(Messages), NEW p, NEW st, NEW own,
         NEW taken, Promised(p, st), Road(s, w, p, st, own, taken),
         1 \in ChunksOf(s) => st[own[1].fetch] # "pending"
  PROVE  \E own2 : Road(Tail(s), w, p, st, own2, taken)
<1> DEFINE s2 == Tail(s)
           a == [i \in 1..Len(s2) |-> i + 1]
           b == [u \in 1..Len(w) |-> u]
<1>2. Shifts(s, w, own, s2, Later(s2, own)) /\ s2 \in Seq(Frames) /\ Len(s2) \in Nat
  BY FirstTaken, HeadTailProperties
<1>3. \A i \in ChunksOf(s2) : a[i] = i + 1 /\ i \in Nat
  BY <1>2 DEF ChunksOf
<1>4. \A u \in AsksOf(w) : b[u] = u /\ u \in Nat
  BY DEF AsksOf
<1> HIDE DEF s2, a, b
<1>5. \A i \in ChunksOf(s2) : a[i] \in ChunksOf(s) /\ s2[i] = s[a[i]]
  BY <1>2, <1>3 DEF Shifts
<1>6. \A i, j \in ChunksOf(s2) : (i < j) <=> (a[i] < a[j])
  BY <1>3
<1>7. \A i \in ChunksOf(s) : st[own[i].fetch] = "pending" =>
        \E j \in ChunksOf(s2) : a[j] = i
  <2>1. ASSUME NEW i \in ChunksOf(s), st[own[i].fetch] = "pending"
        PROVE  \E j \in ChunksOf(s2) : a[j] = i
    <3>1. i # 1
      BY <2>1
    <3>2. i - 1 \in ChunksOf(s2) /\ i - 1 + 1 = i
      BY <1>2, <3>1 DEF Shifts
    <3>3. a[i - 1] = i
      BY <1>3, <3>2
    <3> QED
      BY <3>2, <3>3
  <2> QED
    BY <2>1
<1>8. /\ \A u \in AsksOf(w) : b[u] \in AsksOf(w) /\ w[u] = w[b[u]]
      /\ \A u, v \in AsksOf(w) : (u < v) <=> (b[u] < b[v])
      /\ \A u, v \in AsksOf(w) : b[u] = b[v] => u = v
      /\ \A u \in AsksOf(w) : st[w[u].fetch] = "pending" => \E v \in AsksOf(w) : b[v] = u
  BY <1>4
<1>9. \E own2 : Road(s2, w, p, st, own2, taken)
  <2>1. Moved(s, w, s2, w, st, own, a, b)
    BY <1>5, <1>6, <1>7, <1>8 DEF Moved
  <2> QED
    BY <2>1, RoadMoves
<1> QED
  BY <1>9 DEF s2

SlicesGot == \A f \in Fetch : status[f] = "resolved" => got[f] = Slice(f)

LEMMA SocketPromises == SocketInv => Promised(pending, status)
<1> SUFFICES ASSUME SocketInv PROVE Promised(pending, status)
  OBVIOUS
<1>1. pending \in Seq(Entries) /\ PromiseInv
  BY DEF SocketInv, SocketTyped
<1>2. \A k \in 1..Len(pending) : pending[k] \in Entries
  BY <1>1
<1>3. \A k \in 1..Len(pending) : pending[k].fetch \in Fetch
  BY <1>2 DEF Entries
<1> QED
  BY <1>1, <1>2, <1>3 DEF Promised, PromiseInv

(* An entry that is complete takes its slice.                               *)
LEMMA SliceTaken ==
  ASSUME SocketInv, SlicesGot, NEW f \in Fetch, NEW items, items = Slice(f),
         status' = [status EXCEPT ![f] = "resolved"], got' = [got EXCEPT ![f] = items]
  PROVE  SlicesGot'
<1>1. /\ status \in [Fetch -> {"idle", "pending", "resolved", "rejected"}]
      /\ got \in [Fetch -> Seq(Nat)]
  BY DEF SocketInv, SocketTyped
<1>2. /\ got'[f] = items
      /\ \A g \in Fetch : g # f => status'[g] = status[g] /\ got'[g] = got[g]
  BY <1>1
<1> QED
  BY <1>2 DEF SlicesGot, Slice, Available

(* The first frame under way reaches the client.                            *)
LEMMA RoadReceives ==
  ASSUME CapsAgree, SocketInv, SlicesGot, NEW s \in Seq(Frames), s # <<>>, NEW w \in Seq(Messages),
         NEW own, NEW taken, Road(s, w, pending, status, own, taken),
         Head(s).kind = "chunk", AcceptChunk(Head(s))
  PROVE  /\ \E own2, taken2 : Road(Tail(s), w, pending', status', own2, taken2)
         /\ SlicesGot'
<1> DEFINE chunk == Head(s)
           g == own[1].fetch
           n == own[1].rank
<1>1. /\ Len(s) \in Nat /\ Len(s) # 0 /\ chunk = s[1] /\ chunk \in Frames
  BY HeadTailProperties
<1>2. 1 \in ChunksOf(s)
  BY <1>1 DEF ChunksOf
<1>3. Promised(pending, status)
  BY SocketPromises
<1>4. /\ g \in Fetch /\ n \in 1..Len(Reply(g)) /\ chunk = Nth(g, n)
      /\ status[g] # "pending" => g.offset + Passed(n) >= Total
  BY <1>1, <1>2 DEF Road, FramesOwned
<1>5. /\ status \in [Fetch -> {"idle", "pending", "resolved", "rejected"}]
      /\ pending \in Seq(Entries) /\ Len(pending) \in Nat
  BY DEF SocketInv, SocketTyped
<1>6. SocketTyped
  BY DEF SocketInv
<1>7. ASSUME NEW k \in 1..Len(pending)
      PROVE  /\ pending[k] \in Entries /\ pending[k].fetch \in Fetch
             /\ Follow(pending[k].items, pending[k].fetch.offset)
             /\ taken[pending[k].fetch] \in Nat
             /\ EntryHolds(pending[k], taken[pending[k].fetch])
  BY <1>3 DEF Road, Promised, SocketInv, ItemsInv
<1> HIDE DEF chunk, g, n
<1>8. CASE status[g] = "pending"
  <2> DEFINE e == pending[1]
             r == taken[g]
             x == Extend(e, chunk)
  <2>1. 1 \in 1..Len(pending) /\ g = e.fetch /\ n = r + 1
    BY <1>2, <1>3, <1>8, FirstIsNext DEF g, n
  <2>2. /\ e \in Entries /\ Follow(e.items, e.fetch.offset) /\ r \in Nat /\ EntryHolds(e, r)
    BY <1>7, <2>1
  <2> HIDE DEF e, r
  <2>3. /\ Answers(e, chunk)
        /\ ReplyComplete(x, chunk.count) =>
             /\ x.items = Slice(g)
             /\ \A i \in 1..Len(Reply(g)) : i > r + 1 => g.offset + Passed(i) >= Total
        /\ ~ReplyComplete(x, chunk.count) => EntryHolds(x, r + 1)
    <3> HIDE DEF x
    <3>1. chunk = Nth(e.fetch, r + 1)
      BY <1>4, <2>1
    <3> QED
      BY <2>1, <2>2, <3>1, OwnFrame DEF x
  <2>4. x \in Entries /\ x.fetch = g
    <3>1. e.next = e.fetch.offset + Len(e.items)
      BY <2>1 DEF e, SocketInv, ItemsInv
    <3> HIDE DEF x
    <3> QED
      BY <1>1, <2>1, <2>2, <2>3, <3>1, ExtendFollows DEF x
  <2>5. \/ /\ ReplyComplete(x, chunk.count)
           /\ pending' = RemoveAt(pending, 1)
           /\ status' = [status EXCEPT ![x.fetch] = "resolved"]
           /\ got' = [got EXCEPT ![x.fetch] = x.items]
        \/ /\ ~ReplyComplete(x, chunk.count)
           /\ pending' = [pending EXCEPT ![1] = x]
           /\ UNCHANGED <<status, got>>
    <3>1. \/ \A k \in 1..Len(pending) : ~Answers(pending[k], chunk)
          \/ \E k \in 1..Len(pending) :
              /\ Answers(pending[k], chunk)
              /\ \A j \in 1..Len(pending) : Answers(pending[j], chunk) => k <= j
              /\ LET y == Extend(pending[k], chunk)
                 IN  \/ /\ ReplyComplete(y, chunk.count)
                        /\ pending' = RemoveAt(pending, k)
                        /\ status' = [status EXCEPT ![y.fetch] = "resolved"]
                        /\ got' = [got EXCEPT ![y.fetch] = y.items]
                     \/ /\ ~ReplyComplete(y, chunk.count)
                        /\ pending' = [pending EXCEPT ![k] = y]
                        /\ UNCHANGED <<status, got>>
      BY <1>6, AcceptCases DEF chunk
    <3>2. ~\A k \in 1..Len(pending) : ~Answers(pending[k], chunk)
      BY <2>1, <2>3 DEF e
    <3>3. PICK k \in 1..Len(pending) :
              /\ k <= 1
              /\ LET y == Extend(pending[k], chunk)
                 IN  \/ /\ ReplyComplete(y, chunk.count)
                        /\ pending' = RemoveAt(pending, k)
                        /\ status' = [status EXCEPT ![y.fetch] = "resolved"]
                        /\ got' = [got EXCEPT ![y.fetch] = y.items]
                     \/ /\ ~ReplyComplete(y, chunk.count)
                        /\ pending' = [pending EXCEPT ![k] = y]
                        /\ UNCHANGED <<status, got>>
      BY <2>1, <2>3, <3>1, <3>2 DEF e
    <3>4. k = 1
      BY <1>5, <3>3
    <3> QED
      BY <3>3, <3>4 DEF e
  <2> HIDE DEF x
  <2>6. CASE /\ ReplyComplete(x, chunk.count)
             /\ pending' = RemoveAt(pending, 1)
             /\ status' = [status EXCEPT ![x.fetch] = "resolved"]
             /\ got' = [got EXCEPT ![x.fetch] = x.items]
    <3>1. SlicesGot'
      BY <1>4, <2>3, <2>4, <2>6, SliceTaken
    <3>2. ASSUME NEW i \in ChunksOf(s), i # 1, own[i].fetch = g
          PROVE  g.offset + Passed(own[i].rank) >= Total
      <4>1. i \in Nat /\ 1 < i
        BY <3>2 DEF ChunksOf
      <4>2. own[1].rank < own[i].rank /\ own[i].rank \in 1..Len(Reply(g))
        BY <1>2, <3>2, <4>1 DEF Road, FramesOwned, g
      <4>3. own[i].rank > r + 1
        BY <2>1, <2>2, <4>2 DEF n
      <4> QED
        BY <2>3, <2>6, <4>2, <4>3
    <3>3. \A u \in AsksOf(w) : w[u].fetch # g
      BY <1>2 DEF Road, AsksOwned, g
    <3>4. pending[1].fetch = g /\ own[1].fetch = g
      BY <2>1 DEF e, g
    <3>5. \E own2 : Road(Tail(s), w, RemoveAt(pending, 1),
                         [status EXCEPT ![pending[1].fetch] = "resolved"], own2, taken)
      BY <1>2, <1>3, <1>5, <2>1, <3>2, <3>3, <3>4, RoadSettles
    <3> QED
      BY <2>4, <2>6, <3>1, <3>4, <3>5
  <2>7. CASE /\ ~ReplyComplete(x, chunk.count)
             /\ pending' = [pending EXCEPT ![1] = x]
             /\ UNCHANGED <<status, got>>
    <3>1. SlicesGot'
      BY <2>7 DEF SlicesGot, Slice, Available
    <3>2. /\ own[1].fetch = pending[1].fetch /\ own[1].rank = taken[pending[1].fetch] + 1
          /\ x.fetch = pending[1].fetch /\ EntryHolds(x, taken[pending[1].fetch] + 1)
      BY <2>1, <2>3, <2>4, <2>7 DEF g, n, e, r
    <3>3. \E own2, taken2 : Road(Tail(s), w, [pending EXCEPT ![1] = x], status, own2, taken2)
      BY <1>2, <1>3, <2>1, <2>4, <3>2, RoadTakes
    <3> QED
      BY <2>7, <3>1, <3>3
  <2> QED
    BY <2>5, <2>6, <2>7
<1>9. CASE status[g] # "pending"
  <2>1. chunk.offset >= Total /\ chunk.count = 0
    <3>1. /\ Passed(n) \in Nat /\ Nth(g, n).offset = g.offset + Passed(n)
          /\ Wanted(g) \in Nat /\ Passed(n) <= Wanted(g)
          /\ Nth(g, n).count =
               Least(Least(Wanted(g) - Passed(n), FrameSamples),
                     IF g.offset + Passed(n) >= Total THEN 0 ELSE Total - (g.offset + Passed(n)))
      BY <1>4, FrameHolds
    <3>2. g.offset \in Nat /\ Total \in Nat /\ FrameSamples \in Nat
      BY <1>4, SocketConstants
    <3> QED
      BY <1>4, <1>9, <3>1, <3>2 DEF Least
  <2>2. CASE UNCHANGED <<pending, status, got>>
    <3>1. SlicesGot'
      BY <2>2 DEF SlicesGot, Slice, Available
    <3>2. \E own2 : Road(Tail(s), w, pending, status, own2, taken)
      BY <1>3, <1>9, RoadDrops DEF g
    <3> QED
      BY <2>2, <3>1, <3>2
  <2>3. ASSUME NEW k \in 1..Len(pending), Answers(pending[k], chunk),
               NEW x, x = Extend(pending[k], chunk),
               \/ /\ ReplyComplete(x, chunk.count)
                  /\ pending' = RemoveAt(pending, k)
                  /\ status' = [status EXCEPT ![x.fetch] = "resolved"]
                  /\ got' = [got EXCEPT ![x.fetch] = x.items]
               \/ ~ReplyComplete(x, chunk.count)
        PROVE  /\ \E own2, taken2 : Road(Tail(s), w, pending', status', own2, taken2)
               /\ SlicesGot'
    <3> DEFINE e == pending[k]
               f == e.fetch
               r == taken[f]
    <3>1. /\ e \in Entries /\ f \in Fetch /\ r \in Nat /\ EntryHolds(e, r)
          /\ Follow(e.items, f.offset) /\ e.next = f.offset + Len(e.items)
      BY <1>7 DEF SocketInv, ItemsInv
    <3> HIDE DEF e, r
    <3>2. ReplyComplete(x, chunk.count) /\ x.items = Slice(f) /\ f.offset >= Total
      <4>1. Answers(e, chunk) /\ x = Extend(e, chunk)
        BY <2>3 DEF e
      <4> QED
        BY <1>1, <2>1, <3>1, <4>1, SpentFrame
    <3>3. x.fetch = f
      <4>1. Answers(e, chunk) /\ x = Extend(e, chunk)
        BY <2>3 DEF e
      <4> QED
        BY <1>1, <3>1, <4>1, ExtendFollows
    <3>4. f = pending[k].fetch
      BY DEF e
    <3> HIDE DEF f
    <3>5. /\ pending' = RemoveAt(pending, k)
          /\ status' = [status EXCEPT ![f] = "resolved"]
          /\ got' = [got EXCEPT ![f] = x.items]
      BY <2>3, <3>2, <3>3
    <3>6. SlicesGot'
      BY <3>1, <3>2, <3>5, SliceTaken
    <3>7. \A i \in ChunksOf(s) : own[i].fetch = f => f.offset + Passed(own[i].rank) >= Total
      <4>1. ASSUME NEW i \in ChunksOf(s), own[i].fetch = f
            PROVE  f.offset + Passed(own[i].rank) >= Total
        <5>1. own[i].rank \in 1..Len(Reply(f))
          BY <4>1 DEF Road, FramesOwned
        <5>2. Passed(own[i].rank) \in Nat /\ f.offset \in Nat /\ Total \in Nat
          BY <3>1, <5>1, FrameHolds, SocketConstants
        <5> QED
          BY <3>2, <5>2
      <4> QED
        BY <4>1
    <3>8. own[1].fetch = pending[k].fetch \/ status[own[1].fetch] # "pending"
      BY <1>9 DEF g
    <3>9. \E own2 : Road(Tail(s), w, RemoveAt(pending, k),
                         [status EXCEPT ![pending[k].fetch] = "resolved"], own2, taken)
      BY <1>2, <1>3, <1>5, <3>2, <3>4, <3>7, <3>8, RoadSettles
    <3> QED
      BY <3>4, <3>5, <3>6, <3>9
  <2>4. \/ UNCHANGED <<pending, status, got>>
        \/ \E k \in 1..Len(pending) :
              /\ Answers(pending[k], chunk)
              /\ LET x == Extend(pending[k], chunk)
                 IN  \/ /\ ReplyComplete(x, chunk.count)
                        /\ pending' = RemoveAt(pending, k)
                        /\ status' = [status EXCEPT ![x.fetch] = "resolved"]
                        /\ got' = [got EXCEPT ![x.fetch] = x.items]
                     \/ ~ReplyComplete(x, chunk.count)
    BY <1>6, AcceptCases DEF chunk
  <2> QED
    BY <2>2, <2>3, <2>4
<1> QED
  BY <1>8, <1>9

(* Frames join the end that no fetch waits for, and a message that asks for *)
(* nothing is read.                                                         *)
LEMMA RoadGrows ==
  ASSUME NEW s \in Seq(Frames), NEW t \in Seq(Frames), \A i \in 1..Len(t) : t[i].kind # "chunk",
         NEW w \in Seq(Messages), NEW w2,
         w2 = w \/ (w # <<>> /\ Head(w).kind # "fetch" /\ w2 = Tail(w)),
         NEW p, NEW st, NEW own, NEW taken, Promised(p, st), Road(s, w, p, st, own, taken)
  PROVE  \E own2 : Road(s \o t, w2, p, st, own2, taken)
<1> DEFINE s2 == s \o t
           d == IF w2 = w THEN 0 ELSE 1
           a == [i \in 1..Len(s2) |-> i]
           b == [u \in 1..Len(w2) |-> u + d]
<1>1. /\ Len(s2) = Len(s) + Len(t) /\ Len(s) \in Nat /\ Len(t) \in Nat
      /\ \A i \in 1..Len(s) + Len(t) : s2[i] = IF i <= Len(s) THEN s[i] ELSE t[i - Len(s)]
  BY ConcatProperties
<1> HIDE DEF s2
<1>2. ASSUME NEW i \in ChunksOf(s2) PROVE i \in ChunksOf(s) /\ s2[i] = s[i] /\ a[i] = i
  <2>1. i \in 1..Len(s2) /\ s2[i].kind = "chunk" /\ a[i] = i
    BY DEF ChunksOf
  <2>2. CASE i <= Len(s)
    <3>1. i \in 1..Len(s) /\ s2[i] = s[i]
      BY <1>1, <2>1, <2>2
    <3> QED
      BY <2>1, <3>1 DEF ChunksOf
  <2>3. CASE ~(i <= Len(s))
    <3>1. i - Len(s) \in 1..Len(t) /\ s2[i] = t[i - Len(s)]
      BY <1>1, <2>1, <2>3
    <3> QED
      BY <2>1, <3>1
  <2> QED
    BY <2>2, <2>3
<1>3. ASSUME NEW i \in ChunksOf(s) PROVE i \in ChunksOf(s2) /\ a[i] = i
  <2>1. i \in 1..Len(s) /\ i \in 1..Len(s2) /\ s2[i] = s[i] /\ s[i].kind = "chunk"
    BY <1>1 DEF ChunksOf
  <2> QED
    BY <2>1 DEF ChunksOf
<1>4. /\ d \in {0, 1} /\ Len(w2) = Len(w) - d /\ Len(w) \in Nat
      /\ \A u \in 1..Len(w2) : w2[u] = w[u + d]
      /\ d = 1 => Len(w) # 0 /\ w[1].kind # "fetch"
  <2>1. CASE w2 = w
    BY <2>1
  <2>2. CASE w2 # w /\ w # <<>> /\ Head(w).kind # "fetch" /\ w2 = Tail(w)
    <3>1. Len(Tail(w)) = Len(w) - 1 /\ \A u \in 1..Len(Tail(w)) : Tail(w)[u] = w[u + 1]
      BY <2>2, HeadTailProperties
    <3>2. Head(w) = w[1] /\ Len(w) \in Nat /\ Len(w) # 0
      BY <2>2
    <3> QED
      BY <2>2, <3>1, <3>2
  <2> QED
    BY <2>1, <2>2
<1> HIDE DEF d
<1>5. ASSUME NEW u \in AsksOf(w2)
      PROVE  u \in Nat /\ b[u] = u + d /\ u + d \in AsksOf(w) /\ w2[u] = w[u + d]
  <2>1. u \in 1..Len(w2) /\ w2[u].kind = "fetch" /\ u + d \in 1..Len(w) /\ w2[u] = w[u + d]
    BY <1>4 DEF AsksOf
  <2> QED
    BY <2>1 DEF AsksOf
<1>6. ASSUME NEW u \in AsksOf(w) PROVE \E v \in AsksOf(w2) : b[v] = u
  <2> DEFINE v == u - d
  <2>1. u \in 1..Len(w) /\ w[u].kind = "fetch"
    BY DEF AsksOf
  <2>2. d = 1 => u # 1
    BY <1>4, <2>1
  <2>3. v \in 1..Len(w2) /\ v + d = u
    BY <1>4, <2>1, <2>2
  <2> HIDE DEF v
  <2>4. v \in AsksOf(w2)
    <3>1. w2[v] = w[u]
      BY <1>4, <2>3
    <3> QED
      BY <2>1, <2>3, <3>1 DEF AsksOf
  <2> QED
    BY <1>5, <2>3, <2>4
<1> HIDE DEF a, b
<1>7. /\ \A i \in ChunksOf(s2) : a[i] \in ChunksOf(s) /\ s2[i] = s[a[i]]
      /\ \A i, j \in ChunksOf(s2) : (i < j) <=> (a[i] < a[j])
      /\ \A i \in ChunksOf(s) : st[own[i].fetch] = "pending" => \E j \in ChunksOf(s2) : a[j] = i
  BY <1>2, <1>3
<1>8. /\ \A u \in AsksOf(w2) : b[u] \in AsksOf(w) /\ w2[u] = w[b[u]]
      /\ \A u, v \in AsksOf(w2) : (u < v) <=> (b[u] < b[v])
      /\ \A u, v \in AsksOf(w2) : b[u] = b[v] => u = v
      /\ \A u \in AsksOf(w) : st[w[u].fetch] = "pending" => \E v \in AsksOf(w2) : b[v] = u
  <2>1. \A u, v \in AsksOf(w2) : ((u < v) <=> (b[u] < b[v])) /\ (b[u] = b[v] => u = v)
    <3>1. \A u \in AsksOf(w2) : u \in Nat /\ b[u] = u + d
      BY <1>5
    <3> QED
      BY <1>4, <3>1
  <2>2. \A u \in AsksOf(w2) : b[u] \in AsksOf(w) /\ w2[u] = w[b[u]]
    BY <1>5
  <2> QED
    BY <1>6, <2>1, <2>2
<1>9. Moved(s, w, s2, w2, st, own, a, b)
  BY <1>7, <1>8 DEF Moved
<1>10. \E own2 : Road(s2, w2, p, st, own2, taken)
  BY <1>9, RoadMoves
<1> QED
  BY <1>10 DEF s2

(* The client subscribes before it sends what it has queued.                *)
LEMMA RoadSubscribes ==
  ASSUME NEW s, NEW w \in Seq(Messages), NEW m \in Messages, m.kind # "fetch",
         NEW p, NEW st, NEW own, NEW taken, Promised(p, st), Road(s, w, p, st, own, taken)
  PROVE  \E own2 : Road(s, <<m>> \o w, p, st, own2, taken)
<1> DEFINE w2 == <<m>> \o w
           a == [i \in 1..Len(s) |-> i]
           b == [u \in 1..Len(w2) |-> u - 1]
<1>1. /\ Len(w2) = Len(w) + 1 /\ Len(w) \in Nat /\ w2[1] = m
      /\ \A u \in 1..Len(w) + 1 : u # 1 => w2[u] = w[u - 1]
  <2>1. <<m>> \in Seq(Messages) /\ Len(<<m>>) = 1
    OBVIOUS
  <2> DEFINE o == <<m>>
  <2>2. o \in Seq(Messages) /\ Len(o) = 1 /\ o[1] = m
    BY <2>1
  <2> HIDE DEF o
  <2>3. /\ Len(o \o w) = Len(o) + Len(w)
        /\ \A u \in 1..Len(o) + Len(w) : (o \o w)[u] = IF u <= Len(o) THEN o[u] ELSE w[u - Len(o)]
    BY <2>2, ConcatProperties
  <2>4. Len(w) \in Nat /\ w2 = o \o w
    BY DEF o
  <2> HIDE DEF w2
  <2> QED
    BY <2>2, <2>3, <2>4
<1> HIDE DEF w2
<1>2. ASSUME NEW u \in AsksOf(w2)
      PROVE  u \in Nat /\ b[u] = u - 1 /\ u - 1 \in AsksOf(w) /\ w2[u] = w[u - 1]
  <2>1. u \in 1..Len(w2) /\ w2[u].kind = "fetch"
    BY DEF AsksOf
  <2>2. u # 1
    BY <1>1, <2>1
  <2>3. u - 1 \in 1..Len(w) /\ w2[u] = w[u - 1] /\ b[u] = u - 1
    BY <1>1, <2>1, <2>2
  <2> QED
    BY <2>1, <2>3 DEF AsksOf
<1>3. ASSUME NEW u \in AsksOf(w) PROVE \E v \in AsksOf(w2) : b[v] = u
  <2> DEFINE v == u + 1
  <2>1. v \in 1..Len(w2) /\ v # 1 /\ v - 1 = u /\ w[u].kind = "fetch" /\ v \in 1..Len(w) + 1
    BY <1>1 DEF AsksOf
  <2> HIDE DEF v
  <2>2. w2[v] = w[u]
    BY <1>1, <2>1
  <2>3. v \in AsksOf(w2)
    BY <2>1, <2>2 DEF AsksOf
  <2> QED
    BY <1>2, <2>1, <2>3
<1>4. \A i \in ChunksOf(s) : a[i] = i
  BY DEF ChunksOf
<1> HIDE DEF a, b
<1>5. /\ \A u \in AsksOf(w2) : b[u] \in AsksOf(w) /\ w2[u] = w[b[u]]
      /\ \A u, v \in AsksOf(w2) : ((u < v) <=> (b[u] < b[v])) /\ (b[u] = b[v] => u = v)
      /\ \A u \in AsksOf(w) : st[w[u].fetch] = "pending" => \E v \in AsksOf(w2) : b[v] = u
  <2>1. \A u \in AsksOf(w2) : u \in Nat /\ b[u] = u - 1
    BY <1>2
  <2> QED
    BY SMTT(30), <1>2, <1>3, <2>1
<1>6. Moved(s, w, s, w2, st, own, a, b)
  BY <1>4, <1>5 DEF Moved
<1>7. \E own2 : Road(s, w2, p, st, own2, taken)
  BY <1>6, RoadMoves
<1> QED
  BY <1>7 DEF w2

(* Nothing is waited for, and nothing new is under way.                     *)
LEMMA RoadRests ==
  ASSUME NEW s \in Seq(Frames), NEW n \in 0..Len(s), NEW w, NEW w2, w2 = <<>> \/ w2 = w,
         NEW p, NEW st, NEW own, NEW taken, Promised(p, st), p = <<>>,
         Road(s, w, p, st, own, taken)
  PROVE  \E own2 : Road(SubSeq(s, 1, n), w2, p, st, own2, taken)
<1> DEFINE s2 == SubSeq(s, 1, n)
           a == [i \in 1..n |-> i]
           b == [u \in 1..Len(w2) |-> u]
<1>1. Len(s2) = n /\ n \in Nat /\ Len(s) \in Nat /\ \A i \in 1..n : s2[i] = s[i]
  OBVIOUS
<1> HIDE DEF s2
<1>2. \A i \in ChunksOf(s2) : i \in ChunksOf(s) /\ a[i] = i /\ s2[i] = s[i]
  BY <1>1 DEF ChunksOf
<1>3. \A u \in AsksOf(w2) : b[u] = u /\ w2 = w
  BY DEF AsksOf
<1>4. \A f \in Fetch : st[f] # "pending"
  BY DEF Promised
<1> HIDE DEF a, b
<1>5. /\ \A i \in ChunksOf(s) : st[own[i].fetch] # "pending"
      /\ \A u \in AsksOf(w) : st[w[u].fetch] # "pending"
  BY <1>4 DEF Road, FramesOwned, AsksOwned
<1>6. Moved(s, w, s2, w2, st, own, a, b)
  BY <1>2, <1>3, <1>5 DEF Moved
<1>7. \E own2 : Road(s2, w2, p, st, own2, taken)
  BY <1>6, RoadMoves
<1> QED
  BY <1>7 DEF s2

-----------------------------------------------------------------------------
(* What is under way from the server, and what the server is still to read. *)
Stream == down \o out
Waiting == IF connected THEN up ELSE queue

(* As long as nothing went wrong, what is under way is what is waited for.  *)
Undisturbed == ~closed /\ ~lost /\ refused = {}
RoadInv == Undisturbed => \E own, taken : Road(Stream, Waiting, pending, status, own, taken)
SliceInv == ~lost /\ refused = {} => SlicesGot

LEMMA StreamTyped ==
  SocketInv => /\ Stream \in Seq(Frames) /\ Waiting \in Seq(Messages) /\ Promised(pending, status)
               /\ down \in Seq(Frames) /\ out \in Seq(Frames) /\ up \in Seq(Messages)
               /\ queue \in Seq(Messages)
<1> SUFFICES ASSUME SocketInv
             PROVE /\ Stream \in Seq(Frames) /\ Waiting \in Seq(Messages)
                   /\ Promised(pending, status)
                   /\ down \in Seq(Frames) /\ out \in Seq(Frames) /\ up \in Seq(Messages)
                   /\ queue \in Seq(Messages)
  OBVIOUS
<1>1. down \in Seq(Frames) /\ out \in Seq(Frames) /\ up \in Seq(Messages) /\ queue \in Seq(Asking)
  BY DEF SocketInv, SocketTyped
<1>2. queue \in Seq(Messages)
  <2>1. \A u \in 1..Len(queue) : queue[u] \in Messages
    BY <1>1 DEF Messages
  <2> QED
    BY <1>1, <2>1
<1>3. Stream \in Seq(Frames)
  BY <1>1, ConcatProperties DEF Stream
<1> QED
  BY <1>1, <1>2, <1>3, SocketPromises DEF Waiting

-----------------------------------------------------------------------------
(* Each action keeps on its way what is waited for.                         *)

(* Nothing that was waited for is missing.                                  *)
Carried == \E own, taken : Road(Stream, Waiting, pending, status, own, taken)

LEMMA HeadOfBoth ==
  ASSUME NEW S, NEW s \in Seq(S), NEW t \in Seq(S), s # <<>>
  PROVE  s \o t # <<>> /\ Head(s \o t) = Head(s) /\ Tail(s \o t) = Tail(s) \o t
<1> DEFINE x == s \o t
           y == Tail(s) \o t
<1>1. /\ x \in Seq(S) /\ Len(x) = Len(s) + Len(t)
      /\ \A i \in 1..Len(s) + Len(t) : x[i] = IF i <= Len(s) THEN s[i] ELSE t[i - Len(s)]
  BY ConcatProperties
<1>2. /\ Tail(s) \in Seq(S) /\ Len(Tail(s)) = Len(s) - 1
      /\ \A i \in 1..Len(Tail(s)) : Tail(s)[i] = s[i + 1]
  BY HeadTailProperties
<1> DEFINE u == Tail(s)
<1>3. u \in Seq(S) /\ Len(u) = Len(s) - 1 /\ \A i \in 1..Len(u) : u[i] = s[i + 1]
  BY <1>2
<1> HIDE DEF x, u
<1>4. /\ u \o t \in Seq(S) /\ Len(u \o t) = Len(u) + Len(t)
      /\ \A i \in 1..Len(u) + Len(t) : (u \o t)[i] = IF i <= Len(u) THEN u[i] ELSE t[i - Len(u)]
  BY <1>3, ConcatProperties
<1>5. y = u \o t
  BY DEF u
<1> HIDE DEF y
<1>6. Len(s) \in Nat \ {0} /\ Len(t) \in Nat /\ Head(s) = s[1]
  <2>1. Len(s) \in Nat \ {0}
    BY EmptySeq
  <2> QED
    BY <2>1
<1>7. x # <<>> /\ Head(x) = s[1]
  <2>1. Len(x) # 0 /\ x[1] = s[1]
    BY <1>1, <1>6
  <2> QED
    BY <1>1, <2>1
<1>8. /\ Tail(x) \in Seq(S) /\ Len(Tail(x)) = Len(x) - 1
      /\ \A i \in 1..Len(Tail(x)) : Tail(x)[i] = x[i + 1]
  BY <1>1, <1>7, HeadTailProperties
<1>9. ASSUME NEW i \in 1..Len(Tail(x)) PROVE Tail(x)[i] = y[i]
  <2>1. i + 1 \in 1..Len(s) + Len(t) /\ i \in 1..Len(u) + Len(t) /\ Tail(x)[i] = x[i + 1]
    BY <1>1, <1>3, <1>6, <1>8
  <2>2. CASE i <= Len(u)
    <3>1. i + 1 <= Len(s) /\ i \in 1..Len(u)
      BY <1>3, <1>6, <2>1, <2>2
    <3> QED
      BY <1>1, <1>3, <1>4, <1>5, <2>1, <2>2, <3>1
  <2>3. CASE ~(i <= Len(u))
    <3>1. ~(i + 1 <= Len(s)) /\ i + 1 - Len(s) = i - Len(u)
      BY <1>3, <1>6, <2>1, <2>3
    <3>2. x[i + 1] = t[i + 1 - Len(s)]
      BY <1>1, <2>1, <3>1
    <3>3. y[i] = t[i - Len(u)]
      BY <1>4, <1>5, <2>1, <2>3
    <3> QED
      BY <2>1, <3>1, <3>2, <3>3
  <2> QED
    BY <2>2, <2>3
<1>10. y \in Seq(S) /\ Len(y) = Len(Tail(x))
  BY <1>1, <1>3, <1>4, <1>5, <1>6, <1>8
<1>11. Tail(x) = y
  BY <1>8, <1>9, <1>10, SeqEqual
<1> QED
  BY <1>6, <1>7, <1>11 DEF x, y

LEMMA MovesCarried ==
  ASSUME SocketInv, NEW own, NEW taken, Road(Stream, Waiting, pending, status, own, taken),
         Stream' = Stream, Waiting' = Waiting, UNCHANGED <<pending, status>>
  PROVE  Carried'
<1>1. Road(Stream, Waiting, pending, status, own, taken)
      <=> Road(Stream', Waiting', pending', status', own, taken)
  BY DEF Road, FramesOwned, AsksOwned, Awaited, Before, ChunksOf, AsksOf
<1> QED
  BY <1>1 DEF Carried

LEMMA PlainCarried ==
  ASSUME SocketInv, TaskMoves \/ Drain \/ Reopen, Carried
  PROVE  Carried'
<1>1. PICK own, taken : Road(Stream, Waiting, pending, status, own, taken)
  BY DEF Carried
<1>2. UNCHANGED <<connected, up, queue, pending, status>>
  BY DEF TaskMoves, Drain, Reopen, client, server
<1>3. Stream' = Stream
  <2>1. CASE TaskMoves \/ Reopen
    BY <2>1 DEF TaskMoves, Reopen, client, server, Stream
  <2>2. CASE Drain
    <3>1. out # <<>> /\ down' = Append(down, Head(out)) /\ out' = Tail(out)
      BY <2>2 DEF Drain
    <3>2. /\ down \in Seq(Frames) /\ out \in Seq(Frames) /\ Head(out) \in Frames
          /\ Tail(out) \in Seq(Frames)
      BY <3>1, StreamTyped, HeadTailProperties
    <3>3. down' = down \o <<Head(out)>>
      BY <3>1, <3>2, AppendIsConcat
    <3>4. <<Head(out)>> \in Seq(Frames)
      BY <3>2
    <3>5. out = <<Head(out)>> \o Tail(out)
      <4>1. Len(out) \in Nat \ {0} /\ Head(out) = out[1]
        BY <3>1, <3>2, EmptySeq
      <4>2. SubSeq(out, 1, Len(out)) = <<out[1]>> \o SubSeq(out, 1 + 1, Len(out))
        <5>1. 1 \in 1..Len(out) /\ Len(out) \in 1..Len(out)
          BY <4>1
        <5> QED
          BY <3>2, <5>1, SubSeqRecursiveFirst
      <4>3. SubSeq(out, 1, Len(out)) = out /\ Tail(out) = SubSeq(out, 2, Len(out)) /\ 1 + 1 = 2
        BY <3>1, <3>2, SubSeqFull, TailIsSubSeq
      <4> QED
        BY <4>1, <4>2, <4>3
    <3> DEFINE o == <<Head(out)>>
               t == Tail(out)
    <3>6. down' = down \o o /\ out' = t /\ out = o \o t /\ o \in Seq(Frames) /\ t \in Seq(Frames)
      BY <3>1, <3>2, <3>3, <3>4, <3>5
    <3> HIDE DEF o, t
    <3>7. (down \o o) \o t = down \o (o \o t)
      BY SMTT(30), <3>2, <3>6, ConcatAssociative
    <3> QED
      BY <3>6, <3>7 DEF Stream
  <2> QED
    BY <2>1, <2>2
<1>4. Waiting' = Waiting
  BY <1>2 DEF Waiting
<1> QED
  BY <1>1, <1>2, <1>3, <1>4, MovesCarried

(* Frames that join the queue of the server join what is under way.         *)
LEMMA JoinsStream ==
  ASSUME SocketInv, NEW t \in Seq(Frames), out' = out \o t, down' = down
  PROVE  Stream' = Stream \o t
<1>1. down \in Seq(Frames) /\ out \in Seq(Frames)
  BY StreamTyped
<1>2. (down \o out) \o t = down \o (out \o t)
  BY SMTT(30), <1>1, ConcatAssociative
<1> QED
  BY <1>2 DEF Stream

LEMMA SentWhole ==
  ASSUME SocketInv, NEW t \in Seq(Frames), SendNow(t), ~lost'
  PROVE  out' = out \o t
<1> DEFINE room == Least(Len(t), QueueCap - Len(out))
<1>1. out' = out \o SubSeq(t, 1, room) /\ lost' = (lost \/ room < Len(t))
  BY DEF SendNow
<1>2. Len(t) \in Nat /\ Len(out) \in Nat /\ QueueCap \in Nat
  BY StreamTyped, SocketConstants
<1>3. room = Len(t)
  <2>1. ~(room < Len(t))
    BY <1>1
  <2> QED
    BY <1>2, <2>1 DEF Least
<1>4. SubSeq(t, 1, Len(t)) = t
  BY SubSeqFull
<1> QED
  BY <1>1, <1>3, <1>4

LEMMA PlainFrames ==
  ASSUME NEW kind \in {"event", "error", "done"}
  PROVE  <<Plain(kind)>> \in Seq(Frames) /\ \A i \in 1..Len(<<Plain(kind)>>) : <<Plain(kind)>>[i].kind # "chunk"
<1>1. Plain(kind).kind = kind
  BY DEF Plain
<1>2. Plain(kind) \in Frames
  BY PlainTyped
<1> DEFINE o == Plain(kind)
<1>3. o \in Frames /\ o.kind # "chunk"
  BY <1>1, <1>2
<1> HIDE DEF o
<1>4. <<o>> \in Seq(Frames) /\ Len(<<o>>) = 1 /\ <<o>>[1] = o
  BY <1>3
<1> DEFINE q == <<o>>
<1>5. q \in Seq(Frames) /\ Len(q) = 1 /\ q[1] = o
  BY <1>4
<1> HIDE DEF q
<1>6. \A i \in 1..Len(q) : i = 1
  BY <1>5
<1>7. \A i \in 1..Len(q) : q[i].kind # "chunk"
  BY <1>3, <1>5, <1>6
<1> QED
  BY <1>5, <1>7 DEF q, o

LEMMA ServerCarried ==
  ASSUME SocketInv, Handle \/ Pump, Carried, Undisturbed'
  PROVE  Carried'
<1>1. PICK own, taken : Road(Stream, Waiting, pending, status, own, taken)
  BY DEF Carried
<1>2. /\ Stream \in Seq(Frames) /\ Waiting \in Seq(Messages) /\ Promised(pending, status)
      /\ out \in Seq(Frames) /\ up \in Seq(Messages)
  BY StreamTyped
<1>3. UNCHANGED <<down, connected, queue, pending, status>>
  BY DEF Handle, Pump, client
<1>4. CASE Pump
  <2>1. PICK kind \in {"event", "done"} : out' = Append(out, Plain(kind))
    BY <1>4 DEF Pump
  <2> DEFINE t == <<Plain(kind)>>
  <2>2. t \in Seq(Frames) /\ \A i \in 1..Len(t) : t[i].kind # "chunk"
    BY PlainFrames
  <2>3. out' = out \o t
    BY <1>2, <2>1, PlainTyped, AppendIsConcat
  <2> HIDE DEF t
  <2>4. Stream' = Stream \o t
    BY <1>3, <2>2, <2>3, JoinsStream
  <2>5. Waiting' = Waiting
    BY <1>3, <1>4 DEF Waiting, Pump
  <2>6. \E own2 : Road(Stream \o t, Waiting, pending, status, own2, taken)
    BY <1>1, <1>2, <2>2, RoadGrows
  <2> QED
    BY <1>3, <2>4, <2>5, <2>6 DEF Carried
<1>5. CASE Handle
  <2>1. /\ session = "serving" /\ up # <<>> /\ up' = Tail(up) /\ ~lost' /\ refused' = {}
    BY <1>5 DEF Handle, Undisturbed
  <2>2. connected /\ Waiting = up /\ Waiting' = Tail(up)
    <3>1. connected
      BY <2>1 DEF SocketInv, LinkInv
    <3> QED
      BY <1>3, <2>1, <3>1 DEF Waiting
  <2>3. CASE Head(up).kind = "fetch" /\ SendNow(Reply(Head(up).fetch))
    <3> DEFINE f == Head(up).fetch
               t == Reply(f)
    <3>1. f \in Fetch
      <4>1. Head(up) \in Messages
        BY <1>2, <2>1, HeadTailProperties
      <4> QED
        BY <2>3, <4>1 DEF Messages, Asking
    <3>2. t \in Seq(Frames)
      BY <3>1, ReplyTyped
    <3>3. SendNow(t)
      BY <2>3
    <3> HIDE DEF t
    <3>4. Stream' = Stream \o t
      BY <1>3, <2>1, <3>2, <3>3, SentWhole, JoinsStream
    <3> DEFINE s2 == Stream \o t
    <3>5. s2 = Stream \o Reply(Head(up).fetch)
      BY DEF t
    <3> HIDE DEF s2, f
    <3>6. \E own2 : Road(s2, Tail(up), pending, status, own2, taken)
      BY <1>1, <1>2, <2>1, <2>2, <2>3, <3>5, RoadAnswers
    <3> QED
      BY <1>3, <2>2, <3>4, <3>6 DEF Carried, s2
  <2>4. CASE Head(up).kind = "subscribe" /\ SendNow(<<Plain("event")>>)
    <3> DEFINE t == <<Plain("event")>>
    <3>1. t \in Seq(Frames) /\ \A i \in 1..Len(t) : t[i].kind # "chunk"
      BY PlainFrames
    <3>2. SendNow(t)
      BY <2>4
    <3> HIDE DEF t
    <3>3. Stream' = Stream \o t
      BY <1>3, <2>1, <3>1, <3>2, SentWhole, JoinsStream
    <3>4. Head(up).kind # "fetch"
      BY <2>4
    <3>5. \E own2 : Road(Stream \o t, Tail(up), pending, status, own2, taken)
      BY <1>1, <1>2, <2>1, <2>2, <3>1, <3>4, RoadGrows
    <3> QED
      BY <1>3, <2>2, <3>3, <3>5 DEF Carried
  <2> QED
    BY <1>5, <2>1, <2>3, <2>4 DEF Handle
<1> QED
  BY <1>4, <1>5

LEMMA OpenCarried ==
  ASSUME SocketInv, Open, Carried
  PROVE  Carried'
<1>1. PICK own, taken : Road(Stream, Waiting, pending, status, own, taken)
  BY DEF Carried
<1>2. /\ Waiting \in Seq(Messages) /\ Promised(pending, status) /\ queue \in Seq(Messages)
  BY StreamTyped
<1>3. /\ ~connected /\ out' = <<>> /\ down' = down /\ connected' /\ queue' = <<>>
      /\ up' = <<[kind |-> "subscribe"]>> \o queue /\ UNCHANGED <<pending, status>>
  BY DEF Open, SocketInv, LinkInv
<1>4. Stream' = Stream
  BY <1>3 DEF Stream, SocketInv, LinkInv
<1> DEFINE m == [kind |-> "subscribe"]
<1>5. m \in Messages /\ m.kind # "fetch"
  BY DEF Messages
<1>6. Waiting = queue /\ Waiting' = <<m>> \o queue
  BY <1>3 DEF Waiting
<1> HIDE DEF m
<1>7. \E own2 : Road(Stream, <<m>> \o queue, pending, status, own2, taken)
  BY <1>1, <1>2, <1>5, <1>6, RoadSubscribes
<1> QED
  BY <1>3, <1>4, <1>6, <1>7 DEF Carried

LEMMA BreakCarried ==
  ASSUME SocketInv, Break, Carried, Undisturbed'
  PROVE  Carried'
<1>1. PICK own, taken : Road(Stream, Waiting, pending, status, own, taken)
  BY DEF Carried
<1>2. /\ Stream \in Seq(Frames) /\ Promised(pending, status) /\ down \in Seq(Frames)
      /\ out \in Seq(Frames)
  BY StreamTyped
<1>3. /\ out' = <<>> /\ up' = <<>> /\ pending = <<>> /\ UNCHANGED <<connected, queue, pending, status>>
  BY DEF Break, Undisturbed, client
<1>4. PICK n \in 0..Len(down) : down' = SubSeq(down, 1, n)
  BY DEF Break
<1>5. Stream' = SubSeq(Stream, 1, n) /\ n \in 0..Len(Stream)
  <2>1. Len(Stream) = Len(down) + Len(out) /\ Len(down) \in Nat /\ Len(out) \in Nat
    BY <1>2, ConcatProperties DEF Stream
  <2>2. n \in Nat /\ n <= Len(down) /\ n \in 0..Len(Stream)
    BY <2>1
  <2>3. SubSeq(down, 1, n) \in Seq(Frames)
    <3>1. 1 \in Int /\ n \in Int /\ \A i \in 1..n : down[i] \in Frames
      BY <1>2, <2>1, <2>2
    <3> QED
      BY <3>1, SubSeqProperties
  <2>4. Stream' = SubSeq(down, 1, n)
    BY <1>3, <1>4, <2>3, ConcatEmptySeq DEF Stream
  <2>5. CASE n = 0
    <3>1. 1 \in Int /\ 0 \in Int /\ 0 < 1
      OBVIOUS
    <3>2. SubSeq(down, 1, 0) = <<>> /\ SubSeq(Stream, 1, 0) = <<>>
      BY <3>1, SubSeqEmpty
    <3> QED
      BY <2>2, <2>4, <2>5, <3>2
  <2>6. CASE n # 0
    <3>1. 1 \in 1..Len(down) /\ n \in 1..Len(down)
      BY <2>1, <2>2, <2>6
    <3>2. SubSeq(down \o out, 1, n) = SubSeq(down, 1, n)
      BY <1>2, <3>1, SubSeqOfConcat1
    <3> QED
      BY <2>2, <2>4, <3>2 DEF Stream
  <2> QED
    BY <2>5, <2>6
<1>6. Waiting' = <<>> \/ Waiting' = Waiting
  BY <1>3 DEF Waiting
<1> DEFINE w2 == Waiting'
<1>7. w2 = <<>> \/ w2 = Waiting
  BY <1>6
<1> HIDE DEF w2
<1>8. \E own2 : Road(SubSeq(Stream, 1, n), w2, pending, status, own2, taken)
  BY <1>1, <1>2, <1>3, <1>5, <1>7, RoadRests
<1> QED
  BY <1>3, <1>5, <1>8 DEF Carried, w2

LEMMA ReconnectCarried ==
  ASSUME SocketInv, Reconnect, Carried, Undisturbed'
  PROVE  Carried'
<1>1. PICK own, taken : Road(Stream, Waiting, pending, status, own, taken)
  BY DEF Carried
<1>2. /\ link = "broken" /\ connected' = FALSE
      /\ UNCHANGED <<up, down, out, queue, pending, status>>
  BY DEF Reconnect, Undisturbed, Abandon
<1>3. up = <<>> /\ (connected => queue = <<>>)
  BY <1>2 DEF SocketInv, LinkInv
<1>4. Stream' = Stream /\ Waiting' = Waiting
  BY <1>2, <1>3 DEF Stream, Waiting
<1> QED
  BY <1>1, <1>2, <1>4, MovesCarried

LEMMA RequestCarried ==
  ASSUME SocketInv, NEW f \in Fetch, Request(f), Carried, Undisturbed'
  PROVE  Carried'
<1>1. PICK own, taken : Road(Stream, Waiting, pending, status, own, taken)
  BY DEF Carried
<1>2. /\ Stream \in Seq(Frames) /\ Waiting \in Seq(Messages) /\ Promised(pending, status)
      /\ status \in [Fetch -> {"idle", "pending", "resolved", "rejected"}]
  BY StreamTyped DEF SocketInv, SocketTyped
<1>3. /\ UNCHANGED <<down, out, connected>> /\ status[f] = "idle" /\ ~closed /\ ~lost'
  BY DEF Request, Undisturbed, server
<1>4. Stream' = Stream
  BY <1>3 DEF Stream
<1>5. CASE /\ status' = [status EXCEPT ![f] = "rejected"]
           /\ UNCHANGED <<pending, queue, up, lost>>
  <2>1. Waiting' = Waiting
    BY <1>3, <1>5 DEF Waiting
  <2>2. Road(Stream, Waiting, pending, [status EXCEPT ![f] = "rejected"], own, taken)
    BY <1>1, <1>2, <1>3, RoadRefuses
  <2> QED
    BY <1>4, <1>5, <2>1, <2>2 DEF Carried
<1> DEFINE e == [fetch |-> f, items |-> <<>>, next |-> f.offset, frameSize |-> 0]
           m == [kind |-> "fetch", fetch |-> f]
<1>6. CASE /\ status' = [status EXCEPT ![f] = "pending"]
           /\ pending' = Append(pending, e)
           /\ queue' = IF connected THEN queue ELSE Append(queue, m)
           /\ up' = IF connected /\ link = "open" THEN Append(up, m) ELSE up
           /\ lost' = (lost \/ (connected /\ link # "open"))
  <2>1. e \in Entries /\ e.fetch = f /\ EntryHolds(e, 0)
    <3>1. f.offset \in Nat /\ 0 * FrameSamples = 0 /\ f.offset + 0 = f.offset /\ <<>> \in Seq(Nat)
      BY SocketConstants
    <3>2. e \in Entries
      BY <3>1 DEF Entries
    <3>3. e.fetch = f /\ e.items = <<>> /\ e.next = f.offset /\ e.frameSize = 0 /\ Len(<<>>) = 0
      OBVIOUS
    <3> HIDE DEF e
    <3> QED
      BY <3>1, <3>2, <3>3 DEF EntryHolds
  <2> HIDE DEF e
  <2>2. connected => link = "open"
    BY <1>3, <1>6
  <2>3. Waiting' = Append(Waiting, m)
    BY <1>3, <1>6, <2>2 DEF Waiting
  <2>4. \E taken2 : Road(Stream, Append(Waiting, m), Append(pending, e),
                         [status EXCEPT ![f] = "pending"], own, taken2)
    BY <1>1, <1>2, <1>3, <2>1, RoadAsks
  <2> QED
    BY <1>4, <1>6, <2>3, <2>4 DEF Carried
<1> QED
  BY <1>5, <1>6 DEF Request

LEMMA ReceiveCarried ==
  ASSUME CapsAgree, SocketInv, Receive, Carried, SlicesGot
  PROVE  Carried' /\ SlicesGot'
<1>1. PICK own, taken : Road(Stream, Waiting, pending, status, own, taken)
  BY DEF Carried
<1>2. /\ Stream \in Seq(Frames) /\ Waiting \in Seq(Messages) /\ Promised(pending, status)
      /\ down \in Seq(Frames) /\ out \in Seq(Frames)
  BY StreamTyped
<1>3. /\ down # <<>> /\ down' = Tail(down) /\ UNCHANGED <<out, up, queue, connected>>
  BY DEF Receive, server
<1>4. Stream # <<>> /\ Head(Stream) = Head(down) /\ Tail(Stream) = Tail(down) \o out
  BY <1>2, <1>3, HeadOfBoth DEF Stream
<1>5. Stream' = Tail(Stream) /\ Waiting' = Waiting
  BY <1>3, <1>4 DEF Stream, Waiting
<1>6. CASE Head(down).kind = "chunk"
  <2>1. AcceptChunk(Head(Stream)) /\ Head(Stream).kind = "chunk"
    BY <1>4, <1>6 DEF Receive
  <2>2. /\ \E own2, taken2 : Road(Tail(Stream), Waiting, pending', status', own2, taken2)
        /\ SlicesGot'
    BY <1>1, <1>2, <1>4, <2>1, RoadReceives
  <2> QED
    BY <1>5, <2>2 DEF Carried
<1>7. CASE Head(down).kind # "chunk"
  <2>1. UNCHANGED <<pending, status, got>>
    BY <1>7 DEF Receive
  <2>2. 1 \notin ChunksOf(Stream)
    BY <1>2, <1>4, <1>7 DEF ChunksOf
  <2>3. \E own2 : Road(Tail(Stream), Waiting, pending, status, own2, taken)
    BY <1>1, <1>2, <1>4, <2>2, RoadDrops
  <2>4. SlicesGot'
    BY <2>1 DEF SlicesGot, Slice, Available
  <2> QED
    BY <1>5, <2>1, <2>3, <2>4 DEF Carried
<1> QED
  BY <1>6, <1>7

(* What settles otherwise than by a frame does not resolve.                 *)
LEMMA SlicesStay ==
  ASSUME SlicesGot, got' = got, \A f \in Fetch : status'[f] = "resolved" => status[f] = "resolved"
  PROVE  SlicesGot'
BY DEF SlicesGot, Slice, Available

LEMMA RoadInit == Init => RoadInv /\ SliceInv
<1> SUFFICES ASSUME Init PROVE RoadInv /\ SliceInv
  OBVIOUS
<1>1. /\ down = <<>> /\ out = <<>> /\ up = <<>> /\ queue = <<>> /\ pending = <<>>
      /\ status = [f \in Fetch |-> "idle"]
  BY DEF Init, Connection
<1>2. Stream = <<>> /\ Waiting = <<>>
  BY <1>1, ConcatEmptySeq DEF Stream, Waiting
<1>3. ChunksOf(Stream) = {} /\ AsksOf(Waiting) = {}
  BY <1>2 DEF ChunksOf, AsksOf
<1>4. Road(Stream, Waiting, pending, status, <<>>, <<>>)
  BY <1>1, <1>3 DEF Road, FramesOwned, AsksOwned
<1>5. SlicesGot
  BY <1>1 DEF SlicesGot
<1> QED
  BY <1>4, <1>5 DEF RoadInv, SliceInv

LEMMA RoadStep ==
  ASSUME CapsAgree, SocketInv, RoadInv, SliceInv, [Next]_vars
  PROVE  RoadInv' /\ SliceInv'
<1>1. CASE UNCHANGED vars
  <2>1. Stream' = Stream /\ Waiting' = Waiting /\ UNCHANGED <<pending, status, got, closed, lost, refused>>
    BY <1>1 DEF vars, server, client, history, Stream, Waiting
  <2>2. RoadInv'
    <3> SUFFICES ASSUME Undisturbed' PROVE Carried'
      BY DEF RoadInv, Carried
    <3>1. Undisturbed
      BY <2>1 DEF Undisturbed
    <3> QED
      BY <2>1, <3>1, MovesCarried DEF RoadInv
  <2>3. SliceInv'
    BY <2>1, SlicesStay DEF SliceInv
  <2> QED
    BY <2>2, <2>3
<1>2. ASSUME Next PROVE (closed => closed') /\ (lost => lost') /\ refused \subseteq refused'
  <2>1. CASE TaskMoves \/ Drain \/ Pump \/ Open \/ Reopen \/ Receive
    <3>1. closed' = closed
      BY <2>1 DEF TaskMoves, Drain, Pump, Open, Reopen, Receive, client
    <3>2. lost' = lost /\ refused' = refused
      BY <2>1 DEF TaskMoves, Drain, Pump, Open, Reopen, Receive, history
    <3> QED
      BY <3>1, <3>2
  <2>2. CASE Handle
    <3>1. closed' = closed /\ refused \subseteq refused'
      BY <2>2 DEF Handle, client
    <3>2. lost => lost'
      BY <2>2 DEF Handle, SendNow, SendError
    <3> QED
      BY <3>1, <3>2
  <2>3. CASE Break
    BY <2>3 DEF Break, client
  <2>4. CASE Close \/ Reconnect
    BY <2>4 DEF Close, Reconnect, Abandon, history
  <2>5. ASSUME NEW f \in Fetch, Request(f)
        PROVE  (closed => closed') /\ (lost => lost') /\ refused \subseteq refused'
    BY <2>5 DEF Request
  <2> QED
    BY <1>2, <2>1, <2>2, <2>3, <2>4, <2>5 DEF Next, Serve
<1>3. ASSUME Next, ~lost', refused' = {} PROVE SlicesGot
  BY <1>2, <1>3 DEF SliceInv
<1>4. ASSUME Next, Undisturbed' PROVE Undisturbed /\ Carried /\ SlicesGot
  <2>1. Undisturbed
    BY <1>2, <1>4 DEF Undisturbed
  <2> QED
    BY <1>3, <1>4, <2>1 DEF RoadInv, Carried, Undisturbed
<1>5. ASSUME Next PROVE RoadInv'
  <2> SUFFICES ASSUME Undisturbed' PROVE Carried'
    BY DEF RoadInv, Carried
  <2>1. CASE TaskMoves \/ Drain \/ Reopen
    BY <1>4, <1>5, <2>1, PlainCarried
  <2>2. CASE Handle \/ Pump
    BY <1>4, <1>5, <2>2, ServerCarried
  <2>3. CASE Open
    BY <1>4, <1>5, <2>3, OpenCarried
  <2>4. CASE Break
    BY <1>4, <1>5, <2>4, BreakCarried
  <2>5. CASE Close
    BY <2>5 DEF Close, Abandon, Undisturbed
  <2>6. CASE Receive
    BY <1>4, <1>5, <2>6, ReceiveCarried
  <2>7. CASE Reconnect
    BY <1>4, <1>5, <2>7, ReconnectCarried
  <2>8. CASE \E f \in Fetch : Request(f)
    BY <1>4, <1>5, <2>8, RequestCarried
  <2> QED
    BY <1>5, <2>1, <2>2, <2>3, <2>4, <2>5, <2>6, <2>7, <2>8 DEF Next, Serve
<1>6. ASSUME Next PROVE SliceInv'
  <2> SUFFICES ASSUME ~lost', refused' = {} PROVE SlicesGot'
    BY DEF SliceInv
  <2>1. SlicesGot
    BY <1>3, <1>6
  <2>2. status \in [Fetch -> {"idle", "pending", "resolved", "rejected"}]
    BY DEF SocketInv, SocketTyped
  <2>3. CASE TaskMoves \/ Serve \/ Open \/ Break \/ Reopen
    <3>1. got' = got /\ status' = status
      BY <2>3 DEF TaskMoves, Serve, Handle, Drain, Pump, Open, Break, Reopen, client
    <3> QED
      BY <2>1, <3>1, SlicesStay
  <2>4. CASE Close \/ Reconnect
    <3>1. got' = got /\ (status' = status \/ Abandon)
      BY <2>4 DEF Close, Reconnect
    <3>2. \A f \in Fetch : status'[f] = "resolved" => status[f] = "resolved"
      BY <2>2, <3>1 DEF Abandon
    <3> QED
      BY <2>1, <3>1, <3>2, SlicesStay
  <2>5. CASE Receive
    <3>1. Undisturbed'
      BY <2>5 DEF Receive, Undisturbed
    <3> QED
      BY <1>4, <1>6, <2>5, <3>1, ReceiveCarried
  <2>6. ASSUME NEW g \in Fetch, Request(g) PROVE SlicesGot'
    <3>1. got' = got /\ \E x \in {"pending", "rejected"} : status' = [status EXCEPT ![g] = x]
      BY <2>6 DEF Request
    <3>2. \A f \in Fetch : status'[f] = "resolved" => status[f] = "resolved"
      BY <2>2, <3>1
    <3> QED
      BY <2>1, <3>1, <3>2, SlicesStay
  <2> QED
    BY <1>6, <2>3, <2>4, <2>5, <2>6 DEF Next
<1> QED
  BY <1>1, <1>5, <1>6 DEF Next

(* However the frames of the replies mix on the connection, a fetch that    *)
(* resolves has the slice it asked for, as long as no frame was lost and no *)
(* fetch was answered with an error (ws.ts, fetch and acceptChunk, with     *)
(* ws.rs, handle_text): for any fetches, frame sizes and queues.            *)
THEOREM FetchesGetTheirSlice ==
  ASSUME CapsAgree
  PROVE  Spec => []FetchesEndWhole
<1>1. Init => SocketInv /\ RoadInv /\ SliceInv
  BY SocketInit, RoadInit
<1>2. SocketInv /\ RoadInv /\ SliceInv /\ [Next]_vars => (SocketInv /\ RoadInv /\ SliceInv)'
  <2> SUFFICES ASSUME SocketInv, RoadInv, SliceInv, [Next]_vars
               PROVE  (SocketInv /\ RoadInv /\ SliceInv)'
    OBVIOUS
  <2>1. SocketInv'
    BY SocketStep
  <2>2. RoadInv' /\ SliceInv'
    BY RoadStep
  <2> QED
    BY <2>1, <2>2
<1>3. SliceInv /\ SocketEndsCleanly /\ NoHoles => FetchesEndWhole
  BY DEF SliceInv, SlicesGot, NoHoles, FetchesEndWhole, ResolvedInOrder
<1> QED
  BY <1>1, <1>2, <1>3, SocketKeepsItsWord, PTL DEF Spec

=============================================================================
