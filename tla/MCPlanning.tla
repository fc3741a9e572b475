------------------------------ MODULE MCPlanning ------------------------------
(* From a request to a path (`focus`): one search (MCThetaStar), the planning*)
(* of a request over legs that are given (MCRoutePlan), or what is asked for *)
(* at all (MCRequests): stops that are edited, the other fields, or bodies   *)
(* of other clients.                                                         *)
EXTENDS MCThetaStar, MCRoutePlan, MCRequests

VARIABLE focus

OneRequest == <<<<0, 0>>, <<4, 0>>>>
OneJob == Job(1, FALSE, {}, [k \in 1..4 |-> 0], {}, Node, 9)

Asking == {"stops", "fields", "client"}

(* The two ends come first, and then what the focus is on.                  *)
RouteOf(d) == <<d.mode, d.start, d.goal, d.reference, d.waypoints, d.checkpoints>>
LastEdit == IF focus = "fields" THEN 4 ELSE MaxEdits
InOrder ==
  /\ edits # edits' =>
       /\ focus # "client" /\ draft # draft'
       /\ edits < 2 => PlaceNext(IF edits = 0 THEN "here" ELSE "there")
       /\ edits >= 2 => (RouteOf(draft) # RouteOf(draft') <=> focus = "stops")
       /\ focus = "fields" /\ edits = 3 =>
            /\ shelf = {"m1"} /\ draft.mode = "standard" /\ draft.with_metrics = "on"
            /\ draft.choices["sensors.mount"] = "default"
  /\ shelf # shelf' => posted.answer = "queued" /\ posted.ids = shelf /\ focus = "client"
  /\ posted' # posted => (focus = "client" <=> posted'.from = "client")

(* A draft is submitted once, and the library changes while a task waits.   *)
Composed ==
  /\ posted = Nowhere
  /\ IF edits < LastEdit THEN RequestsNext ELSE Submit
Taken == posted # Nowhere /\ (RunTask \/ ShelfMoves)

MCInit ==
  /\ focus \in {"search", "plan"} \cup Asking
  /\ focus = "search" \/ (focus # "search" /\ job = OneJob)
  /\ focus = "plan" \/ (focus # "plan" /\ request = OneRequest)
  /\ RequestsInit
  /\ focus = "fields" \/ (focus # "fields" /\ draft = DefaultForm)
  /\ CASE focus = "fields" -> shelf \in {{"m1"}, MapIds}
       [] focus = "stops" -> shelf = {"m1"}
       [] focus = "client" -> TRUE
       [] OTHER -> shelf = {}
  /\ Init /\ PlanInit

MCNext ==
  /\ \/ focus = "search" /\ Next /\ UNCHANGED <<planVars, requestVars>>
     \/ focus = "plan" /\ PlanNext /\ UNCHANGED <<vars, requestVars>>
     \/ focus \in Asking /\ (Composed \/ Taken) /\ InOrder /\ UNCHANGED <<vars, planVars>>
  /\ UNCHANGED focus

MCSpec == MCInit /\ [][MCNext]_<<focus, vars, planVars, requestVars>>
===============================================================================
