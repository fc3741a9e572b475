------------------------------ MODULE ThetaStar ------------------------------
(***************************************************************************)
(* One run of the Lazy Theta* search over the mixed graph: the main loop   *)
(* of `plan_with_penalty` and the walk back along the parent links.        *)
(*                                                                         *)
(* A job is a graph with the configuration of one search.  `edges` and     *)
(* `cost` are what `neighbours` returns, `links` the edges of kind         *)
(* Connector, `sights` and `sightCost` what `line_of_sight` answers,       *)
(* `penalty` the multipliers of the candidate enumeration, `corridor` the  *)
(* nodes inside the search window, `budget` max_expansions.  Costs are     *)
(* whole numbers; sums of real costs stay far below PRUNE_THRESHOLD, so    *)
(* the pruning of infinite prices is left out.                             *)
(***************************************************************************)
EXTENDS Integers, Sequences

CONSTANTS Node, Start, Goal,
          Jobs,        \* the graphs and configurations a search may be given
          Heuristic,   \* the inflated distance of a node to the goal
          Turn,        \* turn penalty of the corner <<from, at, to>>
          MaxWalk      \* the guard of the walk back (1_000_000 in the code)

Pair == Node \X Node

JobRecord ==
  [ edges : SUBSET Pair, cost : [Pair -> Nat], links : SUBSET Pair,
    sights : SUBSET Pair, sightCost : [Pair -> Nat],
    penalty : [Pair -> Nat \ {0}], corridor : SUBSET Node, budget : Nat ]
JobType == {j \in JobRecord : \A n \in Node : <<n, n>> \notin j.edges}

ASSUME EndsAssumption == Start \in Node /\ Goal \in Node
ASSUME JobsAssumption == Jobs \subseteq JobType
ASSUME PricesAssumption ==
  /\ Heuristic \in [Node -> Nat]
  /\ Turn \in [Node \X Node \X Node -> Nat]
  /\ MaxWalk \in Nat
(* A search that spends its budget still makes a path the walk can follow. *)
ASSUME WalkAssumption == \A j \in Jobs : j.budget <= MaxWalk

VARIABLES
  job,       \* the graph and the configuration, fixed for the run
  known,     \* the keys of the maps `g` and `parent`, inserted together
  g,         \* the price of a known node
  parent,    \* where a known node is reached from
  closed,    \* the nodes popped and closed
  open,      \* the heap, entries [key, node]; stale ones stay in it
  expanded,  \* nodes expanded so far
  phase,     \* "search", "walk" and the four ends
  nodes      \* the path, built backwards from the goal

vars == <<job, known, g, parent, closed, open, expanded, phase, nodes>>

Phases == {"search", "walk", "found", "lost", "nopath", "truncated"}
Entry == [key : Nat, node : Node]
EntryOf(n, price) == [key |-> price + Heuristic[n], node |-> n]

HasEdge(u, v) == <<u, v>> \in job.edges
Sees(u, v) == <<u, v>> \in job.sights

(* The search starts from the snapped start node, its own parent.          *)
Init ==
  /\ job \in Jobs
  /\ known = {Start}
  /\ g = [n \in Node |-> 0]
  /\ parent = [n \in Node |-> n]
  /\ closed = {}
  /\ open = {EntryOf(Start, 0)}
  /\ expanded = 0
  /\ phase = "search"
  /\ nodes = <<>>

-----------------------------------------------------------------------------

(* The heap's next entry: a lowest key.  Which of equal keys comes first    *)
(* depends on the numbering of the nodes, which is the map's.              *)
Cheapest == {e \in open : \A other \in open : e.key <= other.key}

(* Where `at` may hang after the lazy repair.  An incoming line that is    *)
(* blocked is replaced by a cheapest closed neighbour in sight; with none, *)
(* the node keeps the edge it was reached by.                              *)
Bug_RepairPrice(n, at) == g[n]
RepairPrice(n, at) == g[n] + job.sightCost[<<n, at>>]
Repairers(at) == {n \in closed : HasEdge(at, n) /\ Sees(n, at)}
Broken(at) == parent[at] # at /\ ~Sees(parent[at], at)
Footholds(at) ==
  IF Broken(at) /\ Repairers(at) # {}
  THEN {[from |-> n, price |-> RepairPrice(n, at)] :
          n \in {m \in Repairers(at) :
                   \A o \in Repairers(at) : RepairPrice(m, at) <= RepairPrice(o, at)}}
  ELSE {[from |-> parent[at], price |-> g[at]]}

(* The price of reaching `next` by the edge from `at`, turn included.      *)
StepCost(at, foot, next) ==
  job.cost[<<at, next>>] * job.penalty[<<at, next>>]
  + (IF foot.from # at /\ <<at, next>> \notin job.links
     THEN Turn[<<foot.from, at, next>>] ELSE 0)

(* The update rule: a line of sight from the grandparent is taken at its   *)
(* own price, whatever the two edges cost; else the edge.                  *)
Bug_Offer(at, foot, next) ==
  IF foot.from # at
  THEN [from |-> foot.from,
        price |-> g[foot.from] + job.sightCost[<<foot.from, next>>]
                                 * job.penalty[<<foot.from, next>>]]
  ELSE [from |-> at, price |-> foot.price + StepCost(at, foot, next)]
Offer(at, foot, next) ==
  IF foot.from # at /\ Sees(foot.from, next)
  THEN [from |-> foot.from,
        price |-> g[foot.from] + job.sightCost[<<foot.from, next>>]
                                 * job.penalty[<<foot.from, next>>]]
  ELSE [from |-> at, price |-> foot.price + StepCost(at, foot, next)]

Bug_Overwrites(at, foot) == {next \in job.corridor : HasEdge(at, next)}
Bug_InSightOnly(at, foot) ==
  {next \in job.corridor :
     /\ HasEdge(at, next) /\ Sees(at, next)
     /\ next \notin known \/ Offer(at, foot, next).price < g[next]}
Improved(at, foot) ==
  {next \in job.corridor :
     /\ HasEdge(at, next)
     /\ next \notin known \/ Offer(at, foot, next).price < g[next]}

-----------------------------------------------------------------------------

(* The budget counts expansions and is looked at before one.               *)
Spent == expanded >= job.budget

(* The goal leaves the heap: the search is over and the walk back begins.  *)
PopGoal ==
  /\ phase = "search"
  /\ \E e \in Cheapest : e.node = Goal /\ open' = open \ {e}
  /\ phase' = "walk"
  /\ nodes' = <<Goal>>
  /\ UNCHANGED <<job, known, g, parent, closed, expanded>>

(* An entry of a node that is closed already.                              *)
PopStale ==
  /\ phase = "search"
  /\ \E e \in Cheapest :
       /\ e.node # Goal
       /\ e.node \in closed
       /\ open' = open \ {e}
  /\ UNCHANGED <<job, known, g, parent, closed, expanded, phase, nodes>>

(* The budget is spent: the node is closed, the search given up.           *)
Truncate ==
  /\ phase = "search"
  /\ Spent
  /\ \E e \in Cheapest :
       /\ e.node # Goal
       /\ e.node \notin closed
       /\ open' = open \ {e}
       /\ closed' = closed \cup {e.node}
  /\ phase' = "truncated"
  /\ UNCHANGED <<job, known, g, parent, expanded, nodes>>

(* One expansion: repair, then every neighbour.  A neighbour's update      *)
(* reads the prices of `at` and of its parent only, which no update of the *)
(* same expansion changes, so the updates are written as one.              *)
Relax(at, foot) ==
  LET better == Improved(at, foot)
  IN /\ known' = known \cup better
     /\ g' = [n \in Node |->
                IF n \in better THEN Offer(at, foot, n).price
                ELSE IF n = at THEN foot.price ELSE g[n]]
     /\ parent' = [n \in Node |->
                IF n \in better THEN Offer(at, foot, n).from
                ELSE IF n = at THEN foot.from ELSE parent[n]]

Expand ==
  /\ phase = "search"
  /\ ~Spent
  /\ \E e \in Cheapest :
       /\ e.node # Goal
       /\ e.node \notin closed
       /\ closed' = closed \cup {e.node}
       /\ \E foot \in Footholds(e.node) :
            /\ Relax(e.node, foot)
            /\ open' = (open \ {e}) \cup
                 {EntryOf(n, Offer(e.node, foot, n).price) : n \in Improved(e.node, foot)}
  /\ expanded' = expanded + 1
  /\ UNCHANGED <<job, phase, nodes>>

(* The heap is empty and the goal was not reached.                         *)
GiveUp ==
  /\ phase = "search"
  /\ open = {}
  /\ phase' = "nopath"
  /\ UNCHANGED <<job, known, g, parent, closed, open, expanded, nodes>>

(* One step of the walk back, and its end: at the start, at a node that is *)
(* its own parent, or at the guard.                                        *)
MayClimb ==
  LET cursor == Head(nodes)
  IN cursor # Start /\ parent[cursor] # cursor /\ Len(nodes) - 1 <= MaxWalk

Climb ==
  /\ phase = "walk"
  /\ MayClimb
  /\ nodes' = <<parent[Head(nodes)]>> \o nodes
  /\ UNCHANGED <<job, known, g, parent, closed, open, expanded, phase>>

Finish ==
  /\ phase = "walk"
  /\ ~MayClimb
  /\ phase' = IF Head(nodes) = Start THEN "found" ELSE "lost"
  /\ UNCHANGED <<job, known, g, parent, closed, open, expanded, nodes>>

Next == PopGoal \/ PopStale \/ Truncate \/ Expand \/ GiveUp \/ Climb \/ Finish

Spec == Init /\ [][Next]_vars

-----------------------------------------------------------------------------

(* Every variable has its type.                                            *)
TypeOK ==
  /\ job \in JobType
  /\ known \in SUBSET Node
  /\ g \in [Node -> Nat]
  /\ parent \in [Node -> Node]
  /\ closed \in SUBSET Node
  /\ open \in SUBSET Entry
  /\ expanded \in Nat
  /\ phase \in Phases
  /\ nodes \in Seq(Node)

(* A node hangs where something leads to it, an edge or a line of sight,   *)
(* and its price covers its parent's and that step.  Shortcuts, repairs    *)
(* that raise a price and closed nodes hung elsewhere for a lower one all  *)
(* keep it so (theta.rs: repair and update rule).                          *)
Covered(p, v) ==
  \/ HasEdge(p, v) /\ g[v] >= g[p] + job.cost[<<p, v>>]
  \/ Sees(p, v) /\ g[v] >= g[p] + job.sightCost[<<p, v>>]
PricesCoverTheLinks == \A v \in known \ {Start} : Covered(parent[v], v)

(* A node that has not been expanded has no children: this is why a repair *)
(* may raise its price (theta.rs: the repair comes before the updates).    *)
OnlyClosedNodesHaveChildren == \A v \in known \ {Start} : parent[v] \in closed

(* The path of a found route is made of edges and lines of sight, in the   *)
(* direction they may be run (theta.rs: the nodes of SearchResult).        *)
PathIsWalkable ==
  phase = "found" =>
    \A i \in 1 .. Len(nodes) - 1 :
      HasEdge(nodes[i], nodes[i + 1]) \/ Sees(nodes[i], nodes[i + 1])

(* The walk back from a reached goal ends at the start: the parent links   *)
(* make no cycle, though closed nodes are hung elsewhere and prices are    *)
(* raised (theta.rs: the second NoPath is never the answer).               *)
WalkReachesStart == phase # "lost"

(* NoPath for an empty heap is true: some set of nodes holds the start and *)
(* not the goal, and no edge inside the corridor leaves it.                *)
Cut(S) ==
  /\ Start \in S
  /\ Goal \notin S
  /\ \A u \in S, v \in job.corridor : HasEdge(u, v) => v \in S
NoPathIsTrue == phase = "nopath" => \E S \in SUBSET Node : Cut(S)

(* What a search answers is true: its route can be walked, and where it    *)
(* says that there is none, the goal is cut off.                           *)
OutcomeIsTrue == PathIsWalkable /\ NoPathIsTrue

(* The budget counts expansions: it is never exceeded, and a search is     *)
(* truncated only after spending all of it (theta.rs: max_expansions = 1   *)
(* must expand one node, not two).                                         *)
BudgetIsSpentExactly ==
  /\ expanded <= job.budget
  /\ phase = "truncated" => expanded = job.budget
=============================================================================
