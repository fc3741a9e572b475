----------------------------- MODULE MCThetaStar -----------------------------
(* ThetaStar on a family of jobs over five nodes: plane edges with two ways *)
(* round to the goal, a one-way connector link without a line of sight,     *)
(* a wall, and shortcuts that are missing, cheap or dear.                   *)
EXTENDS ThetaStar, FiniteSets, TLC

CONSTANTS s, a, b, c, t

Nodes == {s, a, b, c, t}
Both(u, v) == {<<u, v>>, <<v, u>>}

(* A plane edge exists where its line of sight does, at the same cost; the  *)
(* last one joins two coincident points.                                    *)
PlaneCost(near) ==
  [e \in {<<s, a>>, <<a, s>>} |-> near] @@ [e \in Both(a, b) |-> 1]
  @@ [e \in Both(b, t) |-> 2] @@ [e \in Both(a, c) |-> 2] @@ [e \in Both(c, t) |-> 0]
Wall == Both(b, t) \cup Both(c, t)
Far == << Both(s, b), Both(s, t), Both(a, t), Both(b, c) >>

LinkCost == 2
Job(near, wall, link, far, dearer, corridor, budget) ==
  LET plane == PlaneCost(near)
      blocked == IF wall THEN Wall ELSE {}
      planeEdges == DOMAIN plane \ blocked
      long == UNION {Far[i] : i \in {k \in DOMAIN Far : far[k] > 0}} \ blocked
      at(p) == CHOOSE k \in DOMAIN Far : p \in Far[k]
  IN [ edges |-> planeEdges \cup link,
       cost |-> [p \in Pair |-> IF p \in planeEdges THEN plane[p] ELSE LinkCost],
       links |-> link,
       sights |-> planeEdges \cup long \cup {<<n, n>> : n \in Node},
       sightCost |-> [p \in Pair |->
          IF p \in planeEdges THEN plane[p] ELSE IF p \in long THEN far[at(p)] ELSE 0],
       penalty |-> [p \in Pair |-> IF p \in dearer THEN 2 ELSE 1],
       corridor |-> corridor, budget |-> budget ]

(* A shortcut is missing (0), cheap or dear.                                *)
Shortcut == {0, 1, 9}
AllJobs ==
  {Job(near, wall, link, far, dearer, corridor, budget) :
     near \in {1, 4}, wall \in BOOLEAN,
     link \in {{}, {<<s, c>>}, {<<b, c>>}, {<<c, t>>}}, far \in [1 .. 4 -> Shortcut],
     dearer \in {{}, {<<s, a>>, <<a, b>>}}, corridor \in {Node, Node \ {b}},
     budget \in {2, 9}}

(* Inflated as the configuration allows, and never above the true distance. *)
ToGoal == s :> 3 @@ a :> 2 @@ b :> 1 @@ c :> 1 @@ t :> 0
Admissible == s :> 1 @@ a :> 1 @@ b :> 1 @@ c :> 0 @@ t :> 0
Corner == [w \in Node \X Node \X Node |-> IF w[1] = w[3] THEN 6 ELSE IF w = <<s, a, b>> THEN 3 ELSE 0]

-----------------------------------------------------------------------------

(* What the links of the route cost, each at the cheaper of its edge and    *)
(* its sight.                                                               *)
Step(u, v) ==
  LET prices == {job.cost[p] : p \in {<<u, v>>} \cap job.edges}
                \cup {job.sightCost[p] : p \in {<<u, v>>} \cap job.sights}
  IN CHOOSE x \in prices : \A y \in prices : x <= y
RouteCost(r) ==
  LET sum[i \in 1 .. Len(r)] == IF i = 1 THEN 0 ELSE sum[i - 1] + Step(r[i - 1], r[i])
  IN sum[Len(r)]
EdgeRoutes ==
  {r \in UNION {[1 .. k -> Node] : k \in 2 .. Cardinality(Node)} :
     /\ r[1] = Start /\ r[Len(r)] = Goal
     /\ \A i \in 1 .. Len(r) - 1 : HasEdge(r[i], r[i + 1]) /\ r[i + 1] \in job.corridor}

(* Without penalties, a found route costs at most Factor times any route    *)
(* along the edges (theta.rs, SearchConfig::epsilon: "Values above one      *)
(* trade optimality for speed with a bounded suboptimality factor").        *)
Factor == 2
SuboptimalityIsBounded ==
  (phase = "found" /\ \A p \in Pair : job.penalty[p] = 1) =>
    \A r \in EdgeRoutes : RouteCost(nodes) <= Factor * RouteCost(r)
=============================================================================
