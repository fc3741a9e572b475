--------------------------- MODULE PlanningProofs ---------------------------
(***************************************************************************)
(* From a request to a path, on every map.                                 *)
(*                                                                         *)
(* The search: the parent links are edges and lines of sight whose prices  *)
(* add up, only closed nodes have children, a found route is walkable, and *)
(* an empty heap without the goal means that the goal cannot be reached.   *)
(*                                                                         *)
(* The plan: the pins of the elastic band stay on the joints of the legs,  *)
(* however many midpoints are inserted, and what is shipped is clear all   *)
(* the way from start to goal, whatever a pass did to the line.            *)
(***************************************************************************)
EXTENDS ThetaStar, RoutePlan, FiniteSets, FiniteSetTheorems, SequenceTheorems,
        WellFoundedInduction, TLAPS

-----------------------------------------------------------------------------
(* The search. *)

(* Between expansions the closed nodes have given all their neighbours     *)
(* entries in the maps, and what is known is closed or waits in the heap.  *)
Frontier ==
  phase \in {"search", "nopath"} =>
    /\ Goal \notin closed
    /\ \A v \in known : v \in closed \/ \E e \in open : e.node = v
    /\ \A u \in closed, v \in job.corridor : HasEdge(u, v) => v \in known
Empty == phase = "nopath" => open = {}

(* The path under construction follows the parent links.                   *)
FollowsParents ==
  /\ \A i \in 1 .. Len(nodes) : nodes[i] \in known
  /\ \A i \in 1 .. Len(nodes) - 1 :
       nodes[i + 1] # Start /\ nodes[i] = parent[nodes[i + 1]]
Walking == phase = "walk" => nodes # <<>>
Searching == phase = "search" => nodes = <<>>

(* The maps: the start is its own parent and costs nothing; what hangs     *)
(* somewhere hangs at a known node.                                        *)
Rooted ==
  /\ Start \in known
  /\ parent[Start] = Start
  /\ g[Start] = 0
  /\ closed \subseteq known
  /\ \A e \in open : e.node \in known

SearchInvariant ==
  /\ TypeOK
  /\ Rooted
  /\ PricesCoverTheLinks
  /\ OnlyClosedNodesHaveChildren
  /\ Frontier
  /\ Empty
  /\ FollowsParents
  /\ Walking
  /\ Searching

-----------------------------------------------------------------------------

(* Multiplying a price by a penalty never lowers it.                       *)
LEMMA PenaltyNeverLowers ==
  ASSUME NEW x \in Nat, NEW p \in Nat \ {0}
  PROVE  x * p \in Nat /\ x * p >= x
<1>1. p >= 1
  OBVIOUS
<1>2. PICK q \in Nat : p = q + 1
  BY <1>1
<1>3. x * p = x * q + x
  BY <1>2
<1>4. x * q \in Nat
  BY <1>2
<1> QED
  BY <1>3, <1>4

LEMMA InitInvariant == Init => SearchInvariant
<1> SUFFICES ASSUME Init PROVE SearchInvariant
  OBVIOUS
<1> USE EndsAssumption, JobsAssumption, PricesAssumption DEF Init
<1>1. TypeOK
  <2>1. EntryOf(Start, 0) \in Entry
    BY DEF EntryOf, Entry
  <2> QED
    BY <2>1 DEF TypeOK, Phases
<1>2. Rooted
  BY DEF Rooted, EntryOf
<1>3. PricesCoverTheLinks /\ OnlyClosedNodesHaveChildren
  BY DEF PricesCoverTheLinks, OnlyClosedNodesHaveChildren
<1>4. Frontier /\ Empty
  BY DEF Frontier, Empty, EntryOf
<1>5. FollowsParents /\ Walking /\ Searching
  BY DEF FollowsParents, Walking, Searching
<1> QED
  BY <1>1, <1>2, <1>3, <1>4, <1>5 DEF SearchInvariant

-----------------------------------------------------------------------------

(* What an expansion of `at` from a foothold rests on.                     *)
Ready(at, foot) ==
  /\ at \in known \ closed
  /\ foot.from \in known
  /\ foot.from \in Node
  /\ foot.price \in Nat
  /\ at = Start => foot.from = Start /\ foot.price = 0
  /\ at # Start =>
       /\ foot.from \in closed
       /\ \/ /\ HasEdge(foot.from, at)
             /\ foot.price >= g[foot.from] + job.cost[<<foot.from, at>>]
          \/ /\ Sees(foot.from, at)
             /\ foot.price >= g[foot.from] + job.sightCost[<<foot.from, at>>]

(* The repair leaves the node on a closed node it is joined to, at a price *)
(* that covers the step.                                                   *)
LEMMA FootholdIsReady ==
  ASSUME SearchInvariant, NEW at \in known \ closed, NEW foot \in Footholds(at)
  PROVE  Ready(at, foot)
<1> USE DEF SearchInvariant
<1>1. /\ at \in Node /\ closed \subseteq known /\ known \subseteq Node
      /\ g \in [Node -> Nat] /\ parent \in [Node -> Node]
      /\ job.sightCost \in [Pair -> Nat] /\ job.cost \in [Pair -> Nat]
  BY DEF TypeOK, Rooted, JobType, JobRecord
<1>2. CASE Broken(at) /\ Repairers(at) # {}
  <2>1. PICK n \in Repairers(at) : foot = [from |-> n, price |-> RepairPrice(n, at)]
    BY <1>2 DEF Footholds
  <2>2. n \in closed /\ Sees(n, at)
    BY <2>1 DEF Repairers
  <2>3. at # Start
    BY <1>2 DEF Broken, Rooted
  <2>4. <<n, at>> \in Pair
    BY <1>1, <2>2 DEF Pair
  <2>5. job.sightCost[<<n, at>>] \in Nat /\ g[n] \in Nat
    BY <1>1, <2>2, <2>4
  <2>6. foot.from = n /\ foot.price = g[n] + job.sightCost[<<n, at>>]
    BY <2>1 DEF RepairPrice
  <2> QED
    BY <1>1, <2>2, <2>3, <2>5, <2>6 DEF Ready
<1>3. CASE ~(Broken(at) /\ Repairers(at) # {})
  <2>1. foot.from = parent[at] /\ foot.price = g[at]
    BY <1>3 DEF Footholds
  <2>2. CASE at = Start
    BY <1>1, <2>1, <2>2 DEF Ready, Rooted
  <2>3. CASE at # Start
    <3>1. parent[at] \in closed /\ Covered(parent[at], at)
      BY <2>3 DEF PricesCoverTheLinks, OnlyClosedNodesHaveChildren
    <3> QED
      BY <1>1, <2>1, <2>3, <3>1 DEF Ready, Covered
  <2> QED
    BY <2>2, <2>3
<1> QED
  BY <1>2, <1>3

(* An offer is an edge from the expanded node or a line of sight from its  *)
(* foothold, and its price covers that step.                               *)
GoodOffer(at, foot, next) ==
  LET offer == Offer(at, foot, next)
  IN /\ offer.price \in Nat
     /\ \/ /\ offer.from = at
           /\ offer.price >= foot.price + job.cost[<<at, next>>]
        \/ /\ offer.from = foot.from
           /\ foot.from # at
           /\ Sees(foot.from, next)
           /\ offer.price >= g[foot.from] + job.sightCost[<<foot.from, next>>]

LEMMA OffersCover ==
  ASSUME SearchInvariant, NEW at \in known \ closed, NEW foot, Ready(at, foot),
         NEW next \in Node, HasEdge(at, next)
  PROVE  GoodOffer(at, foot, next)
<1>1. /\ at \in Node /\ foot.from \in Node /\ foot.price \in Nat
      /\ g \in [Node -> Nat]
      /\ job.sightCost \in [Pair -> Nat] /\ job.cost \in [Pair -> Nat]
      /\ job.penalty \in [Pair -> Nat \ {0}]
      /\ Turn \in [Node \X Node \X Node -> Nat]
  BY PricesAssumption DEF SearchInvariant, TypeOK, Ready, JobType, JobRecord
<1>2. CASE foot.from # at /\ Sees(foot.from, next)
  <2> DEFINE sight == job.sightCost[<<foot.from, next>>]
             penalty == job.penalty[<<foot.from, next>>]
  <2>1. <<foot.from, next>> \in Pair
    BY <1>1 DEF Pair
  <2>2. sight \in Nat /\ penalty \in Nat \ {0} /\ g[foot.from] \in Nat
    BY <1>1, <2>1
  <2>3. sight * penalty \in Nat /\ sight * penalty >= sight
    BY <2>2, PenaltyNeverLowers
  <2>4. Offer(at, foot, next) = [from |-> foot.from, price |-> g[foot.from] + sight * penalty]
    BY <1>2 DEF Offer
  <2> HIDE DEF sight, penalty
  <2>5. g[foot.from] + sight * penalty >= g[foot.from] + sight
    BY <2>2, <2>3
  <2> QED
    BY <1>2, <2>2, <2>3, <2>4, <2>5 DEF sight, GoodOffer
<1>3. CASE ~(foot.from # at /\ Sees(foot.from, next))
  <2> DEFINE cost == job.cost[<<at, next>>]
             penalty == job.penalty[<<at, next>>]
             turn == IF foot.from # at /\ <<at, next>> \notin job.links
                     THEN Turn[<<foot.from, at, next>>] ELSE 0
  <2>1. <<at, next>> \in Pair /\ <<foot.from, at, next>> \in Node \X Node \X Node
    BY <1>1 DEF Pair
  <2>2. cost \in Nat /\ penalty \in Nat \ {0} /\ turn \in Nat
    BY <1>1, <2>1
  <2>3. cost * penalty \in Nat /\ cost * penalty >= cost
    BY <2>2, PenaltyNeverLowers
  <2>4. Offer(at, foot, next) = [from |-> at, price |-> foot.price + (cost * penalty + turn)]
    BY <1>3 DEF Offer, StepCost
  <2> DEFINE penalised == cost * penalty
  <2>5. penalised \in Nat /\ penalised >= cost
    BY <2>3
  <2> HIDE DEF cost, penalty, turn, penalised
  <2>6. /\ foot.price + (penalised + turn) \in Nat
        /\ foot.price + (penalised + turn) >= foot.price + cost
    BY <1>1, <2>2, <2>5
  <2> QED
    BY <2>4, <2>6 DEF cost, penalised, GoodOffer
<1> QED
  BY <1>2, <1>3

(* No update of an expansion touches the nodes the others read: the start, *)
(* the expanded node and its foothold.                                     *)
LEMMA FootingStays ==
  ASSUME SearchInvariant, NEW at \in known \ closed, NEW foot, Ready(at, foot)
  PROVE  /\ at \notin Improved(at, foot)
         /\ foot.from \notin Improved(at, foot)
         /\ Start \notin Improved(at, foot)
<1>1. /\ at \in Node /\ foot.from \in Node /\ foot.price \in Nat
      /\ foot.from \in known /\ Start \in known /\ Start \in Node
      /\ g \in [Node -> Nat] /\ g[Start] = 0
      /\ job.sightCost \in [Pair -> Nat] /\ job.cost \in [Pair -> Nat]
  BY EndsAssumption DEF SearchInvariant, TypeOK, Ready, Rooted, JobType, JobRecord
<1>2. at \notin Improved(at, foot)
  <2>1. ~HasEdge(at, at)
    BY <1>1 DEF SearchInvariant, TypeOK, JobType, HasEdge
  <2> QED
    BY <2>1 DEF Improved
<1>3. ASSUME NEW n \in Node, HasEdge(at, n), n = Start \/ n = foot.from
      PROVE  Offer(at, foot, n).price >= g[n]
  <2>1. Offer(at, foot, n).price \in Nat
    BY <1>3, OffersCover DEF GoodOffer
  <2>2. CASE n = Start
    BY <1>1, <2>1, <2>2
  <2>3. CASE n # Start
    <3>1. n = foot.from /\ at # Start /\ foot.from # at
      BY <1>3, <2>3, <1>2, <1>1 DEF Ready, SearchInvariant, TypeOK, JobType, HasEdge
    <3>2. foot.price >= g[n]
      <4>1. <<foot.from, at>> \in Pair /\ g[n] \in Nat
        BY <1>1, <3>1 DEF Pair
      <4>2. job.cost[<<foot.from, at>>] \in Nat /\ job.sightCost[<<foot.from, at>>] \in Nat
        BY <1>1, <4>1
      <4> QED
        BY <1>1, <3>1, <4>1, <4>2 DEF Ready
    <3>3. /\ job.cost[<<at, n>>] \in Nat /\ job.sightCost[<<foot.from, n>>] \in Nat
          /\ g[n] \in Nat
      BY <1>1 DEF Pair
    <3>4. \/ Offer(at, foot, n).price >= foot.price + job.cost[<<at, n>>]
          \/ Offer(at, foot, n).price >= g[foot.from] + job.sightCost[<<foot.from, n>>]
      BY <1>3, OffersCover DEF GoodOffer
    <3> QED
      BY <1>1, <2>1, <3>1, <3>2, <3>3, <3>4
  <2> QED
    BY <2>2, <2>3
<1>4. ASSUME NEW n \in Node, n = Start \/ n = foot.from
      PROVE  n \notin Improved(at, foot)
  <2>1. SUFFICES ASSUME HasEdge(at, n) PROVE ~(Offer(at, foot, n).price < g[n])
    BY <1>1, <1>4 DEF Improved
  <2>2. Offer(at, foot, n).price \in Nat /\ g[n] \in Nat
    BY <1>1, <2>1, OffersCover DEF GoodOffer
  <2>3. Offer(at, foot, n).price >= g[n]
    BY <1>3, <1>4, <2>1
  <2> QED
    BY <2>2, <2>3
<1> QED
  BY <1>1, <1>2, <1>4

-----------------------------------------------------------------------------

(* An expansion, taken apart: the node, its foothold and the updates.      *)
Expands(e, foot) ==
  /\ e \in Cheapest
  /\ e.node # Goal
  /\ e.node \notin closed
  /\ foot \in Footholds(e.node)
  /\ closed' = closed \cup {e.node}
  /\ Relax(e.node, foot)
  /\ open' = (open \ {e}) \cup
       {EntryOf(n, Offer(e.node, foot, n).price) : n \in Improved(e.node, foot)}
  /\ expanded' = expanded + 1
  /\ phase = "search"
  /\ UNCHANGED <<job, phase, nodes>>

(* The node was waiting, its foothold is sound, the nodes read by the      *)
(* updates stay, and every update is a good offer.                         *)
Sound(at, foot) ==
  /\ at \in known \ closed /\ at \in Node
  /\ Ready(at, foot)
  /\ Improved(at, foot) \subseteq Node
  /\ at \notin Improved(at, foot)
  /\ foot.from \notin Improved(at, foot)
  /\ Start \notin Improved(at, foot)
  /\ \A n \in Improved(at, foot) :
       /\ GoodOffer(at, foot, n)
       /\ HasEdge(at, n)
       /\ n \in known => Offer(at, foot, n).price < g[n]

LEMMA ExpansionIsSound ==
  ASSUME SearchInvariant, NEW e \in Entry, NEW foot, Expands(e, foot)
  PROVE  Sound(e.node, foot)
<1> DEFINE at == e.node
<1>1. at \in known \ closed /\ at \in Node /\ Improved(at, foot) \subseteq Node
  BY DEF Expands, Cheapest, SearchInvariant, TypeOK, Rooted, Improved, JobType, JobRecord
<1>2. Ready(at, foot)
  BY <1>1, FootholdIsReady DEF Expands
<1>3. /\ at \notin Improved(at, foot)
      /\ foot.from \notin Improved(at, foot)
      /\ Start \notin Improved(at, foot)
  BY <1>1, <1>2, FootingStays
<1>4. ASSUME NEW n \in Improved(at, foot)
      PROVE  /\ GoodOffer(at, foot, n)
             /\ HasEdge(at, n)
             /\ n \in known => Offer(at, foot, n).price < g[n]
  <2>1. /\ HasEdge(at, n) /\ n \in Node
        /\ n \in known => Offer(at, foot, n).price < g[n]
    BY <1>1 DEF Improved
  <2> QED
    BY <1>1, <1>2, <2>1, OffersCover
<1> QED
  BY <1>1, <1>2, <1>3, <1>4 DEF Sound

LEMMA ExpandInvariant ==
  ASSUME SearchInvariant, Expand
  PROVE  SearchInvariant'
<1>1. PICK e, foot : e \in Entry /\ Expands(e, foot)
  BY DEF Expand, Expands, Cheapest, SearchInvariant, TypeOK
<1> DEFINE at == e.node
           better == Improved(at, foot)
<1>2. /\ known \in SUBSET Node /\ closed \in SUBSET Node /\ closed \subseteq known
      /\ g \in [Node -> Nat] /\ parent \in [Node -> Node]
      /\ Start \in Node /\ Start \in known /\ open \in SUBSET Entry
      /\ at \in known \ closed /\ at \in Node /\ better \subseteq Node
  BY <1>1, EndsAssumption, ExpansionIsSound DEF SearchInvariant, TypeOK, Rooted, Sound
<1>3. Ready(at, foot)
  BY <1>1, ExpansionIsSound DEF Sound
<1>4. at \notin better /\ foot.from \notin better /\ Start \notin better
  BY <1>1, ExpansionIsSound DEF Sound
<1>5. /\ foot.from \in known /\ foot.from \in Node /\ foot.price \in Nat
  BY <1>3 DEF Ready
<1>6. \A n \in better :
        /\ GoodOffer(at, foot, n)
        /\ Offer(at, foot, n).price \in Nat
        /\ HasEdge(at, n)
        /\ n \in known => Offer(at, foot, n).price < g[n]
  BY <1>1, ExpansionIsSound DEF Sound, GoodOffer
<1>7. /\ known' = known \cup better
      /\ g' = [n \in Node |-> IF n \in better THEN Offer(at, foot, n).price
                              ELSE IF n = at THEN foot.price ELSE g[n]]
      /\ parent' = [n \in Node |-> IF n \in better THEN Offer(at, foot, n).from
                                   ELSE IF n = at THEN foot.from ELSE parent[n]]
  BY <1>1 DEF Expands, Relax
<1>8. /\ closed' = closed \cup {at} /\ expanded' = expanded + 1
      /\ open' = (open \ {e}) \cup
           {EntryOf(n, Offer(at, foot, n).price) : n \in better}
      /\ job' = job /\ phase' = phase /\ nodes' = nodes /\ phase = "search"
  BY <1>1 DEF Expands
<1>9. nodes = <<>>
  BY <1>8 DEF SearchInvariant, Searching
<1> HIDE DEF at, better
<1>10. TypeOK'
  <2>1. g' \in [Node -> Nat]
    BY <1>2, <1>5, <1>6, <1>7
  <2>2. parent' \in [Node -> Node]
    BY <1>2, <1>5, <1>6, <1>7 DEF GoodOffer
  <2>3. open' \in SUBSET Entry
    <3>1. \A n \in better : EntryOf(n, Offer(at, foot, n).price) \in Entry
      <4> SUFFICES ASSUME NEW n \in better
                   PROVE  EntryOf(n, Offer(at, foot, n).price) \in Entry
        OBVIOUS
      <4>1. n \in Node /\ Offer(at, foot, n).price \in Nat /\ Heuristic[n] \in Nat
        BY <1>2, <1>6, PricesAssumption
      <4> QED
        BY <4>1 DEF EntryOf, Entry
    <3> QED
      BY <1>2, <1>8, <3>1
  <2>4. known' \in SUBSET Node /\ closed' \in SUBSET Node
    BY <1>2, <1>7, <1>8
  <2>5. expanded' \in Nat
    BY <1>8 DEF SearchInvariant, TypeOK
  <2> QED
    BY <1>8, <2>1, <2>2, <2>3, <2>4, <2>5 DEF SearchInvariant, TypeOK
<1>11. Rooted'
  <2>1. parent[Start] = Start /\ g[Start] = 0
    BY DEF SearchInvariant, Rooted
  <2>2. parent'[Start] = Start /\ g'[Start] = 0
    <3>1. CASE Start = at
      BY <1>2, <1>3, <1>4, <1>7, <3>1 DEF Ready
    <3>2. CASE Start # at
      BY <1>2, <1>4, <1>7, <2>1, <3>2
    <3> QED
      BY <3>1, <3>2
  <2>3. \A o \in open' : o.node \in known'
    <3>1. \A o \in open : o.node \in known
      BY DEF SearchInvariant, Rooted
    <3>2. \A n \in better : EntryOf(n, Offer(at, foot, n).price).node = n
      BY DEF EntryOf
    <3> QED
      BY <1>7, <1>8, <3>1, <3>2
  <2> QED
    BY <1>2, <1>7, <1>8, <2>2, <2>3 DEF Rooted
<1>12. PricesCoverTheLinks' /\ OnlyClosedNodesHaveChildren'
  <2> SUFFICES ASSUME NEW v \in known' \ {Start}
               PROVE  Covered(parent[v], v)' /\ parent'[v] \in closed'
    BY DEF PricesCoverTheLinks, OnlyClosedNodesHaveChildren
  <2>0. v \in Node /\ at \in closed' /\ closed \subseteq closed'
    BY <1>2, <1>7, <1>8
  <2>1. foot.from \in closed' \/ at = Start
    BY <1>3, <1>8 DEF Ready
  <2>2. CASE v \in better
    <3>1. parent'[v] = Offer(at, foot, v).from /\ g'[v] = Offer(at, foot, v).price
      BY <1>7, <2>0, <2>2
    <3>2. CASE Offer(at, foot, v).from = at /\ HasEdge(at, v)
               /\ Offer(at, foot, v).price >= foot.price + job.cost[<<at, v>>]
      <4>1. g'[at] = foot.price
        BY <1>2, <1>4, <1>7
      <4> QED
        BY <1>8, <2>0, <3>1, <3>2, <4>1 DEF Covered, HasEdge
    <3>3. CASE /\ Offer(at, foot, v).from = foot.from
               /\ foot.from # at
               /\ Sees(foot.from, v)
               /\ Offer(at, foot, v).price
                    >= g[foot.from] + job.sightCost[<<foot.from, v>>]
      <4>1. g'[foot.from] = g[foot.from]
        BY <1>4, <1>5, <1>7, <3>3
      <4>2. at # Start
        BY <1>3, <3>3 DEF Ready
      <4> QED
        BY <1>8, <2>1, <3>1, <3>3, <4>1, <4>2 DEF Covered, Sees
    <3> QED
      BY <1>6, <2>2, <3>2, <3>3 DEF GoodOffer
  <2>3. CASE v = at
    <3>1. parent'[v] = foot.from /\ g'[v] = foot.price
      BY <1>2, <1>4, <1>7, <2>3
    <3>2. foot.from # at /\ foot.from \in closed
      BY <1>2, <1>3, <2>3 DEF Ready
    <3>3. g'[foot.from] = g[foot.from]
      BY <1>4, <1>5, <1>7, <3>2
    <3> QED
      BY <1>3, <1>8, <2>0, <2>3, <3>1, <3>2, <3>3 DEF Covered, Ready, HasEdge, Sees
  <2>4. CASE v \notin better /\ v # at
    <3>1. v \in known /\ parent'[v] = parent[v] /\ g'[v] = g[v]
      BY <1>7, <2>0, <2>4
    <3>2. Covered(parent[v], v) /\ parent[v] \in closed
      BY <3>1 DEF SearchInvariant, PricesCoverTheLinks, OnlyClosedNodesHaveChildren
    <3>3. parent[v] # at /\ parent[v] \in known /\ parent[v] \in Node
      BY <1>2, <3>2
    <3>4. g'[parent[v]] <= g[parent[v]] /\ g'[parent[v]] \in Nat
      <4>1. CASE parent[v] \in better
        <5>1. /\ Offer(at, foot, parent[v]).price \in Nat
              /\ Offer(at, foot, parent[v]).price < g[parent[v]]
          BY <1>6, <3>3, <4>1
        <5>2. g'[parent[v]] = Offer(at, foot, parent[v]).price
          BY <1>7, <3>3, <4>1
        <5>3. g[parent[v]] \in Nat
          BY <1>2, <3>3
        <5> QED
          BY <5>1, <5>2, <5>3
      <4>2. CASE parent[v] \notin better
        BY <1>2, <1>7, <3>3, <4>2
      <4> QED
        BY <4>1, <4>2
    <3>5. /\ <<parent[v], v>> \in Pair
          /\ g[v] \in Nat /\ g[parent[v]] \in Nat
      BY <1>2, <2>0, <3>3 DEF Pair
    <3>6. job.cost[<<parent[v], v>>] \in Nat /\ job.sightCost[<<parent[v], v>>] \in Nat
      BY <3>5 DEF SearchInvariant, TypeOK, JobType, JobRecord
    <3>7. Covered(parent[v], v)'
      <4>1. CASE HasEdge(parent[v], v) /\ g[v] >= g[parent[v]] + job.cost[<<parent[v], v>>]
        <5>1. g[v] >= g'[parent[v]] + job.cost[<<parent[v], v>>]
          BY <3>4, <3>5, <3>6, <4>1
        <5> QED
          BY <1>8, <3>1, <4>1, <5>1 DEF Covered, HasEdge
      <4>2. CASE Sees(parent[v], v) /\ g[v] >= g[parent[v]] + job.sightCost[<<parent[v], v>>]
        <5>1. g[v] >= g'[parent[v]] + job.sightCost[<<parent[v], v>>]
          BY <3>4, <3>5, <3>6, <4>2
        <5> QED
          BY <1>8, <3>1, <4>2, <5>1 DEF Covered, Sees
      <4> QED
        BY <3>2, <4>1, <4>2 DEF Covered
    <3> QED
      BY <2>0, <3>1, <3>2, <3>7
  <2> QED
    BY <2>2, <2>3, <2>4
<1>13. Frontier'
  <2>1. /\ Goal \notin closed
        /\ \A v \in known : v \in closed \/ \E o \in open : o.node = v
        /\ \A u \in closed, v \in job.corridor : HasEdge(u, v) => v \in known
    BY <1>8 DEF SearchInvariant, Frontier
  <2>2. Goal \notin closed'
    BY <1>1, <1>8, <2>1 DEF Expands, at
  <2>3. ASSUME NEW v \in known'
        PROVE  v \in closed' \/ \E o \in open' : o.node = v
    <3>1. CASE v \in better
      <4> DEFINE entry == EntryOf(v, Offer(at, foot, v).price)
      <4>1. entry \in open'
        BY <1>8, <3>1
      <4>2. entry.node = v
        BY DEF EntryOf
      <4> QED
        BY <4>1, <4>2
    <3>2. CASE v \notin better
      <4>1. v \in known
        BY <1>7, <3>2
      <4>2. CASE v = at
        BY <1>8, <4>2
      <4>3. CASE v # at
        BY <1>8, <2>1, <4>1, <4>3 DEF at
      <4> QED
        BY <4>2, <4>3
    <3> QED
      BY <3>1, <3>2
  <2>4. ASSUME NEW u \in closed', NEW v \in job.corridor, HasEdge(u, v)
        PROVE  v \in known'
    <3>1. CASE u = at
      BY <1>7, <2>4, <3>1 DEF Improved, better
    <3>2. CASE u # at
      BY <1>7, <1>8, <2>1, <2>4, <3>2
    <3> QED
      BY <3>1, <3>2
  <2> QED
    BY <1>8, <2>2, <2>3, <2>4 DEF Frontier, HasEdge
<1>14. Empty' /\ FollowsParents' /\ Walking' /\ Searching'
  BY <1>8, <1>9 DEF Empty, FollowsParents, Walking, Searching
<1> QED
  BY <1>10, <1>11, <1>12, <1>13, <1>14 DEF SearchInvariant

(* The goal leaves the heap, a stale entry leaves it, the budget is spent: *)
(* the maps stay as they are.                                              *)
LEMMA PopInvariant ==
  ASSUME SearchInvariant, PopGoal \/ PopStale \/ Truncate
  PROVE  SearchInvariant'
<1>1. UNCHANGED <<job, known, g, parent, expanded>> /\ phase = "search" /\ nodes = <<>>
  BY DEF PopGoal, PopStale, Truncate, SearchInvariant, Searching
<1>2. PICK e \in Cheapest : open' = open \ {e} /\ e.node \in known /\ e.node \in Node
  BY DEF PopGoal, PopStale, Truncate, Cheapest, SearchInvariant, TypeOK, Rooted
<1>3. closed \subseteq closed' /\ closed' \subseteq known
  <2>1. closed \subseteq known
    BY DEF SearchInvariant, Rooted
  <2>2. CASE PopGoal \/ PopStale
    BY <2>1, <2>2 DEF PopGoal, PopStale
  <2>3. CASE Truncate
    BY <2>1, <2>3 DEF Truncate, Cheapest, SearchInvariant, Rooted
  <2> QED
    BY <2>1, <2>2, <2>3
<1>4. Rooted' /\ PricesCoverTheLinks' /\ OnlyClosedNodesHaveChildren'
  BY <1>1, <1>2, <1>3
     DEF SearchInvariant, Rooted, PricesCoverTheLinks, OnlyClosedNodesHaveChildren, Covered,
         HasEdge, Sees
<1>5. nodes' \in Seq(Node) /\ phase' \in Phases
  <2>1. CASE PopGoal
    <3>1. nodes' = <<Goal>> /\ phase' = "walk"
      BY <2>1 DEF PopGoal
    <3> QED
      BY <3>1, EndsAssumption DEF Phases
  <2>2. CASE PopStale \/ Truncate
    <3>1. nodes' = nodes /\ phase' \in {"search", "truncated"}
      BY <1>1, <2>2 DEF PopStale, Truncate
    <3> QED
      BY <3>1 DEF Phases, SearchInvariant, TypeOK
  <2> QED
    BY <2>1, <2>2
<1>6. TypeOK'
  <2>1. closed' \in SUBSET Node /\ open' \in SUBSET Entry
    BY <1>2, <1>3 DEF SearchInvariant, TypeOK
  <2> QED
    BY <1>1, <1>5, <2>1 DEF SearchInvariant, TypeOK
<1>7. FollowsParents' /\ Walking' /\ Searching' /\ Empty'
  <2>1. CASE PopGoal
    <3>1. nodes' = <<Goal>> /\ phase' = "walk"
      BY <2>1 DEF PopGoal
    <3>2. Goal \in known
      BY <2>1 DEF PopGoal, Cheapest, SearchInvariant, Rooted
    <3> QED
      BY <1>1, <3>1, <3>2 DEF FollowsParents, Walking, Searching, Empty
  <2>2. CASE PopStale \/ Truncate
    <3>1. nodes' = nodes /\ phase' \in {"search", "truncated"}
      BY <1>1, <2>2 DEF PopStale, Truncate
    <3> QED
      BY <1>1, <3>1 DEF FollowsParents, Walking, Searching, Empty
  <2> QED
    BY <2>1, <2>2
<1>8. Frontier'
  <2>1. CASE PopGoal \/ Truncate
    BY <2>1 DEF PopGoal, Truncate, Frontier
  <2>2. CASE PopStale
    <3>1. PICK stale \in Cheapest : stale.node \in closed /\ open' = open \ {stale}
      BY <2>2 DEF PopStale
    <3>2. closed' = closed /\ phase' = phase
      BY <2>2 DEF PopStale
    <3> QED
      BY <1>1, <3>1, <3>2 DEF SearchInvariant, Frontier, HasEdge
  <2> QED
    BY <2>1, <2>2
<1> QED
  BY <1>4, <1>6, <1>7, <1>8 DEF SearchInvariant

(* Giving up, climbing and finishing: the search is over.                  *)
LEMMA WalkInvariant ==
  ASSUME SearchInvariant, GiveUp \/ Climb \/ Finish
  PROVE  SearchInvariant'
<1>1. UNCHANGED <<job, known, g, parent, closed, open, expanded>>
  BY DEF GiveUp, Climb, Finish
<1>2. Rooted' /\ PricesCoverTheLinks' /\ OnlyClosedNodesHaveChildren'
  BY <1>1
     DEF SearchInvariant, Rooted, PricesCoverTheLinks, OnlyClosedNodesHaveChildren, Covered,
         HasEdge, Sees
<1>3. CASE GiveUp \/ Finish
  <2>1. nodes' = nodes /\ phase' \in {"nopath", "found", "lost"}
    BY <1>3 DEF GiveUp, Finish
  <2>2. TypeOK'
    BY <1>1, <2>1 DEF SearchInvariant, TypeOK, Phases
  <2>3. FollowsParents' /\ Walking' /\ Searching'
    BY <1>1, <2>1 DEF SearchInvariant, FollowsParents, Walking, Searching
  <2>4. Frontier' /\ Empty'
    BY <1>1, <1>3 DEF GiveUp, Finish, SearchInvariant, Frontier, Empty, HasEdge
  <2> QED
    BY <1>2, <2>2, <2>3, <2>4 DEF SearchInvariant
<1>4. CASE Climb
  <2> DEFINE cursor == nodes[1]
             next == parent[cursor]
  <2>1. /\ phase = "walk" /\ phase' = phase /\ nodes \in Seq(Node)
        /\ known \in SUBSET Node /\ closed \subseteq known
        /\ parent \in [Node -> Node]
    BY <1>4 DEF Climb, SearchInvariant, TypeOK, Rooted
  <2>2. nodes # <<>>
    BY <2>1 DEF SearchInvariant, Walking
  <2>3. cursor \in known /\ cursor # Start /\ nodes' = <<next>> \o nodes
    BY <1>4, <2>1, <2>2 DEF Climb, MayClimb, SearchInvariant, FollowsParents
  <2>4. next \in known /\ next \in Node
    BY <2>1, <2>3 DEF SearchInvariant, OnlyClosedNodesHaveChildren
  <2>5. /\ Len(nodes') = Len(nodes) + 1 /\ Len(nodes) \in Nat /\ Len(nodes) >= 1
        /\ nodes'[1] = next
        /\ \A i \in 2 .. Len(nodes') : nodes'[i] = nodes[i - 1]
        /\ nodes' \in Seq(Node)
    <3> HIDE DEF next
    <3>1. /\ Len(nodes) \in Nat /\ Len(nodes) >= 1 /\ <<next>> \in Seq(Node)
          /\ Len(<<next>>) = 1
      BY <2>1, <2>2, <2>4
    <3> QED
      BY <2>1, <2>3, <3>1
  <2> HIDE DEF next
  <2>6. TypeOK'
    BY <1>1, <2>1, <2>5 DEF SearchInvariant, TypeOK
  <2>7. FollowsParents'
    <3>1. /\ \A i \in 1 .. Len(nodes) : nodes[i] \in known
          /\ \A i \in 1 .. Len(nodes) - 1 :
               nodes[i + 1] # Start /\ nodes[i] = parent[nodes[i + 1]]
      BY DEF SearchInvariant, FollowsParents
    <3>2. ASSUME NEW i \in 1 .. Len(nodes')
          PROVE  nodes'[i] \in known
      <4>1. CASE i = 1
        BY <2>4, <2>5, <4>1
      <4>2. CASE i # 1
        BY <2>5, <3>1, <3>2, <4>2
      <4> QED
        BY <4>1, <4>2
    <3>3. ASSUME NEW i \in 1 .. Len(nodes') - 1
          PROVE  nodes'[i + 1] # Start /\ nodes'[i] = parent[nodes'[i + 1]]
      <4>1. CASE i = 1
        <5>1. nodes'[1] = next /\ nodes'[2] = cursor
          BY <2>5
        <5> QED
          BY <2>3, <4>1, <5>1 DEF next
      <4>2. CASE i # 1
        <5>1. i - 1 \in 1 .. Len(nodes) - 1 /\ nodes'[i] = nodes[i - 1]
              /\ nodes'[i + 1] = nodes[(i - 1) + 1]
          BY <2>5, <4>2
        <5> QED
          BY <3>1, <5>1
      <4> QED
        BY <4>1, <4>2
    <3> QED
      BY <1>1, <3>2, <3>3 DEF FollowsParents
  <2>8. Walking' /\ Searching' /\ Frontier' /\ Empty'
    BY <2>1, <2>5 DEF Walking, Searching, Frontier, Empty
  <2> QED
    BY <1>2, <2>6, <2>7, <2>8 DEF SearchInvariant
<1> QED
  BY <1>3, <1>4

-----------------------------------------------------------------------------

(* The invariant of the search, on every graph and for every budget        *)
(* (theta.rs: plan_with_penalty).                                          *)
THEOREM SearchIsSound == Spec => []SearchInvariant
<1>1. Init => SearchInvariant
  BY InitInvariant
<1>2. SearchInvariant /\ [Next]_vars => SearchInvariant'
  <2> SUFFICES ASSUME SearchInvariant, [Next]_vars PROVE SearchInvariant'
    OBVIOUS
  <2>1. CASE Expand
    BY <2>1, ExpandInvariant
  <2>2. CASE PopGoal \/ PopStale \/ Truncate
    BY <2>2, PopInvariant
  <2>3. CASE GiveUp \/ Climb \/ Finish
    BY <2>3, WalkInvariant
  <2>4. CASE UNCHANGED vars
    <3>1. UNCHANGED <<job, known, g, parent, closed, open, expanded, phase, nodes>>
      BY <2>4 DEF vars
    <3> QED
      BY <3>1
         DEF SearchInvariant, TypeOK, Rooted, PricesCoverTheLinks,
             OnlyClosedNodesHaveChildren, Covered, HasEdge, Sees, Frontier, Empty,
             FollowsParents, Walking, Searching
  <2> QED
    BY <2>1, <2>2, <2>3, <2>4 DEF Next
<1> QED
  BY <1>1, <1>2, PTL DEF Spec

(* Prices cover the links and unexpanded nodes have no children, whatever  *)
(* the graph (theta.rs: repair and update rule).                           *)
THEOREM PricesHold == Spec => [](PricesCoverTheLinks /\ OnlyClosedNodesHaveChildren)
<1>1. SearchInvariant => PricesCoverTheLinks /\ OnlyClosedNodesHaveChildren
  BY DEF SearchInvariant
<1> QED
  BY <1>1, SearchIsSound, PTL

(* Every link of a found route is an edge or a line of sight (theta.rs:    *)
(* the nodes of SearchResult).                                             *)
THEOREM RouteIsWalkable == Spec => []PathIsWalkable
<1>1. SearchInvariant => PathIsWalkable
  <2> SUFFICES ASSUME SearchInvariant, NEW i \in 1 .. Len(nodes) - 1
               PROVE  HasEdge(nodes[i], nodes[i + 1]) \/ Sees(nodes[i], nodes[i + 1])
    BY DEF PathIsWalkable
  <2>1. nodes \in Seq(Node)
    BY DEF SearchInvariant, TypeOK
  <2>2. i + 1 \in 1 .. Len(nodes)
    BY <2>1
  <2>3. nodes[i + 1] \in known \ {Start} /\ nodes[i] = parent[nodes[i + 1]]
    BY <2>2 DEF SearchInvariant, FollowsParents
  <2>4. Covered(nodes[i], nodes[i + 1])
    BY <2>3 DEF SearchInvariant, PricesCoverTheLinks
  <2> QED
    BY <2>4 DEF Covered
<1> QED
  BY <1>1, SearchIsSound, PTL

(* An empty heap without the goal means that no edges inside the corridor  *)
(* lead to it: the closed nodes are the cut (theta.rs: NoPath).            *)
THEOREM NoPathIsHonest == Spec => []NoPathIsTrue
<1>1. SearchInvariant => NoPathIsTrue
  <2> SUFFICES ASSUME SearchInvariant, phase = "nopath" PROVE \E S \in SUBSET Node : Cut(S)
    BY DEF NoPathIsTrue
  <2>1. open = {}
    BY DEF SearchInvariant, Empty
  <2>2. /\ Goal \notin closed
        /\ \A v \in known : v \in closed
        /\ \A u \in closed, v \in job.corridor : HasEdge(u, v) => v \in known
    BY <2>1 DEF SearchInvariant, Frontier
  <2>3. Start \in known /\ closed \in SUBSET Node
    BY DEF SearchInvariant, Rooted, TypeOK
  <2>4. Cut(closed)
    BY <2>2, <2>3 DEF Cut
  <2> QED
    BY <2>3, <2>4
<1> QED
  BY <1>1, SearchIsSound, PTL

(* Either outcome of a search is true of its graph.                        *)
THEOREM OutcomeHolds == Spec => []OutcomeIsTrue
<1>1. PathIsWalkable /\ NoPathIsTrue => OutcomeIsTrue
  BY DEF OutcomeIsTrue
<1> QED
  BY <1>1, RouteIsWalkable, NoPathIsHonest, PTL

-----------------------------------------------------------------------------

(* The parent links are a tree, even where steps cost nothing: no set of   *)
(* nodes without the start keeps its parents to itself.                    *)
WellRooted ==
  \A S \in SUBSET (known \ {Start}) : S # {} => \E v \in S : parent[v] \notin S

(* Closed nodes have been expanded, but for the one a truncation closes.   *)
ClosedAreCounted ==
  /\ IsFiniteSet(closed)
  /\ phase # "truncated" => Cardinality(closed) <= expanded

JobIsGiven == job \in Jobs

TreeInvariant ==
  /\ SearchInvariant
  /\ JobIsGiven
  /\ WellRooted
  /\ ClosedAreCounted
  /\ BudgetIsSpentExactly
  /\ WalkReachesStart

(* An expansion closes no cycle.  A cycle would have to pass through a     *)
(* known node hung elsewhere by this expansion, at a price below its old   *)
(* one and not below the foothold's; but the old links climb from the      *)
(* foothold to that node along prices that never rise.                     *)
LEMMA ExpandWellRooted ==
  ASSUME SearchInvariant, WellRooted, Expand
  PROVE  WellRooted'
<1>1. PICK e, foot : e \in Entry /\ Expands(e, foot)
  BY DEF Expand, Expands, Cheapest, SearchInvariant, TypeOK
<1> DEFINE at == e.node
           better == Improved(at, foot)
           from == foot.from
<1>2. Sound(at, foot)
  BY <1>1, ExpansionIsSound
<1>3. /\ known' = known \cup better
      /\ parent' = [n \in Node |-> IF n \in better THEN Offer(at, foot, n).from
                                   ELSE IF n = at THEN from ELSE parent[n]]
  BY <1>1 DEF Expands, Relax
<1>4. /\ known \subseteq Node /\ closed \subseteq known /\ better \subseteq Node
      /\ at \in known \ closed /\ at \in Node /\ at \notin better
      /\ from \in known /\ from \in Node /\ from \notin better
      /\ Start \notin better
      /\ g \in [Node -> Nat] /\ parent \in [Node -> Node] /\ foot.price \in Nat
      /\ at = Start => from = Start
      /\ at # Start => from \in closed
  BY <1>2 DEF Sound, Ready, SearchInvariant, TypeOK, Rooted
<1>5. \A n \in better :
        /\ Offer(at, foot, n).from \in {at, from}
        /\ at # Start => /\ Offer(at, foot, n).price \in Nat
                         /\ Offer(at, foot, n).price >= g[from]
        /\ n \in known => Offer(at, foot, n).price < g[n]
  <2> SUFFICES ASSUME NEW n \in better
               PROVE  /\ Offer(at, foot, n).from \in {at, from}
                      /\ at # Start => /\ Offer(at, foot, n).price \in Nat
                                       /\ Offer(at, foot, n).price >= g[from]
                      /\ n \in known => Offer(at, foot, n).price < g[n]
    OBVIOUS
  <2>1. GoodOffer(at, foot, n) /\ (n \in known => Offer(at, foot, n).price < g[n])
    BY <1>2 DEF Sound
  <2>2. /\ <<at, n>> \in Pair /\ <<from, n>> \in Pair /\ <<from, at>> \in Pair
        /\ job.cost \in [Pair -> Nat] /\ job.sightCost \in [Pair -> Nat]
    BY <1>4 DEF Pair, SearchInvariant, TypeOK, JobType, JobRecord
  <2>3. /\ job.cost[<<at, n>>] \in Nat /\ job.sightCost[<<from, n>>] \in Nat
        /\ job.cost[<<from, at>>] \in Nat /\ job.sightCost[<<from, at>>] \in Nat
        /\ g[from] \in Nat
    BY <1>4, <2>2
  <2>4. at # Start => foot.price >= g[from]
    BY <1>2, <1>4, <2>3 DEF Sound, Ready
  <2> QED
    BY <1>4, <2>1, <2>3, <2>4 DEF GoodOffer
<1> HIDE DEF at, better, from
<1>6. SUFFICES ASSUME NEW S \in SUBSET (known' \ {Start}), S # {},
                      \A v \in S : parent'[v] \in S
               PROVE  FALSE
  BY DEF WellRooted
<1>7. S \subseteq Node /\ Start \notin S
  BY <1>3, <1>4, <1>6
<1>8. CASE S \cap (better \cup {at}) = {}
  <2>1. S \in SUBSET (known \ {Start})
    BY <1>3, <1>6, <1>8
  <2>2. PICK v \in S : parent[v] \notin S
    BY <1>6, <2>1 DEF WellRooted
  <2>3. parent'[v] = parent[v]
    BY <1>3, <1>7, <1>8, <2>2
  <2> QED
    BY <1>6, <2>2, <2>3
<1>9. CASE S \cap (better \cup {at}) # {}
  <2>1. from \in S
    <3>1. PICK b \in S : b \in better \/ b = at
      BY <1>9
    <3>2. parent'[at] = from
      BY <1>3, <1>4
    <3>3. CASE b = at
      BY <1>6, <3>1, <3>2, <3>3
    <3>4. CASE b \in better
      <4>1. parent'[b] \in {at, from}
        BY <1>3, <1>4, <1>5, <3>4
      <4> QED
        BY <1>6, <3>1, <3>2, <4>1
    <3> QED
      BY <3>1, <3>3, <3>4
  <2>2. at # Start /\ from \in closed
    BY <1>4, <1>7, <2>1
  <2> DEFINE T == {v \in S \cap known : v \notin better /\ v # at /\ g[v] <= g[from]}
  <2>3. from \in T
    BY <1>4, <2>1, <2>2
  <2>4. T \in SUBSET (known \ {Start})
    BY <1>7
  <2>5. PICK v \in T : parent[v] \notin T
    BY <2>3, <2>4 DEF WellRooted
  <2>6. /\ v \in S /\ v \in known \ {Start} /\ v \in Node /\ v \notin better /\ v # at
        /\ g[v] <= g[from] /\ g[v] \in Nat /\ g[from] \in Nat
    BY <1>4, <1>7, <2>5
  <2>7. parent[v] \in S
    BY <1>3, <1>6, <2>6
  <2>8. Covered(parent[v], v) /\ parent[v] \in closed
    BY <2>6 DEF SearchInvariant, PricesCoverTheLinks, OnlyClosedNodesHaveChildren
  <2>9. parent[v] \in known /\ parent[v] \in Node /\ parent[v] # at
    BY <1>4, <2>8
  <2>10. g[parent[v]] <= g[v] /\ g[parent[v]] \in Nat
    <3>1. <<parent[v], v>> \in Pair
      BY <2>6, <2>9 DEF Pair
    <3>2. job.cost[<<parent[v], v>>] \in Nat /\ job.sightCost[<<parent[v], v>>] \in Nat
      BY <3>1 DEF SearchInvariant, TypeOK, JobType, JobRecord
    <3>3. g[parent[v]] \in Nat
      BY <1>4, <2>9
    <3> QED
      BY <2>6, <2>8, <3>2, <3>3 DEF Covered
  <2>11. parent[v] \in better
    BY <2>5, <2>6, <2>7, <2>9, <2>10
  <2>12. /\ Offer(at, foot, parent[v]).price \in Nat
         /\ Offer(at, foot, parent[v]).price >= g[from]
         /\ Offer(at, foot, parent[v]).price < g[parent[v]]
    BY <1>5, <2>2, <2>9, <2>11
  <2> QED
    BY <2>6, <2>10, <2>12
<1> QED
  BY <1>8, <1>9

(* A closed node is counted when it is expanded.                           *)
LEMMA CountingStays ==
  ASSUME SearchInvariant, ClosedAreCounted, [Next]_vars
  PROVE  ClosedAreCounted'
<1>1. /\ IsFiniteSet(closed) /\ expanded \in Nat /\ Cardinality(closed) \in Nat
      /\ phase # "truncated" => Cardinality(closed) <= expanded
  BY FS_CardinalityType DEF SearchInvariant, TypeOK, ClosedAreCounted
<1>2. CASE Expand
  <2>1. PICK at : /\ closed' = closed \cup {at} /\ at \notin closed
                  /\ expanded' = expanded + 1 /\ phase = "search"
    BY <1>2 DEF Expand
  <2>2. IsFiniteSet(closed') /\ Cardinality(closed') = Cardinality(closed) + 1
    BY <1>1, <2>1, FS_AddElement
  <2> QED
    BY <1>1, <2>1, <2>2 DEF ClosedAreCounted
<1>3. CASE Truncate
  <2>1. PICK at : closed' = closed \cup {at} /\ phase' = "truncated"
    BY <1>3 DEF Truncate
  <2>2. IsFiniteSet(closed')
    BY <1>1, <2>1, FS_AddElement
  <2> QED
    BY <2>1, <2>2 DEF ClosedAreCounted
<1>4. CASE PopGoal \/ PopStale \/ GiveUp \/ Climb \/ Finish \/ UNCHANGED vars
  <2>1. /\ closed' = closed /\ expanded' = expanded
        /\ phase = "truncated" => phase' = "truncated"
    BY <1>4 DEF PopGoal, PopStale, GiveUp, Climb, Finish, vars
  <2> QED
    BY <1>1, <2>1 DEF ClosedAreCounted
<1> QED
  BY <1>2, <1>3, <1>4 DEF Next

(* The budget counts expansions.                                           *)
LEMMA BudgetStays ==
  ASSUME SearchInvariant, BudgetIsSpentExactly, [Next]_vars
  PROVE  BudgetIsSpentExactly'
<1>1. job.budget \in Nat /\ expanded \in Nat
  BY DEF SearchInvariant, TypeOK, JobType, JobRecord
<1>2. CASE Expand
  <2>1. expanded < job.budget /\ expanded' = expanded + 1 /\ job' = job /\ phase' = "search"
    BY <1>1, <1>2 DEF Expand, Spent
  <2> QED
    BY <1>1, <2>1 DEF BudgetIsSpentExactly
<1>3. CASE Truncate
  BY <1>1, <1>3 DEF Truncate, Spent, BudgetIsSpentExactly
<1>4. CASE PopGoal \/ PopStale \/ GiveUp \/ Climb \/ Finish
  BY <1>4 DEF PopGoal, PopStale, GiveUp, Climb, Finish, BudgetIsSpentExactly
<1>5. CASE UNCHANGED vars
  BY <1>5 DEF vars, BudgetIsSpentExactly
<1> QED
  BY <1>2, <1>3, <1>4, <1>5 DEF Next

(* The path being built has no node twice, and no more links than nodes    *)
(* have been expanded.                                                     *)
LEMMA PathIsShort ==
  ASSUME SearchInvariant, WellRooted, ClosedAreCounted, phase = "walk"
  PROVE  Len(nodes) - 1 <= expanded
<1>1. /\ nodes \in Seq(Node) /\ Len(nodes) \in Nat /\ Len(nodes) >= 1
      /\ expanded \in Nat /\ known \subseteq Node
  BY DEF SearchInvariant, TypeOK, Walking
<1>2. /\ \A k \in 1 .. Len(nodes) : nodes[k] \in known
      /\ \A k \in 1 .. Len(nodes) - 1 :
           nodes[k + 1] # Start /\ nodes[k] = parent[nodes[k + 1]]
  BY DEF SearchInvariant, FollowsParents
<1>3. ASSUME NEW i \in 1 .. Len(nodes), NEW j \in 1 .. Len(nodes), i < j
      PROVE  nodes[i] # nodes[j]
  <2> SUFFICES ASSUME nodes[i] = nodes[j] PROVE FALSE
    OBVIOUS
  <2> DEFINE S == {nodes[k] : k \in (i + 1) .. j}
  <2>1. ASSUME NEW k \in (i + 1) .. j
        PROVE  /\ nodes[k] \in known \ {Start}
               /\ parent[nodes[k]] = nodes[k - 1]
    <3>1. /\ k - 1 \in 1 .. Len(nodes) - 1 /\ k \in 1 .. Len(nodes)
          /\ (k - 1) + 1 = k
      BY <1>1, <1>3
    <3> QED
      BY <1>2, <3>1
  <2>2. S \in SUBSET (known \ {Start})
    BY <2>1
  <2>3. nodes[j] \in S
    BY <1>3
  <2>4. \A v \in S : parent[v] \in S
    <3> SUFFICES ASSUME NEW k \in (i + 1) .. j PROVE parent[nodes[k]] \in S
      OBVIOUS
    <3>1. CASE k = i + 1
      <4>1. k - 1 = i
        BY <1>3, <3>1
      <4>2. parent[nodes[k]] = nodes[i]
        BY <2>1, <4>1
      <4> QED
        BY <2>3, <4>2
    <3>2. CASE k # i + 1
      <4>1. k - 1 \in (i + 1) .. j
        BY <1>3, <3>2
      <4> QED
        BY <2>1, <4>1
    <3> QED
      BY <3>1, <3>2
  <2> QED
    BY <2>2, <2>3, <2>4 DEF WellRooted
<1> DEFINE f == [k \in 1 .. Len(nodes) - 1 |-> nodes[k]]
<1>4. f \in [1 .. Len(nodes) - 1 -> closed]
  <2> SUFFICES ASSUME NEW k \in 1 .. Len(nodes) - 1 PROVE nodes[k] \in closed
    OBVIOUS
  <2>1. k + 1 \in 1 .. Len(nodes)
    BY <1>1
  <2>2. nodes[k + 1] \in known \ {Start} /\ nodes[k] = parent[nodes[k + 1]]
    BY <1>2, <2>1
  <2> QED
    BY <2>2 DEF SearchInvariant, OnlyClosedNodesHaveChildren
<1>5. f \in Injection(1 .. Len(nodes) - 1, closed)
  <2>1. \A i, j \in 1 .. Len(nodes) - 1 : f[i] = f[j] => i = j
    <3> SUFFICES ASSUME NEW i \in 1 .. Len(nodes) - 1, NEW j \in 1 .. Len(nodes) - 1,
                        nodes[i] = nodes[j]
                 PROVE  i = j
      OBVIOUS
    <3>1. i \in 1 .. Len(nodes) /\ j \in 1 .. Len(nodes)
      BY <1>1
    <3>2. ~(i < j) /\ ~(j < i)
      BY <1>3, <3>1
    <3> QED
      BY <3>2
  <2> QED
    BY <1>4, <2>1 DEF Injection, IsInjective
<1>6. Cardinality(1 .. Len(nodes) - 1) <= Cardinality(closed)
  BY <1>5, FS_Injection DEF ClosedAreCounted
<1>7. Cardinality(1 .. Len(nodes) - 1) = Len(nodes) - 1
  <2>1. 1 \in Int /\ Len(nodes) - 1 \in Int
    BY <1>1
  <2>2. Cardinality(1 .. Len(nodes) - 1)
          = IF 1 > Len(nodes) - 1 THEN 0 ELSE (Len(nodes) - 1) - 1 + 1
    BY <2>1, FS_Interval
  <2> QED
    BY <1>1, <2>2
<1>8. Cardinality(closed) <= expanded /\ Cardinality(closed) \in Nat
  BY FS_CardinalityType DEF ClosedAreCounted
<1> QED
  BY <1>1, <1>6, <1>7, <1>8

(* The walk ends at the start: above a known node that is not the start    *)
(* hangs another, and the guard lies beyond the longest path.              *)
LEMMA WalkStaysOnCourse ==
  ASSUME TreeInvariant, [Next]_vars
  PROVE  WalkReachesStart'
<1>1. CASE Finish
  <2> SUFFICES ASSUME Head(nodes) # Start PROVE FALSE
    BY <1>1 DEF Finish, WalkReachesStart
  <2> DEFINE cursor == nodes[1]
  <2>1. phase = "walk" /\ ~MayClimb
    BY <1>1 DEF Finish
  <2>2. /\ nodes \in Seq(Node) /\ nodes # <<>> /\ Head(nodes) = cursor
        /\ 1 \in 1 .. Len(nodes) /\ Len(nodes) \in Nat
    BY <2>1 DEF TreeInvariant, SearchInvariant, TypeOK, Walking
  <2>3. cursor \in known \ {Start}
    BY <2>2 DEF TreeInvariant, SearchInvariant, FollowsParents
  <2>4. parent[cursor] # cursor
    <3>1. {cursor} \in SUBSET (known \ {Start}) /\ {cursor} # {}
      BY <2>3
    <3>2. PICK v \in {cursor} : parent[v] \notin {cursor}
      BY <3>1 DEF TreeInvariant, WellRooted
    <3> QED
      BY <3>2
  <2>5. ~(Len(nodes) - 1 <= MaxWalk)
    BY <2>1, <2>2, <2>3, <2>4 DEF MayClimb
  <2>6. Len(nodes) - 1 <= expanded
    BY <2>1, PathIsShort DEF TreeInvariant
  <2>7. expanded <= job.budget /\ job.budget <= MaxWalk
    BY WalkAssumption DEF TreeInvariant, BudgetIsSpentExactly, JobIsGiven
  <2>8. expanded \in Nat /\ job.budget \in Nat /\ MaxWalk \in Nat
    BY PricesAssumption DEF TreeInvariant, SearchInvariant, TypeOK, JobType, JobRecord
  <2> QED
    BY <2>2, <2>5, <2>6, <2>7, <2>8
<1>2. CASE Expand \/ PopGoal \/ PopStale \/ Truncate \/ GiveUp \/ Climb \/ UNCHANGED vars
  BY <1>2
     DEF Expand, PopGoal, PopStale, Truncate, GiveUp, Climb, vars, TreeInvariant,
         WalkReachesStart
<1> QED
  BY <1>1, <1>2 DEF Next

(* The tree invariant of the search.                                       *)
THEOREM ParentsMakeATree == Spec => []TreeInvariant
<1>1. Init => TreeInvariant
  <2> SUFFICES ASSUME Init PROVE TreeInvariant
    OBVIOUS
  <2>1. SearchInvariant
    BY InitInvariant
  <2>2. WellRooted
    BY DEF Init, WellRooted
  <2>3. ClosedAreCounted
    BY FS_EmptySet DEF Init, ClosedAreCounted
  <2>4. BudgetIsSpentExactly
    <3>1. job.budget \in Nat
      BY JobsAssumption DEF Init, JobType, JobRecord
    <3> QED
      BY <3>1 DEF Init, BudgetIsSpentExactly
  <2>5. JobIsGiven /\ WalkReachesStart
    BY DEF Init, JobIsGiven, WalkReachesStart
  <2> QED
    BY <2>1, <2>2, <2>3, <2>4, <2>5 DEF TreeInvariant
<1>2. SearchInvariant /\ SearchInvariant' /\ TreeInvariant /\ [Next]_vars => TreeInvariant'
  <2> SUFFICES ASSUME SearchInvariant, SearchInvariant', TreeInvariant, [Next]_vars
               PROVE  TreeInvariant'
    OBVIOUS
  <2>1. WellRooted'
    <3>1. WellRooted
      BY DEF TreeInvariant
    <3>2. CASE Expand
      BY <3>1, <3>2, ExpandWellRooted
    <3>3. CASE PopGoal \/ PopStale \/ Truncate \/ GiveUp \/ Climb \/ Finish \/ UNCHANGED vars
      <4>1. known' = known /\ parent' = parent
        BY <3>3 DEF PopGoal, PopStale, Truncate, GiveUp, Climb, Finish, vars
      <4> QED
        BY <3>1, <4>1 DEF WellRooted
    <3> QED
      BY <3>2, <3>3 DEF Next
  <2>2. ClosedAreCounted' /\ BudgetIsSpentExactly'
    BY CountingStays, BudgetStays DEF TreeInvariant
  <2>3. WalkReachesStart'
    BY WalkStaysOnCourse
  <2>4. JobIsGiven'
    <3>1. job' = job
      BY DEF Next, Expand, PopGoal, PopStale, Truncate, GiveUp, Climb, Finish, vars
    <3> QED
      BY <3>1 DEF TreeInvariant, JobIsGiven
  <2> QED
    BY <2>1, <2>2, <2>3, <2>4 DEF TreeInvariant
<1> QED
  BY <1>1, <1>2, SearchIsSound, PTL DEF Spec

(* The walk back from a reached goal always ends at the start (theta.rs:   *)
(* the second NoPath is never the answer).                                 *)
THEOREM WalkEndsAtStart == Spec => []WalkReachesStart
<1>1. TreeInvariant => WalkReachesStart
  BY DEF TreeInvariant
<1> QED
  BY <1>1, ParentsMakeATree, PTL

(* The budget is never exceeded, and spent to the end before a truncation  *)
(* (theta.rs: max_expansions).                                             *)
THEOREM BudgetHolds == Spec => []BudgetIsSpentExactly
<1>1. TreeInvariant => BudgetIsSpentExactly
  BY DEF TreeInvariant
<1> QED
  BY <1>1, ParentsMakeATree, PTL

-----------------------------------------------------------------------------
(* The plan: counting indices, and lines with vertices put in or left out. *)

(* Of some natural numbers there is a least.                                *)
LEMMA LeastNatural ==
  ASSUME NEW T \in SUBSET Nat, T # {}
  PROVE  \E n \in T : \A m \in T : n <= m
<1> DEFINE R == OpToRel(<, Nat)
<1>1. IsWellFoundedOn(R, Nat)
  BY NatLessThanWellFounded
<1>2. \A i, j \in Nat : i < j => <<i, j>> \in R
  BY DEF OpToRel
<1> HIDE DEF R
<1>3. PICK n \in T : \A m \in T : ~(<<m, n>> \in R)
  BY <1>1, WFMin
<1>4. n \in Nat /\ \A m \in T : m \in Nat
  OBVIOUS
<1>5. ASSUME NEW m \in T PROVE n <= m
  <2>1. ~(m < n)
    BY <1>2, <1>3, <1>4
  <2> QED
    BY <2>1, <1>4
<1> QED
  BY <1>5

(* Counting: how many of a set of numbers lie below one.                    *)
LEMMA BelowIs ==
  ASSUME NEW S \in SUBSET Nat, IsFiniteSet(S), NEW j \in Nat
  PROVE  /\ IsFiniteSet(Below(S, j)) /\ Cardinality(Below(S, j)) \in Nat
         /\ Cardinality(Below(S, j)) <= Cardinality(S)
         /\ Cardinality(Below(S, j + 1)) =
              Cardinality(Below(S, j)) + (IF j \in S THEN 1 ELSE 0)
         /\ \A k \in Nat : k <= j => Cardinality(Below(S, k)) <= Cardinality(Below(S, j))
<1> DEFINE B(n) == Below(S, n)
<1>1. ASSUME NEW n \in Nat PROVE IsFiniteSet(B(n)) /\ Cardinality(B(n)) \in Nat /\ Cardinality(B(n)) <= Cardinality(S)
  <2>1. B(n) \subseteq S
    BY DEF Below
  <2> HIDE DEF B
  <2> QED
    BY <2>1, FS_Subset, FS_CardinalityType
<1>2. ASSUME NEW k \in Nat, k <= j PROVE Cardinality(B(k)) <= Cardinality(B(j))
  <2>1. ASSUME NEW i \in S, i < k PROVE i < j
    <3>1. i \in Nat
      OBVIOUS
    <3> QED
      BY <1>2, <2>1, <3>1
  <2>2. B(k) \subseteq B(j)
    BY <2>1 DEF Below
  <2> HIDE DEF B
  <2> QED
    BY <1>1, <1>2, <2>2, FS_Subset
<1>3. Cardinality(B(j + 1)) = Cardinality(B(j)) + (IF j \in S THEN 1 ELSE 0)
  <2>a. \A i \in S : i < j + 1 <=> i < j \/ i = j
    OBVIOUS
  <2>b. ~(j < j)
    OBVIOUS
  <2>1. j \notin B(j) /\ B(j + 1) = IF j \in S THEN B(j) \cup {j} ELSE B(j)
    BY <2>a, <2>b, Zenon DEF Below
  <2> HIDE DEF B
  <2>2. Cardinality(B(j) \cup {j}) = Cardinality(B(j)) + 1
    BY <1>1, <2>1, FS_AddElement
  <2>3. Cardinality(B(j)) \in Nat
    BY <1>1
  <2> QED
    BY <2>1, <2>2, <2>3
<1> QED
  BY <1>1, <1>2, <1>3

(* What is twice behind a vertex pushes those after it by one more.         *)
LEMMA SpotGrows ==
  ASSUME NEW twice \in SUBSET Nat, IsFiniteSet(twice), NEW j \in Nat
  PROVE  /\ Spot(twice, j) \in Nat /\ j <= Spot(twice, j)
         /\ Spot(twice, j + 1) = Spot(twice, j) + (IF j \in twice THEN 2 ELSE 1)
         /\ \A i \in Nat : i < j => Spot(twice, i) < Spot(twice, j)
<1> DEFINE C(n) == Cardinality(Below(twice, n))
<1>1. /\ C(j) \in Nat /\ C(j + 1) = C(j) + (IF j \in twice THEN 1 ELSE 0)
      /\ \A k \in Nat : k <= j => C(k) \in Nat /\ C(k) <= C(j)
  <2>1. \A k \in Nat : /\ C(k) \in Nat
                       /\ C(k + 1) = C(k) + (IF k \in twice THEN 1 ELSE 0)
                       /\ \A n \in Nat : n <= k => C(n) <= C(k)
    <3> SUFFICES ASSUME NEW k \in Nat
                 PROVE  /\ C(k) \in Nat
                        /\ C(k + 1) = C(k) + (IF k \in twice THEN 1 ELSE 0)
                        /\ \A n \in Nat : n <= k => C(n) <= C(k)
      OBVIOUS
    <3> QED
      BY BelowIs
  <2> QED
    BY <2>1, Zenon
<1>2. \A n \in Nat : Spot(twice, n) = n + C(n)
  BY DEF Spot
<1> HIDE DEF C
<1> QED
  BY <1>1, <1>2

(* Every place of the longer line is that of a vertex, or right behind it.  *)
LEMMA SpotCovers ==
  ASSUME NEW len \in Nat \ {0}, NEW twice \in SUBSET (1..len - 1),
         NEW n \in 1..len + Cardinality(twice)
  PROVE  /\ IsFiniteSet(twice) /\ Cardinality(twice) \in Nat
         /\ Spot(twice, 1) = 1 /\ Spot(twice, len) = len + Cardinality(twice)
         /\ \E j \in 1..len : n = Spot(twice, j) \/ (j \in twice /\ n = Spot(twice, j) + 1)
<1>1. IsFiniteSet(twice) /\ Cardinality(twice) \in Nat /\ twice \in SUBSET Nat
  <2>1. IsFiniteSet(1..len - 1) /\ twice \in SUBSET Nat
    BY FS_Interval
  <2> QED
    BY <2>1, FS_Subset, FS_CardinalityType
<1>2. Spot(twice, 1) = 1
  <2>1. \A i \in twice : ~(i < 1)
    OBVIOUS
  <2>2. Below(twice, 1) = {}
    BY <2>1, Zenon DEF Below
  <2> QED
    BY <2>2, FS_EmptySet DEF Spot
<1>3. Spot(twice, len) = len + Cardinality(twice)
  <2>1. \A i \in twice : i < len
    OBVIOUS
  <2>2. Below(twice, len) = twice
    BY <2>1, Zenon DEF Below
  <2> QED
    BY <2>2 DEF Spot
<1> DEFINE T == {j \in Nat : j > 0 /\ n < Spot(twice, j)}
<1>4. \A j \in Nat : /\ Spot(twice, j) \in Nat
                     /\ Spot(twice, j + 1) = Spot(twice, j) + (IF j \in twice THEN 2 ELSE 1)
                     /\ \A i \in Nat : i < j => Spot(twice, i) < Spot(twice, j)
  BY <1>1, SpotGrows
<1>5. len + 1 \in T
  BY <1>1, <1>3, <1>4
<1>6. PICK k \in T : \A m \in T : k <= m
  <2>1. T \in SUBSET Nat /\ T # {}
    BY <1>5
  <2> HIDE DEF T
  <2> QED
    BY <2>1, LeastNatural
<1>7. k # 1 /\ k <= len + 1 /\ k - 1 \in 1..len /\ k - 1 \notin T
  <2>1. k # 1
    BY <1>1, <1>2
  <2>2. k <= len + 1
    BY <1>5, <1>6
  <2>3. k - 1 \in 1..len
    BY <2>1, <2>2
  <2>4. k - 1 \notin T
    BY <1>6, <2>3
  <2> QED
    BY <2>1, <2>2, <2>3, <2>4
<1> DEFINE j == k - 1
<1>8. j \in 1..len /\ Spot(twice, j) <= n /\ n < Spot(twice, j + 1)
  BY <1>1, <1>4, <1>7
<1> HIDE DEF j
<1>9. n = Spot(twice, j) \/ (j \in twice /\ n = Spot(twice, j) + 1)
  <2>1. j \in Nat /\ Spot(twice, j) \in Nat /\ n \in Nat
    BY <1>4, <1>8
  <2>2. Spot(twice, j + 1) = Spot(twice, j) + (IF j \in twice THEN 2 ELSE 1)
    BY <1>4, <2>1
  <2> QED
    BY <1>8, <2>1, <2>2
<1> QED
  BY <1>1, <1>2, <1>3, <1>8, <1>9

(* A spread line: its vertices in order, and one more behind some of them.  *)
IsSpread(spread, S, line, twice, extra) ==
  /\ spread \in Seq(S) /\ Len(spread) = Len(line) + Cardinality(twice)
  /\ Cardinality(twice) \in Nat
  /\ Spot(twice, 1) = 1 /\ Spot(twice, Len(line)) = Len(spread)
  /\ \A j \in 1..Len(line) : /\ Spot(twice, j) \in 1..Len(spread)
                             /\ spread[Spot(twice, j)] = line[j]
  /\ \A i, j \in 1..Len(line) : i < j => Spot(twice, i) < Spot(twice, j)
  /\ \A n \in 1..Len(spread) :
       \E j \in 1..Len(line) :
         \/ n = Spot(twice, j) /\ spread[n] = line[j]
         \/ j \in twice /\ n = Spot(twice, j) + 1 /\ spread[n] = extra[j]

LEMMA SpreadIs ==
  ASSUME NEW S, NEW line \in Seq(S), line # <<>>, NEW twice \in SUBSET (1..Len(line) - 1),
         NEW extra \in [twice -> S]
  PROVE  IsSpread(Spread(line, twice, extra), S, line, twice, extra)
<1> DEFINE len == Len(line)
           m == len + Cardinality(twice)
           spread == Spread(line, twice, extra)
<1>1. len \in Nat \ {0} /\ DOMAIN line = 1..len /\ \A j \in 1..len : line[j] \in S
  OBVIOUS
<1>2. IsFiniteSet(twice) /\ Cardinality(twice) \in Nat /\ twice \in SUBSET Nat
  <2>1. IsFiniteSet(1..len - 1) /\ twice \in SUBSET Nat
    BY FS_Interval
  <2> QED
    BY <2>1, FS_Subset, FS_CardinalityType
<1> HIDE DEF len
<1>3. m \in Nat /\ 1 \in 1..m
  BY <1>1, <1>2
<1>4. /\ Spot(twice, 1) = 1 /\ Spot(twice, len) = m
      /\ \A n \in 1..m : \E j \in 1..len : n = Spot(twice, j) \/ (j \in twice /\ n = Spot(twice, j) + 1)
  BY <1>1, <1>3, SpotCovers DEF len
<1>5. /\ \A j \in 1..len : Spot(twice, j) \in Nat
      /\ \A i, j \in 1..len : i < j => Spot(twice, i) < Spot(twice, j)
  <2>1. \A j \in Nat : Spot(twice, j) \in Nat /\ \A i \in Nat : i < j => Spot(twice, i) < Spot(twice, j)
    BY <1>2, SpotGrows, Zenon
  <2>2. \A j \in 1..len : j \in Nat
    BY <1>1
  <2> QED
    BY <2>1, <2>2, Zenon
<1>6. \A j \in 1..len : Spot(twice, j) \in 1..m
  <2>1. ASSUME NEW j \in 1..len PROVE Spot(twice, j) \in 1..m
    <3>1. 1 \in 1..len /\ len \in 1..len /\ 1 <= j /\ j <= len
      BY <1>1
    <3>2. j = 1 \/ Spot(twice, 1) < Spot(twice, j)
      BY <1>5, <3>1
    <3>3. j = len \/ Spot(twice, j) < Spot(twice, len)
      BY <1>5, <3>1
    <3> QED
      BY <1>3, <1>4, <1>5, <3>2, <3>3
  <2> QED
    BY <2>1
<1>7. \A i, j \in 1..len : Spot(twice, i) = Spot(twice, j) => i = j
  BY <1>1, <1>5
<1>8. \A i \in twice : i \in 1..len /\ i + 1 \in 1..len /\ Spot(twice, i + 1) = Spot(twice, i) + 2
  BY <1>1, <1>2, SpotGrows DEF len
<1>9. \A i \in twice, j \in 1..len : Spot(twice, j) # Spot(twice, i) + 1
  <2>1. ASSUME NEW i \in twice, NEW j \in 1..len, Spot(twice, j) = Spot(twice, i) + 1 PROVE FALSE
    <3>1. j < i \/ j = i \/ j = i + 1 \/ i + 1 < j
      BY <1>1, <1>8
    <3> QED
      BY <1>5, <1>8, <2>1, <3>1
  <2> QED
    BY <2>1
<1>10. spread = [n \in 1..m |-> IF \E j \in 1..len : Spot(twice, j) = n
                               THEN line[CHOOSE j \in 1..len : Spot(twice, j) = n]
                               ELSE extra[CHOOSE i \in twice : Spot(twice, i) + 1 = n]]
  BY <1>1 DEF Spread, len
<1> HIDE DEF m, spread
<1>11. ASSUME NEW j \in 1..len PROVE spread[Spot(twice, j)] = line[j]
  <2>1. (CHOOSE i \in 1..len : Spot(twice, i) = Spot(twice, j)) = j
    BY <1>7
  <2> QED
    BY <1>6, <1>10, <2>1
<1>12. ASSUME NEW i \in twice, Spot(twice, i) + 1 \in 1..m PROVE spread[Spot(twice, i) + 1] = extra[i]
  <2>1. ~\E j \in 1..len : Spot(twice, j) = Spot(twice, i) + 1
    BY <1>9
  <2>2. \A k \in twice : Spot(twice, k) + 1 = Spot(twice, i) + 1 => k = i
    BY <1>5, <1>7, <1>8
  <2>3. (CHOOSE k \in twice : Spot(twice, k) + 1 = Spot(twice, i) + 1) = i
    BY <2>2
  <2> QED
    BY <1>10, <1>12, <2>1, <2>3
<1>13. ASSUME NEW n \in 1..m
       PROVE  \E j \in 1..len : \/ n = Spot(twice, j) /\ spread[n] = line[j]
                                \/ j \in twice /\ n = Spot(twice, j) + 1 /\ spread[n] = extra[j]
  BY <1>4, <1>11, <1>12
<1>14. spread \in Seq(S) /\ Len(spread) = m
  <2>1. \A n \in 1..m : spread[n] \in S
    BY <1>1, <1>13
  <2>2. DOMAIN spread = 1..m /\ spread = [n \in 1..m |-> spread[n]]
    BY <1>10
  <2>3. spread \in [1..m -> S]
    BY <2>1, <2>2
  <2>4. spread \in Seq(S)
    BY <1>3, <2>3, SeqDef
  <2> QED
    BY <1>3, <2>2, <2>4
<1> QED
  BY <1>2, <1>4, <1>5, <1>6, <1>11, <1>13, <1>14 DEF len, m, spread, IsSpread

(* The n-th of what is kept: every index kept has its rank, and every rank   *)
(* its index.                                                               *)
Rank(kept, i) == Cardinality(Below(kept, i)) + 1
Ranked(kept, m) == CHOOSE i \in kept : Cardinality(Below(kept, i)) = m - 1

LEMMA RanksAre ==
  ASSUME NEW len \in Nat \ {0}, NEW kept \in SUBSET (1..len), {1, len} \subseteq kept
  PROVE  /\ IsFiniteSet(kept) /\ Cardinality(kept) \in 1..len
         /\ Rank(kept, 1) = 1 /\ Rank(kept, len) = Cardinality(kept)
         /\ \A i \in kept : Rank(kept, i) \in 1..Cardinality(kept)
         /\ \A i, j \in kept : i < j => Rank(kept, i) < Rank(kept, j)
         /\ \A m \in 1..Cardinality(kept) : \E i \in kept : Rank(kept, i) = m
<1> DEFINE C(n) == Cardinality(Below(kept, n))
           size == Cardinality(kept)
<1>1. IsFiniteSet(kept) /\ size \in Nat /\ size <= len /\ kept \in SUBSET Nat
  <2>1. IsFiniteSet(1..len) /\ Cardinality(1..len) = len
    BY FS_Interval
  <2>2. kept \in SUBSET Nat
    OBVIOUS
  <2> QED
    BY <2>1, <2>2, FS_Subset, FS_CardinalityType
<1>2. \A n \in Nat : /\ C(n) \in Nat /\ C(n) <= size
                     /\ C(n + 1) = C(n) + (IF n \in kept THEN 1 ELSE 0)
                     /\ \A k \in Nat : k <= n => C(k) <= C(n)
  BY <1>1, BelowIs
<1>3. C(0) = 0 /\ C(1) = 0
  <2>1. \A i \in kept : ~(i < 0) /\ ~(i < 1)
    OBVIOUS
  <2>2. Below(kept, 0) = {} /\ Below(kept, 1) = {}
    BY <2>1, Zenon DEF Below
  <2> QED
    BY <2>2, FS_EmptySet
<1>4. C(len + 1) = size
  <2>1. \A i \in kept : i < len + 1
    OBVIOUS
  <2>2. Below(kept, len + 1) = kept
    BY <2>1, Zenon DEF Below
  <2> QED
    BY <2>2
<1>5. \A i : Rank(kept, i) = C(i) + 1
  BY DEF Rank
<1> HIDE DEF C, size
<1>6. len \in kept /\ 1 \in kept /\ len \in Nat /\ 1 \in Nat
  OBVIOUS
<1>7. C(len) + 1 = size
  <2>1. C(len + 1) = C(len) + (IF len \in kept THEN 1 ELSE 0)
    BY <1>2, <1>6
  <2> QED
    BY <1>4, <1>6, <2>1
<1>8. ASSUME NEW i \in kept, NEW j \in kept, i < j PROVE C(i) < C(j)
  <2>1. i \in Nat /\ j \in Nat /\ i + 1 \in Nat /\ i + 1 <= j
    BY <1>8
  <2>2. C(i + 1) = C(i) + 1 /\ C(i + 1) <= C(j) /\ C(i) \in Nat /\ C(j) \in Nat
    BY <1>2, <2>1
  <2> QED
    BY <2>2
<1>9. ASSUME NEW i \in kept PROVE C(i) \in Nat /\ C(i) < size
  <2>1. i = len \/ i < len
    OBVIOUS
  <2>2. C(i) <= C(len) /\ C(i) \in Nat /\ C(len) \in Nat
    BY <1>2, <1>6, <2>1
  <2> QED
    BY <1>1, <1>7, <2>2
<1>10. ASSUME NEW m \in 1..size PROVE \E i \in kept : C(i) = m - 1
  <2> DEFINE T == {n \in Nat : m <= C(n)}
  <2>1. len + 1 \in T
    BY <1>1, <1>4
  <2>2. PICK n \in T : \A k \in T : n <= k
    <3>1. T \in SUBSET Nat /\ T # {}
      BY <2>1
    <3> HIDE DEF T
    <3> QED
      BY <3>1, LeastNatural
  <2>3. n \in Nat /\ m <= C(n) /\ n # 0
    BY <1>3
  <2>4. n - 1 \in Nat /\ n - 1 \notin T
    BY <2>2, <2>3
  <2> DEFINE i == n - 1
  <2>5. i \in Nat /\ n = i + 1 /\ ~(m <= C(i))
    BY <2>3, <2>4
  <2> HIDE DEF i, T
  <2>6. C(i) \in Nat /\ C(n) = C(i) + (IF i \in kept THEN 1 ELSE 0)
    BY <1>2, <2>5
  <2>7. i \in kept /\ C(i) = m - 1
    BY <1>1, <2>3, <2>5, <2>6
  <2> QED
    BY <2>7
<1>11. \A i \in kept : C(i) + 1 \in 1..size
  BY <1>1, <1>9
<1>12. \A m \in 1..size : \E i \in kept : C(i) + 1 = m
  <2>1. ASSUME NEW m \in 1..size PROVE \E i \in kept : C(i) + 1 = m
    <3>1. PICK i \in kept : C(i) = m - 1
      BY <1>10
    <3> QED
      BY <3>1
  <2> QED
    BY <2>1
<1>13. \A i, j \in kept : i < j => C(i) + 1 < C(j) + 1
  BY <1>1, <1>8, <1>9
<1>14. size \in 1..len /\ C(1) + 1 = 1
  BY <1>1, <1>3, <1>7, <1>9, <1>6
<1> QED
  BY <1>1, <1>5, <1>7, <1>11, <1>12, <1>13, <1>14 DEF size

(* What is picked of a line: the vertices kept, in order, the ends among    *)
(* them.                                                                    *)
IsPicked(picked, S, line, kept) ==
  /\ picked \in Seq(S) /\ Len(picked) \in 1..Len(line)
  /\ picked[1] = line[1] /\ picked[Len(picked)] = line[Len(line)]
  /\ \A i \in kept : Rank(kept, i) \in 1..Len(picked) /\ picked[Rank(kept, i)] = line[i]
  /\ \A i, j \in kept : i < j => Rank(kept, i) < Rank(kept, j)
  /\ \A m \in 1..Len(picked) : \E i \in kept : Rank(kept, i) = m

LEMMA PickedIs ==
  ASSUME NEW S, NEW line \in Seq(S), line # <<>>,
         NEW kept \in SUBSET (1..Len(line)), {1, Len(line)} \subseteq kept
  PROVE  IsPicked(Picked(line, kept), S, line, kept)
<1> DEFINE len == Len(line)
           size == Cardinality(kept)
           picked == Picked(line, kept)
<1>1. len \in Nat \ {0} /\ \A j \in 1..len : line[j] \in S
  OBVIOUS
<1> HIDE DEF len
<1>1a. kept \in SUBSET (1..len) /\ kept \in SUBSET Nat
  BY DEF len
<1>2. /\ size \in 1..len /\ IsFiniteSet(kept)
      /\ Rank(kept, 1) = 1 /\ Rank(kept, len) = size
      /\ \A i \in kept : Rank(kept, i) \in 1..size
      /\ \A i, j \in kept : i < j => Rank(kept, i) < Rank(kept, j)
      /\ \A m \in 1..size : \E i \in kept : Rank(kept, i) = m
  BY <1>1, RanksAre DEF len
<1>3. \A i, j \in kept : Rank(kept, i) = Rank(kept, j) => i = j
  <2>1. ASSUME NEW i \in kept, NEW j \in kept, Rank(kept, i) = Rank(kept, j) PROVE i = j
    <3>1. i \in 1..len /\ j \in 1..len
      BY DEF len
    <3>2. Rank(kept, i) \in 1..size /\ ~(i < j) /\ ~(j < i)
      BY <1>2, <2>1
    <3> QED
      BY <1>1, <3>1, <3>2
  <2> QED
    BY <2>1
<1>4. picked = [m \in 1..size |-> line[Ranked(kept, m)]]
  BY DEF Picked, Ranked
<1>5. \A i \in kept : Ranked(kept, Rank(kept, i)) = i
  <2>1. ASSUME NEW i \in kept PROVE Ranked(kept, Rank(kept, i)) = i
    <3>1. \A j \in kept : Cardinality(Below(kept, j)) \in Nat
      <4>1. IsFiniteSet(kept) /\ kept \in SUBSET Nat
        BY <1>2, <1>1a
      <4> QED
        BY <4>1, BelowIs
    <3>2. \A j \in kept : Cardinality(Below(kept, j)) = Rank(kept, i) - 1 <=> j = i
      BY <1>3, <3>1 DEF Rank
    <3> QED
      BY <3>2, Zenon DEF Ranked
  <2> QED
    BY <2>1
<1> HIDE DEF picked, size
<1>6. \A i \in kept : picked[Rank(kept, i)] = line[i]
  BY <1>2, <1>4, <1>5
<1>7. picked \in Seq(S) /\ Len(picked) = size
  <2>1. \A m \in 1..size : picked[m] \in S
    <3>1. ASSUME NEW m \in 1..size PROVE picked[m] \in S
      <4>1. PICK i \in kept : Rank(kept, i) = m
        BY <1>2
      <4>2. line[i] \in S
        BY <1>1 DEF len
      <4> QED
        BY <1>6, <4>1, <4>2
    <3> QED
      BY <3>1
  <2>2. picked = [m \in 1..size |-> picked[m]] /\ DOMAIN picked = 1..size
    BY <1>4
  <2>3. picked \in [1..size -> S] /\ size \in Nat
    BY <1>2, <2>1, <2>2
  <2>4. picked \in Seq(S)
    BY <2>3, SeqDef
  <2> QED
    BY <2>2, <2>3, <2>4
<1>8. picked[1] = line[1] /\ picked[size] = line[len]
  BY <1>2, <1>6 DEF len
<1> QED
  BY <1>2, <1>6, <1>7, <1>8 DEF picked, len, IsPicked

-----------------------------------------------------------------------------
(* The inductive invariant of the plan. *)

(* The joints of a route of m legs: 1 to m, each at one vertex, in order.   *)
JointsAre(vertices, m) ==
  /\ \A i \in DOMAIN vertices : vertices[i].joint \in 0..m
  /\ \A k \in 1..m : \E i \in DOMAIN vertices : vertices[i].joint = k
  /\ \A i, j \in DOMAIN vertices :
       i < j /\ 0 \notin {vertices[i].joint, vertices[j].joint} =>
         vertices[i].joint < vertices[j].joint

(* The pins are where the joints are; the last of them is the end.          *)
PinsAre(vertices, pins) ==
  /\ \A k \in DOMAIN pins : pins[k] \in 2..Len(vertices) /\ vertices[pins[k]].joint = k
  /\ \A k, l \in DOMAIN pins : k < l => pins[k] < pins[l]
  /\ \A i \in DOMAIN vertices : vertices[i].joint # 0 => \E k \in DOMAIN pins : pins[k] = i
  /\ pins # <<>> /\ pins[Len(pins)] = Len(vertices)

(* From the start to the k-th point asked for.                              *)
Reaches(vertices, k) ==
  /\ IsLine(vertices)
  /\ vertices[1].at \in Snapped(request[1])
  /\ vertices[Len(vertices)].at \in Snapped(request[k + 1])

(* Passes change what lies between the ends.                                *)
SameEnds(line, other) == line[1] = other[1] /\ line[Len(line)] = other[Len(other)]

Legs == Len(request) - 1

(* While legs are joined, the anchors are the pins of what is merged so far. *)
LegsInvariant ==
  stage \in {"legs", "no_path"} =>
    /\ ~full /\ working = <<>> /\ Len(anchors) <= Legs
    /\ IF anchors = <<>> THEN merged = <<>>
       ELSE Reaches(merged, Len(anchors)) /\ PinsAre(merged, anchors)

(* From then on the merged route holds every joint once and in order, and   *)
(* the band has its ends; its pins are the anchors until it is simplified,  *)
(* unless a midpoint found no room.                                         *)
RouteInvariant ==
  stage \notin {"legs", "no_path"} =>
    /\ Len(anchors) = Legs
    /\ Reaches(merged, Legs) /\ JointsAre(merged, Legs)
    /\ IsLine(working) /\ SameEnds(working, merged)
    /\ stage = "band" /\ ~full => PinsAre(working, anchors)
    /\ stage = "finish" /\ ~full => JointsAre(working, Legs)

(* What is shipped has two ends, those of the searched route.               *)
ShippedIsLine ==
  stage \in {"shaped", "done"} => IsLine(path) /\ SameEnds(path, Points(merged))

PlanInvariant ==
  /\ request \in Requests /\ anchors \in Seq(Nat)
  /\ stage \in {"legs", "band", "finish", "shaped", "done", "no_path", "refused"}
  /\ LegsInvariant /\ RouteInvariant
  /\ PinsHoldTheirJoints /\ BandIsBounded
  /\ ShippedIsSound /\ ShippedIsLine /\ RefusedForAReason

(* A sequence of two elements or more is a line, over its own range.         *)
LEMMA LineIs ==
  ASSUME NEW S, NEW line \in Seq(S), Len(line) >= 2
  PROVE  /\ IsLine(line) /\ DOMAIN line = 1..Len(line) /\ Len(line) \in Nat
         /\ line # <<>> /\ 1 \in DOMAIN line /\ Len(line) \in DOMAIN line
<1>1. DOMAIN line = 1..Len(line) /\ Len(line) \in Nat
  OBVIOUS
<1>2. \A i \in 1..Len(line) : line[i] \in Range(line)
  BY <1>1 DEF Range
<1>3. line \in [1..Len(line) -> Range(line)]
  <2>1. line = [i \in 1..Len(line) |-> line[i]]
    OBVIOUS
  <2> QED
    BY <1>2, <2>1
<1>4. line \in Seq(Range(line))
  BY <1>1, <1>3, SeqDef
<1>5. line # <<>>
  OBVIOUS
<1> QED
  BY <1>1, <1>4, <1>5 DEF IsLine

(* What a line has: its domain, its ends.                                   *)
LEMMA LineHas ==
  ASSUME NEW line, IsLine(line)
  PROVE  /\ line \in Seq(Range(line))
         /\ DOMAIN line = 1..Len(line) /\ Len(line) \in Nat /\ Len(line) >= 2
         /\ line # <<>> /\ 1 \in DOMAIN line /\ Len(line) \in DOMAIN line
<1>1. line \in Seq(Range(line)) /\ Len(line) >= 2
  BY DEF IsLine
<1> QED
  BY <1>1, LineIs

(* Where the pins are, the joints follow each other.                        *)
LEMMA PinsGiveJoints ==
  ASSUME NEW vertices, IsLine(vertices), NEW pins \in Seq(Nat), PinsAre(vertices, pins)
  PROVE  JointsAre(vertices, Len(pins))
<1> DEFINE m == Len(pins)
<1>1. DOMAIN pins = 1..m /\ m \in Nat /\ DOMAIN vertices = 1..Len(vertices) /\ Len(vertices) \in Nat
  BY LineHas
<1>2. /\ \A k \in 1..m : pins[k] \in 2..Len(vertices) /\ vertices[pins[k]].joint = k
      /\ \A k, l \in 1..m : k < l => pins[k] < pins[l]
      /\ \A i \in DOMAIN vertices : vertices[i].joint # 0 => \E k \in 1..m : pins[k] = i
  BY <1>1 DEF PinsAre
<1> HIDE DEF m
<1>3. ASSUME NEW i \in DOMAIN vertices PROVE vertices[i].joint \in 0..m
  <2>1. CASE vertices[i].joint = 0
    BY <1>1, <2>1
  <2>2. CASE vertices[i].joint # 0
    <3>1. PICK k \in 1..m : pins[k] = i
      BY <1>2, <2>2
    <3>2. vertices[i].joint = k
      BY <1>2, <3>1
    <3> QED
      BY <1>1, <3>2
  <2> QED
    BY <2>1, <2>2
<1>4. ASSUME NEW k \in 1..m PROVE \E i \in DOMAIN vertices : vertices[i].joint = k
  <2>1. pins[k] \in DOMAIN vertices /\ vertices[pins[k]].joint = k
    BY <1>1, <1>2
  <2> QED
    BY <2>1
<1>5. ASSUME NEW i \in DOMAIN vertices, NEW j \in DOMAIN vertices,
             i < j, vertices[i].joint # 0, vertices[j].joint # 0
      PROVE  vertices[i].joint < vertices[j].joint
  <2>1. PICK k \in 1..m : pins[k] = i
    BY <1>2, <1>5
  <2>2. PICK l \in 1..m : pins[l] = j
    BY <1>2, <1>5
  <2>3. vertices[i].joint = k /\ vertices[j].joint = l
    BY <1>2, <2>1, <2>2
  <2>4. k < l
    <3>1. ~(l < k) /\ k # l
      BY <1>1, <1>2, <1>5, <2>1, <2>2
    <3> QED
      BY <1>1, <3>1
  <2> QED
    BY <2>3, <2>4
<1> QED
  BY <1>3, <1>4, <1>5 DEF JointsAre, m

(* Midpoints between the vertices: the pins move with their vertices.       *)
LEMMA SpreadKeepsPins ==
  ASSUME NEW vertices, IsLine(vertices),
         NEW split \in SUBSET (1..Len(vertices) - 1), NEW extra, DOMAIN extra = split,
         extra = [i \in split |-> extra[i]]
  PROVE  LET spread == Spread(vertices, split, extra)
         IN  /\ IsLine(spread) /\ SameEnds(spread, vertices)
             /\ Len(spread) = Len(vertices) + Cardinality(split) /\ Cardinality(split) \in Nat
             /\ \A i \in DOMAIN vertices : spread[Spot(split, i)] = vertices[i]
             /\ \A pins \in Seq(Nat) :
                  PinsAre(vertices, pins) /\ (\A i \in split : extra[i].joint = 0) =>
                    PinsAre(spread, Shifted(pins, split))
<1> DEFINE S == Range(vertices) \cup Range(extra)
           spread == Spread(vertices, split, extra)
           len == Len(vertices)
<1>1. /\ DOMAIN vertices = 1..len /\ len \in Nat /\ len >= 2 /\ vertices # <<>>
      /\ vertices \in Seq(Range(vertices))
  BY LineHas
<1>2. vertices \in Seq(S)
  <2>1. \A i \in 1..len : vertices[i] \in S
    BY <1>1 DEF Range
  <2>2. vertices = [i \in 1..len |-> vertices[i]]
    BY <1>1
  <2> HIDE DEF S
  <2>3. vertices \in [1..len -> S]
    BY <2>1, <2>2
  <2> QED
    BY <1>1, <2>3, SeqDef
<1>3. extra \in [split -> S]
  <2>1. \A i \in split : extra[i] \in S
    BY DEF Range
  <2> QED
    BY <2>1
<1> HIDE DEF S
<1>4. /\ spread \in Seq(S) /\ Len(spread) = len + Cardinality(split) /\ Cardinality(split) \in Nat
      /\ Spot(split, 1) = 1 /\ Spot(split, len) = Len(spread)
      /\ \A j \in 1..len : Spot(split, j) \in 1..Len(spread) /\ spread[Spot(split, j)] = vertices[j]
      /\ \A i, j \in 1..len : i < j => Spot(split, i) < Spot(split, j)
      /\ \A n \in 1..Len(spread) :
           \E j \in 1..len :
             \/ n = Spot(split, j) /\ spread[n] = vertices[j]
             \/ j \in split /\ n = Spot(split, j) + 1 /\ spread[n] = extra[j]
  <2>1. split \in SUBSET (1..Len(vertices) - 1) /\ vertices # <<>>
    BY <1>1
  <2>2. IsSpread(spread, S, vertices, split, extra)
    BY <1>2, <1>3, <2>1, SpreadIs
  <2> HIDE DEF spread
  <2> QED
    BY <2>2 DEF IsSpread
<1> HIDE DEF spread
<1>5. Len(spread) >= 2
  BY <1>1, <1>4
<1>6. IsLine(spread) /\ DOMAIN spread = 1..Len(spread) /\ Len(spread) \in Nat
  BY <1>4, <1>5, LineIs
<1>7. SameEnds(spread, vertices)
  <2>1. 1 \in 1..len /\ len \in 1..len
    BY <1>1
  <2> QED
    BY SMTT(30), <1>4, <2>1 DEF SameEnds
<1>8. ASSUME NEW pins \in Seq(Nat), PinsAre(vertices, pins), \A i \in split : extra[i].joint = 0
      PROVE  PinsAre(spread, Shifted(pins, split))
  <2> DEFINE shifted == Shifted(pins, split)
  <2>1. shifted = [k \in DOMAIN pins |-> Spot(split, pins[k])]
    BY DEF Shifted, Spot
  <2>2. DOMAIN pins = 1..Len(pins) /\ Len(pins) \in Nat
    OBVIOUS
  <2>3. DOMAIN shifted = 1..Len(pins) /\ Len(shifted) = Len(pins)
    BY <2>1, <2>2
  <2>4. /\ \A k \in DOMAIN pins : pins[k] \in 2..len /\ vertices[pins[k]].joint = k
        /\ \A k, l \in DOMAIN pins : k < l => pins[k] < pins[l]
        /\ \A i \in 1..len : vertices[i].joint # 0 => \E k \in DOMAIN pins : pins[k] = i
        /\ pins # <<>> /\ pins[Len(pins)] = len
    BY <1>1, <1>8 DEF PinsAre
  <2> HIDE DEF shifted
  <2>5. ASSUME NEW k \in DOMAIN pins
        PROVE  shifted[k] \in 2..Len(spread) /\ spread[shifted[k]].joint = k
    <3>1. pins[k] \in 1..len /\ 1 \in 1..len /\ 1 < pins[k] /\ shifted[k] = Spot(split, pins[k])
      BY <1>1, <2>1, <2>4
    <3>2. 1 < Spot(split, pins[k]) /\ Spot(split, pins[k]) \in 1..Len(spread)
      BY <1>4, <3>1
    <3>3. spread[shifted[k]] = vertices[pins[k]]
      BY <1>4, <3>1
    <3> QED
      BY <1>6, <2>4, <3>1, <3>2, <3>3
  <2>6. ASSUME NEW k \in DOMAIN pins, NEW l \in DOMAIN pins, k < l
        PROVE  shifted[k] < shifted[l]
    <3>1. pins[k] \in 1..len /\ pins[l] \in 1..len /\ pins[k] < pins[l]
      BY <1>1, <2>4, <2>6
    <3> QED
      BY <1>4, <2>1, <3>1
  <2>7. ASSUME NEW n \in 1..Len(spread), spread[n].joint # 0
        PROVE  \E k \in DOMAIN pins : shifted[k] = n
    <3>1. PICK j \in 1..len : \/ n = Spot(split, j) /\ spread[n] = vertices[j]
                              \/ j \in split /\ n = Spot(split, j) + 1 /\ spread[n] = extra[j]
      BY <1>4
    <3>2. n = Spot(split, j) /\ spread[n] = vertices[j]
      BY <1>8, <2>7, <3>1
    <3>3. PICK k \in DOMAIN pins : pins[k] = j
      BY <2>4, <2>7, <3>2
    <3> QED
      BY <2>1, <3>2, <3>3
  <2>8. shifted # <<>> /\ shifted[Len(shifted)] = Len(spread)
    <3>1. Len(pins) \in DOMAIN pins
      BY <2>2, <2>4
    <3> QED
      BY <1>4, <2>1, <2>2, <2>3, <2>4, <3>1
  <2> QED
    BY <1>6, <2>2, <2>3, <2>5, <2>6, <2>7, <2>8 DEF PinsAre, shifted
<1> QED
  BY <1>1, <1>4, <1>6, <1>7, <1>8 DEF spread, len

(* Whatever is cut, the ends are kept.                                      *)
LEMMA CutsKeepTheEnds ==
  ASSUME NEW n \in Nat, n >= 2, NEW joinable, NEW kept \in Cuts(n, joinable)
  PROVE  kept \in SUBSET (1..n) /\ {1, n} \subseteq kept
<1>1. PICK inner \in SUBSET (2..n - 1) : kept = inner \cup {1, n}
  BY DEF Cuts
<1> QED
  BY <1>1

(* Shortcuts that skip no pin leave the joints in their order.              *)
LEMMA PickedKeepsJoints ==
  ASSUME NEW line, IsLine(line), NEW kept \in SUBSET (1..Len(line)), {1, Len(line)} \subseteq kept
  PROVE  LET picked == Picked(line, kept)
         IN  /\ IsLine(picked) /\ SameEnds(picked, line) /\ Len(picked) <= Len(line)
             /\ \A pins \in Seq(Nat) :
                  PinsAre(line, pins) /\ Range(pins) \subseteq kept =>
                    JointsAre(picked, Len(pins))
<1> DEFINE S == Range(line)
           picked == Picked(line, kept)
           len == Len(line)
<1>1. /\ DOMAIN line = 1..len /\ len \in Nat /\ len >= 2 /\ line # <<>>
      /\ line \in Seq(S)
  BY LineHas
<1>2. IsPicked(picked, S, line, kept)
  BY <1>1, PickedIs
<1> HIDE DEF picked, S
<1>3. /\ picked \in Seq(S) /\ Len(picked) \in 1..len
      /\ picked[1] = line[1] /\ picked[Len(picked)] = line[len]
      /\ \A i \in kept : Rank(kept, i) \in 1..Len(picked) /\ picked[Rank(kept, i)] = line[i]
      /\ \A i, j \in kept : i < j => Rank(kept, i) < Rank(kept, j)
      /\ \A m \in 1..Len(picked) : \E i \in kept : Rank(kept, i) = m
  BY <1>2 DEF IsPicked
<1>4. Len(picked) >= 2
  <2>1. 1 \in kept /\ len \in kept /\ 1 < len
    BY <1>1
  <2>2. Rank(kept, 1) \in 1..Len(picked) /\ Rank(kept, len) \in 1..Len(picked) /\ Rank(kept, 1) < Rank(kept, len)
    BY <1>3, <2>1
  <2> QED
    BY <1>1, <1>3, <2>2
<1>5. IsLine(picked) /\ DOMAIN picked = 1..Len(picked) /\ Len(picked) \in Nat
  BY <1>3, <1>4, LineIs
<1>6. ASSUME NEW pins \in Seq(Nat), PinsAre(line, pins), Range(pins) \subseteq kept
      PROVE  JointsAre(picked, Len(pins))
  <2> DEFINE size == Len(pins)
  <2>1. JointsAre(line, size)
    BY <1>6, PinsGiveJoints
  <2>2. /\ \A i \in 1..len : line[i].joint \in 0..size
        /\ \A i, j \in 1..len :
             i < j /\ 0 \notin {line[i].joint, line[j].joint} => line[i].joint < line[j].joint
    BY <1>1, <2>1 DEF JointsAre
  <2>3. \A k \in 1..size : pins[k] \in kept /\ line[pins[k]].joint = k
    BY <1>6 DEF PinsAre, Range
  <2> HIDE DEF size
  <2>4. \A m \in 1..Len(picked) : \E i \in 1..len : i \in kept /\ Rank(kept, i) = m /\ picked[m] = line[i]
    <3>1. ASSUME NEW m \in 1..Len(picked)
          PROVE  \E i \in 1..len : i \in kept /\ Rank(kept, i) = m /\ picked[m] = line[i]
      <4>1. PICK i \in kept : Rank(kept, i) = m
        BY <1>3
      <4> QED
        BY <1>3, <4>1
    <3> QED
      BY <3>1
  <2>5. ASSUME NEW m \in 1..Len(picked) PROVE picked[m].joint \in 0..size
    BY <2>2, <2>4
  <2>6. ASSUME NEW k \in 1..size PROVE \E m \in 1..Len(picked) : picked[m].joint = k
    <3>1. pins[k] \in kept /\ line[pins[k]].joint = k
      BY <2>3
    <3>2. Rank(kept, pins[k]) \in 1..Len(picked) /\ picked[Rank(kept, pins[k])] = line[pins[k]]
      BY <1>3, <3>1
    <3> QED
      BY <3>1, <3>2, Zenon
  <2>7. ASSUME NEW m \in 1..Len(picked), NEW n \in 1..Len(picked), m < n,
               0 \notin {picked[m].joint, picked[n].joint}
        PROVE  picked[m].joint < picked[n].joint
    <3>1. PICK i \in 1..len : i \in kept /\ Rank(kept, i) = m /\ picked[m] = line[i]
      BY <2>4
    <3>2. PICK j \in 1..len : j \in kept /\ Rank(kept, j) = n /\ picked[n] = line[j]
      BY <2>4
    <3>3. ~(j < i) /\ i # j
      <4>1. ~(n < m) /\ m # n
        BY <1>5, <2>7
      <4> QED
        BY <1>3, <3>1, <3>2, <4>1
    <3>4. i < j
      BY <1>1, <3>3
    <3> QED
      BY <2>2, <2>7, <3>1, <3>2, <3>4
  <2> QED
    BY <1>5, <2>5, <2>6, <2>7 DEF JointsAre, size
<1>7. SameEnds(picked, line) /\ Len(picked) <= len
  BY <1>1, <1>3 DEF SameEnds
<1> QED
  BY <1>5, <1>6, <1>7 DEF picked, len

(* The greater of two numbers.                                              *)
LEMMA MaxOfTwo ==
  ASSUME NEW m \in Nat, NEW n \in Nat
  PROVE  Max({m, n}) \in {m, n} /\ m <= Max({m, n}) /\ n <= Max({m, n})
<1> DEFINE both == {m, n}
<1>1. \E x \in both : \A y \in both : x >= y
  <2>1. CASE m >= n
    BY <2>1
  <2>2. CASE ~(m >= n)
    BY <2>2
  <2> QED
    BY <2>1, <2>2
<1>2. Max(both) = CHOOSE x \in both : \A y \in both : x >= y
  BY DEF Max
<1>3. Max(both) \in both /\ \A y \in both : Max(both) >= y
  <2> HIDE DEF both
  <2> QED
    BY <1>1, <1>2
<1> QED
  BY <1>3

(* Segments are split only while there is room, from the back.              *)
LEMMA SplitsFit ==
  ASSUME NEW len \in Nat, len >= 2, NEW segments \in SUBSET (1..len - 1)
  PROVE  LET split == Split(len, segments)
         IN  /\ split \in SUBSET segments
             /\ Cardinality(split) \in Nat /\ Cardinality(segments) \in Nat
             /\ len + Cardinality(split) <= Max({MaxPoints, len})
             /\ len + Cardinality(split) < len + Cardinality(segments) \/ split = segments
<1> DEFINE after(i) == {j \in segments : j > i}
           split == Split(len, segments)
<1>1. IsFiniteSet(segments) /\ Cardinality(segments) \in Nat
  <2>1. IsFiniteSet(1..len - 1)
    BY FS_Interval
  <2> QED
    BY <2>1, FS_Subset, FS_CardinalityType
<1>2. split = {i \in segments : len + Cardinality(after(i)) < MaxPoints}
  BY DEF Split
<1>3. \A i : after(i) \subseteq segments
  OBVIOUS
<1>4. ASSUME NEW i \in segments, NEW j \in segments PROVE j \in after(i) <=> j > i
  OBVIOUS
<1> HIDE DEF after, split
<1>5. split \subseteq segments
  BY <1>2
<1>6. IsFiniteSet(split) /\ Cardinality(split) \in Nat /\ Cardinality(split) <= Cardinality(segments)
      /\ (Cardinality(split) = Cardinality(segments) => split = segments)
  BY <1>1, <1>5, FS_Subset, FS_CardinalityType
<1>7. MaxPoints \in Nat /\ Max({MaxPoints, len}) \in Nat
      /\ MaxPoints <= Max({MaxPoints, len}) /\ len <= Max({MaxPoints, len})
  BY BandAssumption, MaxOfTwo
<1>8. CASE split = {}
  <2>1. Cardinality(split) = 0
    BY <1>8, FS_EmptySet
  <2> QED
    BY <1>1, <1>5, <1>6, <1>7, <2>1 DEF split
<1>9. CASE split # {}
  <2>1. split \in SUBSET Nat
    BY <1>5
  <2>2. PICK i \in split : \A j \in split : i <= j
    BY <1>9, <2>1, LeastNatural
  <2>3. len + Cardinality(after(i)) < MaxPoints /\ i \in segments
    BY <1>2, <2>2
  <2>4. split \ {i} \subseteq after(i)
    <3>1. ASSUME NEW j \in split, j # i PROVE j \in after(i)
      <4>1. i <= j /\ i \in Nat /\ j \in Nat /\ j \in segments
        BY <1>5, <2>1, <2>2
      <4> QED
        BY <1>4, <2>3, <3>1, <4>1
    <3> QED
      BY <3>1
  <2>5. IsFiniteSet(after(i)) /\ Cardinality(after(i)) \in Nat
    BY <1>1, <1>3, FS_Subset, FS_CardinalityType
  <2>6. Cardinality(split \ {i}) \in Nat /\ Cardinality(split \ {i}) <= Cardinality(after(i))
    BY <2>4, <2>5, FS_Subset, FS_CardinalityType
  <2>7. Cardinality(split \ {i}) = Cardinality(split) - 1
    BY <1>6, <2>2, FS_RemoveElement
  <2>8. len + Cardinality(split) <= MaxPoints
    BY <1>6, <1>7, <2>3, <2>5, <2>6, <2>7
  <2> QED
    BY <1>1, <1>5, <1>6, <1>7, <2>8 DEF split
<1> QED
  BY <1>8, <1>9

(* A round of forces: the pinned vertices and the ends are only projected.  *)
LEMMA MovedIs ==
  ASSUME IsLine(working), NEW moved \in Moved
  PROVE  /\ IsLine(moved) /\ Len(moved) = Len(working) /\ SameEnds(moved, working)
         /\ \A i \in DOMAIN working : moved[i].joint = working[i].joint
         /\ \A i \in Range(anchors) :
              i \in 2..Len(working) - 1 => moved[i].at = Pushed(working[i].at)
<1> DEFINE last == Len(working)
           forced(i) == Relaxed(working[i - 1].at, working[i].at, working[i + 1].at)
           vertex(i, free) ==
             [at |-> Pushed(IF i \in free THEN forced(i) ELSE working[i].at),
              joint |-> working[i].joint]
<1>1. /\ DOMAIN working = 1..last /\ last \in Nat /\ last >= 2
  BY LineHas
<1>2. PICK free \in SUBSET ((2..last - 1) \ Range(anchors)) :
        moved = [i \in 1..last |-> IF i \in {1, last} THEN working[i] ELSE vertex(i, free)]
  BY DEF Moved
<1>3. \A i : /\ vertex(i, free).joint = working[i].joint
             /\ i \notin free => vertex(i, free).at = Pushed(working[i].at)
  OBVIOUS
<1> HIDE DEF vertex, last
<1>4. DOMAIN moved = 1..last /\ \A i \in 1..last :
        moved[i] = IF i \in {1, last} THEN working[i] ELSE vertex(i, free)
  BY <1>2
<1>5. Len(moved) = last /\ moved \in Seq(Range(moved))
  <2>1. \A i \in 1..last : moved[i] \in Range(moved)
    BY <1>4 DEF Range
  <2>2. moved = [i \in 1..last |-> moved[i]]
    BY <1>2, <1>4
  <2>3. moved \in [1..last -> Range(moved)]
    BY <2>1, <2>2
  <2>4. moved \in Seq(Range(moved))
    BY <1>1, <2>3, SeqDef
  <2> QED
    BY <1>1, <1>4, <2>4
<1>6. IsLine(moved)
  BY <1>1, <1>5 DEF IsLine
<1>7. SameEnds(moved, working)
  <2>1. 1 \in 1..last /\ last \in 1..last
    BY <1>1
  <2>2. moved[1] = working[1] /\ moved[last] = working[last]
    BY <1>4, <2>1
  <2> QED
    BY <1>5, <2>2 DEF SameEnds, last
<1>8. \A i \in 1..last : moved[i].joint = working[i].joint
  BY <1>3, <1>4
<1>9. ASSUME NEW i \in Range(anchors), i \in 2..last - 1 PROVE moved[i].at = Pushed(working[i].at)
  <2>1. i \in 1..last /\ i \notin {1, last} /\ i \notin free
    BY <1>1, <1>9
  <2> QED
    BY <1>3, <1>4, <2>1
<1> QED
  BY <1>1, <1>5, <1>6, <1>7, <1>8, <1>9 DEF last

(* Moving vertices leaves the pins where they are.                          *)
LEMMA PinsCarryOver ==
  ASSUME NEW line, IsLine(line), NEW other, IsLine(other), Len(other) = Len(line),
         \A i \in DOMAIN line : other[i].joint = line[i].joint,
         NEW pins, PinsAre(line, pins)
  PROVE  PinsAre(other, pins)
<1>1. DOMAIN line = 1..Len(line) /\ DOMAIN other = 1..Len(line) /\ Len(line) \in Nat
  BY LineHas
<1>2. \A k \in DOMAIN pins : pins[k] \in DOMAIN line
  BY <1>1 DEF PinsAre
<1> QED
  BY <1>1, <1>2 DEF PinsAre

(* An iteration of the band: the route keeps its ends, and as long as there *)
(* is room its pins stay on the joints, which are only projected.           *)
RoundIs(moved, crossing, split) ==
  /\ IsLine(split) /\ SameEnds(split, working)
  /\ Len(split) <= Max({MaxPoints, Len(working)})
  /\ Shifted(anchors, crossing) \in Seq(Nat) /\ Len(Shifted(anchors, crossing)) = Len(anchors)
  /\ ~(Len(split) < Len(moved) + Cardinality(crossing)) /\ PinsAre(working, anchors) =>
       /\ PinsAre(split, Shifted(anchors, crossing))
       /\ \A k \in 1..Len(anchors) - 1 :
            split[Shifted(anchors, crossing)[k]].at = Pushed(working[anchors[k]].at)

LEMMA RoundKeeps ==
  ASSUME IsLine(working), anchors \in Seq(Nat), NEW moved \in Moved
  PROVE  RoundIs(moved, Infeasible(moved), Inserted(moved, Infeasible(moved)))
<1> DEFINE crossing == Infeasible(moved)
           room == Split(Len(moved), crossing)
           extra == Halves(moved, room)
           split == Inserted(moved, crossing)
           shifted == Shifted(anchors, crossing)
<1>1. /\ IsLine(moved) /\ Len(moved) = Len(working) /\ SameEnds(moved, working)
      /\ \A i \in DOMAIN working : moved[i].joint = working[i].joint
      /\ \A i \in Range(anchors) :
           i \in 2..Len(working) - 1 => moved[i].at = Pushed(working[i].at)
  BY MovedIs
<1>2. Len(working) \in Nat /\ Len(working) >= 2 /\ DOMAIN working = 1..Len(working)
      /\ DOMAIN moved = 1..Len(working)
  BY <1>1, LineHas
<1>3. crossing \in SUBSET (1..Len(working) - 1)
  BY <1>1 DEF Infeasible
<1>4. split = Spread(moved, room, extra)
  BY DEF Inserted
<1>5. DOMAIN extra = room /\ extra = [i \in room |-> extra[i]] /\ \A i \in room : extra[i].joint = 0
  <2> HIDE DEF room
  <2> QED
    BY DEF Halves
<1> HIDE DEF crossing, room, extra, split, shifted
<1>6. /\ room \in SUBSET crossing
      /\ Cardinality(room) \in Nat /\ Cardinality(crossing) \in Nat
      /\ Len(working) + Cardinality(room) <= Max({MaxPoints, Len(working)})
      /\ Len(working) + Cardinality(room) < Len(working) + Cardinality(crossing) \/ room = crossing
  BY <1>1, <1>2, <1>3, SplitsFit DEF room
<1>7. room \in SUBSET (1..Len(moved) - 1)
  BY <1>1, <1>3, <1>6
<1>8. /\ IsLine(split) /\ SameEnds(split, moved)
      /\ Len(split) = Len(moved) + Cardinality(room)
      /\ \A i \in DOMAIN moved : split[Spot(room, i)] = moved[i]
      /\ PinsAre(moved, anchors) => PinsAre(split, Shifted(anchors, room))
  <2>1. /\ IsLine(moved)
        /\ room \in SUBSET (1..Len(moved) - 1)
        /\ DOMAIN extra = room /\ extra = [i \in room |-> extra[i]]
    BY <1>1, <1>5, <1>7
  <2> DEFINE spread == Spread(moved, room, extra)
  <2>2. /\ IsLine(spread) /\ SameEnds(spread, moved)
        /\ Len(spread) = Len(moved) + Cardinality(room) /\ Cardinality(room) \in Nat
        /\ \A i \in DOMAIN moved : spread[Spot(room, i)] = moved[i]
        /\ \A pins \in Seq(Nat) :
             PinsAre(moved, pins) /\ (\A i \in room : extra[i].joint = 0) =>
               PinsAre(spread, Shifted(pins, room))
    BY SMTT(30), <2>1, SpreadKeepsPins
  <2>3. spread = split
    BY <1>4
  <2> HIDE DEF spread
  <2> QED
    BY <1>5, <2>2, <2>3
<1>9. SameEnds(split, working)
  BY <1>1, <1>8 DEF SameEnds
<1>10. Len(split) <= Max({MaxPoints, Len(working)})
  BY <1>1, <1>6, <1>8
<1>11. /\ shifted = [k \in DOMAIN anchors |-> Spot(crossing, anchors[k])]
       /\ DOMAIN anchors = 1..Len(anchors) /\ Len(anchors) \in Nat
       /\ \A k \in DOMAIN anchors : anchors[k] \in Nat
  BY DEF shifted, Shifted, Spot
<1>12. shifted \in Seq(Nat) /\ Len(shifted) = Len(anchors)
  <2>1. \A k \in DOMAIN anchors : Spot(crossing, anchors[k]) \in Nat
    <3>1. crossing \in SUBSET Nat /\ IsFiniteSet(crossing)
      <4>1. IsFiniteSet(1..Len(working) - 1)
        BY <1>2, FS_Interval
      <4>2. IsFiniteSet(crossing)
        BY <1>3, <4>1, FS_Subset
      <4> QED
        BY <1>3, <4>2
    <3> QED
      BY <1>11, <3>1, SpotGrows
  <2>2. shifted \in [1..Len(anchors) -> Nat]
    BY <1>11, <2>1
  <2>3. shifted \in Seq(Nat)
    BY <1>11, <2>2, SeqDef
  <2> QED
    BY <1>11, <2>3
<1>13. ASSUME ~(Len(split) < Len(moved) + Cardinality(crossing)), PinsAre(working, anchors)
       PROVE  /\ PinsAre(split, shifted)
              /\ \A k \in 1..Len(anchors) - 1 : split[shifted[k]].at = Pushed(working[anchors[k]].at)
  <2>1. room = crossing
    BY <1>1, <1>6, <1>8, <1>13
  <2>2. PinsAre(moved, anchors)
    BY <1>1, <1>13, PinsCarryOver
  <2>3. PinsAre(split, shifted)
    BY <1>8, <2>1, <2>2 DEF shifted
  <2>4. ASSUME NEW k \in 1..Len(anchors) - 1 PROVE split[shifted[k]].at = Pushed(working[anchors[k]].at)
    <3>1. k \in DOMAIN anchors /\ Len(anchors) \in DOMAIN anchors /\ k < Len(anchors)
      BY <1>11
    <3>2. anchors[k] \in 2..Len(working) /\ anchors[k] < anchors[Len(anchors)]
          /\ anchors[Len(anchors)] = Len(working)
      BY <1>13, <3>1 DEF PinsAre
    <3>3. anchors[k] \in 2..Len(working) - 1 /\ anchors[k] \in DOMAIN moved /\ anchors[k] \in Range(anchors)
      <4>1. anchors[k] \in Range(anchors)
        BY <3>1 DEF Range
      <4> QED
        BY <1>2, <3>2, <4>1
    <3>4. split[shifted[k]] = moved[anchors[k]]
      BY <1>8, <1>11, <2>1, <3>1, <3>3
    <3> QED
      BY <1>1, <3>3, <3>4
  <2> QED
    BY <2>3, <2>4
<1> QED
  BY <1>8, <1>9, <1>10, <1>12, <1>13 DEF RoundIs, crossing, split, shifted

(* Shortcuts within the spans keep every pin.                               *)
LEMMA SimplifiedKeeps ==
  ASSUME IsLine(working), anchors \in Seq(Nat), NEW line \in Simplified
  PROVE  /\ IsLine(line) /\ SameEnds(line, working) /\ Len(line) <= Len(working)
         /\ PinsAre(working, anchors) => JointsAre(line, Len(anchors))
<1>1. PICK kept \in Cuts(Len(working), InSight(Points(working))) :
        line = Picked(working, kept) /\ Boundaries \subseteq kept
  BY DEF Simplified
<1>2. Len(working) \in Nat /\ Len(working) >= 2
  BY LineHas
<1>3. kept \in SUBSET (1..Len(working)) /\ {1, Len(working)} \subseteq kept
  BY <1>2, CutsKeepTheEnds
<1>4. /\ IsLine(line) /\ SameEnds(line, working) /\ Len(line) <= Len(working)
      /\ PinsAre(working, anchors) /\ Range(anchors) \subseteq kept => JointsAre(line, Len(anchors))
  BY <1>1, <1>3, PickedKeepsJoints
<1>5. ASSUME PinsAre(working, anchors), NEW i \in Range(anchors) PROVE i \in kept
  <2>1. PICK k \in DOMAIN anchors : i = anchors[k]
    BY DEF Range
  <2>2. i \in 2..Len(working)
    BY <1>5, <2>1 DEF PinsAre
  <2>3. CASE i = Len(working)
    BY <1>3, <2>3
  <2>4. CASE i # Len(working)
    <3>1. i > 1 /\ i < Len(working)
      BY <1>2, <2>2, <2>4
    <3> QED
      BY <1>1, <3>1 DEF Boundaries
  <2> QED
    BY <2>3, <2>4
<1> QED
  BY <1>4, <1>5

-----------------------------------------------------------------------------
(* Joining the legs. *)

(* A leg: the line it was made of, its end the joint.                       *)
LEMMA LegIs ==
  ASSUME NEW line, IsLine(line), NEW k \in Nat
  PROVE  LET leg == Leg(line, k)
         IN  /\ leg \in Seq(Range(leg)) /\ Len(leg) = Len(line)
             /\ \A i \in 1..Len(line) :
                  leg[i].at = line[i] /\ leg[i].joint = IF i = Len(line) THEN k ELSE 0
<1> DEFINE leg == Leg(line, k)
           vertex(i) == [at |-> line[i], joint |-> IF i = Len(line) THEN k ELSE 0]
<1>1. DOMAIN line = 1..Len(line) /\ Len(line) \in Nat
  BY LineHas
<1>2. leg = [i \in 1..Len(line) |-> vertex(i)]
  BY <1>1 DEF Leg
<1>3. \A i : vertex(i).at = line[i] /\ vertex(i).joint = IF i = Len(line) THEN k ELSE 0
  OBVIOUS
<1> HIDE DEF leg, vertex
<1>4. \A i \in 1..Len(line) : leg[i] = vertex(i) /\ leg[i] \in Range(leg)
  BY <1>2 DEF Range
<1>5. leg \in [1..Len(line) -> Range(leg)]
  BY <1>2, <1>4
<1>6. leg \in Seq(Range(leg)) /\ Len(leg) = Len(line)
  <2>1. leg \in Seq(Range(leg))
    BY <1>1, <1>5, SeqDef
  <2> QED
    BY <1>1, <1>2, <2>1
<1> QED
  BY <1>3, <1>4, <1>6 DEF leg

(* The number of a range that is not before the last.                       *)
LEMMA OnlyTheLast ==
  ASSUME NEW n \in Nat, NEW j \in 1..n, j \notin 1..n - 1
  PROVE  j = n
  OBVIOUS

(* A leg put behind a route, which keeps its pins; the joint of the leg is  *)
(* the new end.                                                             *)
LEMMA JoinKeepsPins ==
  ASSUME NEW S, NEW route \in Seq(S), NEW pins \in Seq(Nat), NEW more \in Seq(S), more # <<>>,
         more[Len(more)].joint = Len(pins) + 1,
         \A i \in 1..Len(more) - 1 : more[i].joint = 0,
         \/ route = <<>> /\ pins = <<>> /\ Len(more) >= 2
         \/ IsLine(route) /\ PinsAre(route, pins)
  PROVE  LET joined == route \o more
         IN  /\ IsLine(joined) /\ PinsAre(joined, Append(pins, Len(joined)))
             /\ joined[Len(joined)] = more[Len(more)]
             /\ joined[1] = IF route = <<>> THEN more[1] ELSE route[1]
<1> DEFINE joined == route \o more
           m == Len(route)
           n == Len(more)
           all == Append(pins, m + n)
<1>1. m \in Nat /\ n \in Nat /\ n >= 1 /\ DOMAIN route = 1..m /\ DOMAIN more = 1..n
  OBVIOUS
<1>2. joined \in Seq(S) /\ Len(joined) = m + n /\ DOMAIN joined = 1..m + n
  OBVIOUS
<1>3. /\ \A i \in 1..m : joined[i] = route[i]
      /\ \A i \in 1..n : joined[m + i] = more[i]
      /\ \A i \in 1..m + n : i \in 1..m \/ \E j \in 1..n : i = m + j
  <2>1. \A i \in 1..m : joined[i] = route[i]
    OBVIOUS
  <2>2. \A i \in 1..n : joined[m + i] = more[i]
    OBVIOUS
  <2>3. ASSUME NEW i \in 1..m + n, i \notin 1..m PROVE \E j \in 1..n : i = m + j
    <3>1. i - m \in 1..n /\ i = m + (i - m)
      BY <1>1, <2>3
    <3> QED
      BY <3>1
  <2> QED
    BY <2>1, <2>2, <2>3
<1>4. m + n >= 2
  <2>1. CASE route = <<>>
    BY <1>1, <2>1, LineHas
  <2>2. CASE route # <<>>
    BY <1>1, <2>2
  <2> QED
    BY <2>1, <2>2
<1>5. IsLine(joined)
  BY <1>2, <1>4, LineIs
<1>6. /\ DOMAIN all = 1..Len(pins) + 1 /\ Len(all) = Len(pins) + 1 /\ Len(pins) \in Nat
      /\ DOMAIN pins = 1..Len(pins)
      /\ \A k \in 1..Len(pins) : all[k] = pins[k]
      /\ all[Len(pins) + 1] = m + n
  BY <1>1
<1>7. \A k \in 1..Len(pins) : k \in 1..Len(pins) + 1 /\ pins[k] \in 2..m /\ pins[k] \in 1..m
                              /\ route[pins[k]].joint = k
  <2>1. ASSUME NEW k \in 1..Len(pins) PROVE pins[k] \in 2..m /\ route[pins[k]].joint = k
    <3>1. PinsAre(route, pins)
      BY <2>1
    <3> QED
      BY <1>6, <3>1 DEF PinsAre
  <2> QED
    BY <1>1, <1>6, <2>1
<1> HIDE DEF joined, all
<1>8. ASSUME NEW k \in DOMAIN all
      PROVE  all[k] \in 2..Len(joined) /\ joined[all[k]].joint = k
  <2>1. CASE k = Len(pins) + 1
    <3>1. joined[m + n].joint = k
      BY <1>1, <1>3, <2>1
    <3> QED
      BY <1>1, <1>2, <1>4, <1>6, <2>1, <3>1
  <2>2. CASE k # Len(pins) + 1
    <3>1. k \in 1..Len(pins)
      BY <1>6, <2>2
    <3> QED
      BY <1>1, <1>2, <1>3, <1>6, <1>7, <3>1
  <2> QED
    BY <2>1, <2>2
<1>9. ASSUME NEW k \in DOMAIN all, NEW l \in DOMAIN all, k < l
      PROVE  all[k] < all[l]
  <2>1. k \in 1..Len(pins)
    BY <1>6, <1>9
  <2>2. CASE l = Len(pins) + 1
    BY <1>1, <1>6, <1>7, <2>1, <2>2
  <2>3. CASE l # Len(pins) + 1
    <3>1. l \in 1..Len(pins)
      BY <1>6, <2>3
    <3>2. PinsAre(route, pins)
      BY <1>6, <2>1
    <3>3. pins[k] < pins[l]
      BY <1>6, <1>9, <2>1, <3>1, <3>2 DEF PinsAre
    <3> QED
      BY <1>6, <2>1, <3>1, <3>3
  <2> QED
    BY <2>2, <2>3
<1>10. ASSUME NEW i \in DOMAIN joined, joined[i].joint # 0
       PROVE  \E k \in DOMAIN all : all[k] = i
  <2>1. CASE i \in 1..m
    <3>1. PinsAre(route, pins)
      BY <1>1, <2>1
    <3>2. PICK k \in DOMAIN pins : pins[k] = i
      BY <1>1, <1>3, <1>10, <2>1, <3>1 DEF PinsAre
    <3> QED
      BY <1>6, <1>7, <3>2
  <2>2. CASE i \notin 1..m
    <3>1. PICK j \in 1..n : i = m + j
      BY <1>2, <1>3, <2>2
    <3>2. j = n
      <4>1. joined[i] = more[j]
        BY <1>3, <3>1
      <4>2. j \in 1..n - 1 => more[j].joint = 0
        OBVIOUS
      <4>3. j \notin 1..n - 1
        BY <1>10, <4>1, <4>2
      <4> QED
        BY <1>1, <3>1, <4>3, OnlyTheLast, Zenon
    <3>3. Len(pins) + 1 \in DOMAIN all
      BY <1>6
    <3> QED
      BY <1>6, <3>1, <3>2, <3>3
  <2> QED
    BY <2>1, <2>2
<1>11. all # <<>> /\ all[Len(all)] = Len(joined)
  <2>1. all # <<>>
    BY <1>6
  <2> QED
    BY <1>2, <1>6, <2>1
<1>12. PinsAre(joined, all)
  BY <1>8, <1>9, <1>10, <1>11 DEF PinsAre
<1>13. /\ joined[m + n] = more[n]
       /\ joined[1] = IF route = <<>> THEN more[1] ELSE route[1]
  <2>1. joined[m + n] = more[n]
    BY <1>1, <1>3
  <2>2. CASE route = <<>>
    <3>1. m = 0 /\ 1 \in 1..n /\ m + 1 = 1
      BY <1>1, <2>2
    <3> QED
      BY <1>3, <2>1, <2>2, <3>1
  <2>3. CASE route # <<>>
    <3>1. 1 \in 1..m
      BY <1>1, <2>3
    <3> QED
      BY <1>3, <2>1, <2>3, <3>1
  <2> QED
    BY <2>2, <2>3
<1> QED
  BY <1>2, <1>5, <1>12, <1>13 DEF joined, all

-----------------------------------------------------------------------------
(* The passes behind the band. *)

(* A polyline from where the start is snapped to where the goal is.         *)
PathEnds(line) ==
  /\ IsLine(line)
  /\ line[1] \in Snapped(request[1]) /\ line[Len(line)] \in Snapped(request[Len(request)])

(* The points of a route, without its joints.                               *)
LEMMA PointsAre ==
  ASSUME NEW vertices, IsLine(vertices)
  PROVE  /\ IsLine(Points(vertices)) /\ Len(Points(vertices)) = Len(vertices)
         /\ Points(vertices)[1] = vertices[1].at
         /\ Points(vertices)[Len(Points(vertices))] = vertices[Len(vertices)].at
<1> DEFINE points == Points(vertices)
           len == Len(vertices)
<1>1. DOMAIN vertices = 1..len /\ len \in Nat /\ len >= 2
  BY LineHas
<1> HIDE DEF len
<1>2. points = [i \in 1..len |-> vertices[i].at]
  BY <1>1 DEF Points
<1> HIDE DEF points
<1>3. \A i \in 1..len : points[i] = vertices[i].at /\ points[i] \in Range(points)
  BY <1>2 DEF Range
<1>4. points \in [1..len -> Range(points)]
  BY <1>2, <1>3
<1>5. points \in Seq(Range(points)) /\ Len(points) = len
  <2>1. points \in Seq(Range(points))
    BY <1>1, <1>4, SeqDef
  <2> QED
    BY <1>1, <1>2, <2>1
<1>6. IsLine(points)
  BY <1>1, <1>5 DEF IsLine
<1> QED
  BY <1>1, <1>3, <1>5, <1>6 DEF points, len

(* Shortcuts and cut folds keep the ends,                                   *)
LEMMA ShortenedKeepsEnds ==
  ASSUME NEW line, IsLine(line), NEW joinable, NEW short \in Shortened(line, joinable)
  PROVE  IsLine(short) /\ SameEnds(short, line)
<1>1. PICK kept \in Cuts(Len(line), joinable) : short = Picked(line, kept)
  BY DEF Shortened
<1>2. kept \in SUBSET (1..Len(line)) /\ {1, Len(line)} \subseteq kept
  BY LineHas, CutsKeepTheEnds
<1> QED
  BY <1>1, <1>2, PickedKeepsJoints

(* and so do arcs for corners.                                              *)
LEMMA RoundedKeepsEnds ==
  ASSUME NEW line, IsLine(line), NEW rounded \in Rounded(line)
  PROVE  IsLine(rounded) /\ SameEnds(rounded, line)
<1> DEFINE len == Len(line)
<1>1. DOMAIN line = 1..len /\ len \in Nat /\ len >= 2
  BY LineHas
<1> DEFINE cut(round) ==
             [i \in DOMAIN line |-> IF i \in round THEN Midpoint(line[i - 1], line[i]) ELSE line[i]]
           arcs(round) == [i \in round |-> Midpoint(line[i], line[i + 1])]
<1>2. PICK round \in SUBSET (2..len - 1) : rounded = Spread(cut(round), round, arcs(round))
  BY DEF Rounded, Corners
<1> DEFINE corners == cut(round)
           extra == arcs(round)
<1>3. /\ DOMAIN corners = 1..len /\ corners = [i \in 1..len |-> corners[i]]
      /\ corners[1] = line[1] /\ corners[len] = line[len]
  <2>1. 1 \in 1..len /\ len \in 1..len /\ 1 \notin round /\ len \notin round
    BY <1>1
  <2> QED
    BY <1>1, <2>1
<1>4. DOMAIN extra = round /\ extra = [i \in round |-> extra[i]]
  OBVIOUS
<1>5. rounded = Spread(corners, round, extra)
  BY <1>2
<1> HIDE DEF cut, arcs, corners, extra
<1>6. IsLine(corners) /\ Len(corners) = len
  <2>1. \A i \in 1..len : corners[i] \in Range(corners)
    BY <1>3 DEF Range
  <2>2. corners \in [1..len -> Range(corners)]
    BY <1>3, <2>1
  <2>3. corners \in Seq(Range(corners))
    BY <1>1, <2>2, SeqDef
  <2> QED
    BY <1>1, <1>3, <2>3 DEF IsLine
<1>7. round \in SUBSET (1..Len(corners) - 1)
  BY <1>1, <1>6
<1> DEFINE spread == Spread(corners, round, extra)
<1>8. IsLine(spread) /\ SameEnds(spread, corners)
  BY <1>4, <1>6, <1>7, SpreadKeepsPins
<1> HIDE DEF spread
<1>9. spread = rounded
  BY <1>5 DEF spread
<1> QED
  BY <1>3, <1>6, <1>8, <1>9 DEF SameEnds

(* A refusal has no corners.                                                *)
LEMMA NothingToRound ==
  ASSUME NEW rounded \in Rounded(Refused)
  PROVE  ~AllClear(rounded)
<1>1. DOMAIN Refused = {} /\ Len(Refused) = 0
  BY DEF Refused
<1>2. Corners(Refused) = {}
  <2>1. 2..Len(Refused) - 1 = {}
    BY <1>1
  <2> QED
    BY <2>1 DEF Corners
<1> DEFINE cut == [i \in DOMAIN Refused |->
                     IF i \in {} THEN Midpoint(Refused[i - 1], Refused[i]) ELSE Refused[i]]
           arcs == [i \in {} |-> Midpoint(Refused[i], Refused[i + 1])]
<1>3. rounded = Spread(cut, {}, arcs)
  BY <1>2 DEF Rounded
<1>4. DOMAIN cut = 1..0
  BY <1>1
<1> HIDE DEF cut, arcs
<1>5. Len(cut) = 0
  BY <1>4
<1>6. DOMAIN rounded = 1..0
  <2>1. Cardinality({}) = 0
    BY FS_EmptySet
  <2>2. DOMAIN rounded = 1..Len(cut) + Cardinality({})
    BY <1>3 DEF Spread
  <2> QED
    BY <1>5, <2>1, <2>2
<1>7. Len(rounded) = 0
  BY <1>6
<1> QED
  BY <1>7 DEF AllClear

(* A candidate that is clear decides, for itself or against the plan.       *)
LEMMA FirstClearIs ==
  ASSUME NEW line, NEW rest
  PROVE  \/ AllClear(line) /\ IsPath(line) /\ FirstClear(line, rest) = line
         \/ AllClear(line) /\ ~IsPath(line) /\ FirstClear(line, rest) = Refused
         \/ ~AllClear(line) /\ FirstClear(line, rest) = rest
BY DEF FirstClear

(* A line with the ends of the searched route that is no path: the route    *)
(* comes back to where it began.                                            *)
LEMMA OnePlaceIsClosed ==
  ASSUME IsLine(merged), NEW line, IsLine(line), SameEnds(line, Points(merged)), ~IsPath(line)
  PROVE  merged[1].at = merged[Len(merged)].at
<1>1. line[Len(line)] = line[1]
  BY LineHas DEF IsPath
<1>2. /\ Points(merged)[1] = merged[1].at
      /\ Points(merged)[Len(Points(merged))] = merged[Len(merged)].at
  BY PointsAre
<1> QED
  BY <1>1, <1>2 DEF SameEnds

-----------------------------------------------------------------------------
(* One lemma for each step. *)

LEMMA PlanStarts == PlanInit => PlanInvariant
<1> SUFFICES ASSUME PlanInit PROVE PlanInvariant
  OBVIOUS
<1>1. /\ request \in Requests /\ stage = "legs" /\ merged = <<>> /\ anchors = <<>>
      /\ working = <<>> /\ full = FALSE
  BY DEF PlanInit
<1>2. anchors \in Seq(Nat) /\ Len(anchors) = 0 /\ Len(working) = 0 /\ Len(merged) = 0
  BY <1>1
<1>3. Len(request) \in Nat /\ Len(request) >= 2
  BY <1>1, WaysAssumption, LineHas
<1>4. LegsInvariant
  BY <1>1, <1>2, <1>3 DEF LegsInvariant, Legs
<1>5. BandIsBounded
  BY <1>2, BandAssumption, MaxOfTwo DEF BandIsBounded
<1>6. RouteInvariant /\ PinsHoldTheirJoints /\ ShippedIsSound /\ RefusedForAReason
  BY <1>1 DEF RouteInvariant, PinsHoldTheirJoints, ShippedIsSound, RefusedForAReason
<1> QED
  BY <1>1, <1>2, <1>4, <1>5, <1>6 DEF PlanInvariant, ShippedIsLine

LEMMA PlanLegKeeps == PlanInvariant /\ PlanLeg => PlanInvariant'
<1> SUFFICES ASSUME PlanInvariant, PlanLeg PROVE PlanInvariant'
  OBVIOUS
<1> DEFINE k == Len(anchors) + 1
<1>1. PICK line \in Ways(k) :
        LET joined == merged \o (IF merged = <<>> THEN Leg(line, k) ELSE Tail(Leg(line, k)))
        IN  merged' = joined /\ anchors' = Append(anchors, Len(joined))
  BY DEF PlanLeg
<1> DEFINE leg == Leg(line, k)
           more == IF merged = <<>> THEN leg ELSE Tail(leg)
<1>2. merged' = merged \o more /\ anchors' = Append(anchors, Len(merged'))
  BY <1>1
<1>3. /\ stage = "legs" /\ Len(anchors) < Legs
      /\ request' = request /\ stage' = stage /\ working' = working /\ rounds' = rounds
      /\ path' = path /\ stops' = stops /\ full' = full
  BY DEF PlanLeg, LegDue, Legs
<1>4. /\ request \in Requests /\ anchors \in Seq(Nat) /\ Len(anchors) \in Nat
      /\ ~full /\ working = <<>>
      /\ \/ anchors = <<>> /\ merged = <<>>
         \/ anchors # <<>> /\ Reaches(merged, Len(anchors)) /\ PinsAre(merged, anchors)
  BY <1>3 DEF PlanInvariant, LegsInvariant
<1>5. Len(request) \in Nat /\ Len(request) >= 2 /\ k \in 1..Len(request) - 1 /\ k \in Nat
  <2>1. Len(request) \in Nat /\ Len(request) >= 2
    BY <1>4, WaysAssumption, LineHas
  <2> QED
    BY <1>3, <1>4, <2>1 DEF Legs
<1>6. /\ IsLine(line) /\ line[1] \in Snapped(request[k])
      /\ line[Len(line)] \in Snapped(request[k + 1])
  <2>1. PICK from \in Snapped(request[k]), to \in Snapped(request[k + 1]) :
          line \in Candidates(from, to)
    BY <1>1 DEF Ways
  <2>2. line \in Stored(from, to) \cup Searched(from, to)
    BY <2>1 DEF Candidates, Usable
  <2>3. IsLine(line) /\ line[1] = from /\ line[Len(line)] = to
    BY <1>4, <1>5, <2>2, WaysAssumption
  <2> QED
    BY <2>3
<1>7. /\ leg \in Seq(Range(leg)) /\ Len(leg) = Len(line)
      /\ \A i \in 1..Len(line) :
           leg[i].at = line[i] /\ leg[i].joint = IF i = Len(line) THEN k ELSE 0
  BY <1>5, <1>6, LegIs
<1>8. Len(line) \in Nat /\ Len(line) >= 2
  BY <1>6, LineHas
<1> HIDE DEF leg
<1>9. /\ more \in Seq(Range(leg)) /\ more # <<>>
      /\ more[Len(more)] = leg[Len(leg)]
      /\ \A i \in 1..Len(more) - 1 : more[i].joint = 0
      /\ merged = <<>> => Len(more) >= 2 /\ more[1] = leg[1]
  <2>1. CASE merged = <<>>
    BY <1>7, <1>8, <2>1
  <2>2. CASE merged # <<>>
    <3>1. /\ Tail(leg) \in Seq(Range(leg)) /\ Len(Tail(leg)) = Len(leg) - 1
          /\ \A i \in 1..Len(leg) - 1 : Tail(leg)[i] = leg[i + 1]
      BY <1>7, <1>8
    <3>2. Tail(leg)[Len(leg) - 1] = leg[Len(leg)]
      BY <1>7, <1>8, <3>1
    <3>3. \A i \in 1..Len(leg) - 2 : Tail(leg)[i].joint = 0
      <4>1. ASSUME NEW i \in 1..Len(leg) - 2 PROVE Tail(leg)[i].joint = 0
        <5>1. i + 1 \in 1..Len(line) /\ i + 1 # Len(line)
          BY <1>7, <1>8
        <5>2. leg[i + 1].joint = 0
          BY <1>7, <5>1
        <5>3. i \in 1..Len(leg) - 1
          BY <1>7, <1>8
        <5>4. Tail(leg)[i] = leg[i + 1]
          BY <3>1, <5>3
        <5> QED
          BY <5>2, <5>4
      <4> QED
        BY <4>1
    <3>4. Tail(leg) # <<>>
      <4>1. Len(Tail(leg)) # 0
        BY <1>7, <1>8, <3>1
      <4>2. Len(<<>>) = 0
        OBVIOUS
      <4> QED
        BY <4>1, <4>2, Zenon
    <3>5. more = Tail(leg) /\ Len(more) - 1 = Len(leg) - 2
      BY <1>7, <1>8, <2>2, <3>1
    <3> HIDE DEF more
    <3> QED
      BY <2>2, <3>1, <3>2, <3>3, <3>4, <3>5
  <2> QED
    BY <2>1, <2>2
<1> HIDE DEF more
<1>10. leg[Len(leg)].joint = k /\ leg[Len(leg)].at = line[Len(line)] /\ leg[1].at = line[1]
  BY <1>7, <1>8
<1> DEFINE S == Range(merged) \cup Range(leg)
           joined == merged \o more
<1>11. merged \in Seq(S) /\ more \in Seq(S)
  <2>1. merged \in Seq(Range(merged))
    <3>1. CASE merged = <<>>
      BY <3>1
    <3>2. CASE merged # <<>>
      BY <1>4, <3>2, LineHas DEF Reaches
    <3> QED
      BY <3>1, <3>2
  <2>2. Range(merged) \subseteq S /\ Range(leg) \subseteq S
    OBVIOUS
  <2> HIDE DEF S
  <2> QED
    BY <1>9, <2>1, <2>2
<1> HIDE DEF S
<1>12. /\ IsLine(joined) /\ PinsAre(joined, Append(anchors, Len(joined)))
       /\ joined[Len(joined)] = more[Len(more)]
       /\ joined[1] = IF merged = <<>> THEN more[1] ELSE merged[1]
  <2>1. more[Len(more)].joint = Len(anchors) + 1
    BY <1>9, <1>10
  <2>2. \/ merged = <<>> /\ anchors = <<>> /\ Len(more) >= 2
        \/ IsLine(merged) /\ PinsAre(merged, anchors)
    BY <1>4, <1>9 DEF Reaches
  <2>3. \A i \in 1..Len(more) - 1 : more[i].joint = 0
    BY <1>9
  <2> HIDE DEF k
  <2> QED
    BY <1>4, <1>9, <1>11, <2>1, <2>2, <2>3, JoinKeepsPins
<1>13. joined = merged'
  BY <1>2
<1> HIDE DEF joined
<1>14. Len(anchors') = k /\ anchors' # <<>> /\ anchors' \in Seq(Nat)
  <2>1. Len(joined) \in Nat
    BY <1>12, LineHas
  <2> QED
    BY <1>2, <1>4, <1>13, <2>1
<1>15. merged'[1].at \in Snapped(request[1])
  <2>1. CASE merged = <<>>
    <3>1. k = 1
      BY <1>4, <2>1 DEF Reaches, IsLine
    <3> QED
      BY <1>6, <1>9, <1>10, <1>12, <1>13, <2>1, <3>1
  <2>2. CASE merged # <<>>
    BY <1>4, <1>12, <1>13, <2>2 DEF Reaches
  <2> QED
    BY <2>1, <2>2
<1>16. merged'[Len(merged')].at \in Snapped(request[k + 1])
  BY <1>6, <1>9, <1>10, <1>12, <1>13
<1>17. LegsInvariant'
  <2>1. Reaches(merged, Len(anchors))'
    BY <1>3, <1>12, <1>13, <1>14, <1>15, <1>16 DEF Reaches
  <2>2. PinsAre(merged', anchors')
    BY <1>2, <1>12, <1>13
  <2>3. stage' = "legs" /\ ~full' /\ working' = <<>> /\ Len(anchors') <= Legs'
    BY <1>3, <1>4, <1>5, <1>14 DEF Legs
  <2> QED
    BY <1>14, <2>1, <2>2, <2>3 DEF LegsInvariant
<1>18. BandIsBounded'
  <2>1. Len(working') = 0 /\ Len(merged') \in Nat
    BY <1>3, <1>4, <1>12, <1>13, LineHas
  <2> QED
    BY <2>1, BandAssumption, MaxOfTwo DEF BandIsBounded
<1>19. (RouteInvariant /\ PinsHoldTheirJoints /\ ShippedIsSound /\ RefusedForAReason /\ ShippedIsLine)'
  BY <1>3 DEF RouteInvariant, PinsHoldTheirJoints, ShippedIsSound, RefusedForAReason, ShippedIsLine
<1> QED
  BY <1>3, <1>4, <1>14, <1>17, <1>18, <1>19 DEF PlanInvariant

LEMMA NoWayKeeps == PlanInvariant /\ NoWay => PlanInvariant'
<1> SUFFICES ASSUME PlanInvariant, NoWay PROVE PlanInvariant'
  OBVIOUS
<1>1. /\ stage = "legs" /\ stage' = "no_path"
      /\ request' = request /\ merged' = merged /\ anchors' = anchors /\ working' = working
      /\ path' = path /\ stops' = stops /\ full' = full
  BY DEF NoWay, LegDue
<1>2. LegsInvariant' /\ BandIsBounded'
  BY <1>1 DEF PlanInvariant, LegsInvariant, Reaches, Legs, BandIsBounded
<1>3. (RouteInvariant /\ PinsHoldTheirJoints /\ ShippedIsSound /\ ShippedIsLine /\ RefusedForAReason)'
  BY <1>1 DEF RouteInvariant, PinsHoldTheirJoints, ShippedIsSound, ShippedIsLine, RefusedForAReason
<1> QED
  BY <1>1, <1>2, <1>3 DEF PlanInvariant

(* A joint is at one vertex of the route: the one its pin is on.            *)
LEMMA PlaceIsPinned ==
  ASSUME NEW pins \in Seq(Nat), IsLine(merged), PinsAre(merged, pins), NEW k \in DOMAIN pins
  PROVE  PlaceOf(k) = merged[pins[k]].at
<1>1. DOMAIN merged = 1..Len(merged) /\ DOMAIN pins = 1..Len(pins)
  BY LineHas
<1>2. pins[k] \in DOMAIN merged /\ merged[pins[k]].joint = k /\ k # 0
  BY <1>1 DEF PinsAre
<1>3. \A i \in DOMAIN merged : merged[i].joint = k => i = pins[k]
  <2>1. ASSUME NEW i \in DOMAIN merged, merged[i].joint = k PROVE i = pins[k]
    <3>1. PICK l \in DOMAIN pins : pins[l] = i
      BY <1>2, <2>1 DEF PinsAre
    <3>2. l = k
      BY <2>1, <3>1 DEF PinsAre
    <3> QED
      BY <3>1, <3>2
  <2> QED
    BY <2>1
<1>4. (CHOOSE i \in DOMAIN merged : merged[i].joint = k) = pins[k]
  BY <1>2, <1>3, Zenon
<1> QED
  BY <1>4 DEF PlaceOf

LEMMA StartBandKeeps == PlanInvariant /\ StartBand => PlanInvariant'
<1> SUFFICES ASSUME PlanInvariant, StartBand PROVE PlanInvariant'
  OBVIOUS
<1>1. /\ stage = "legs" /\ Len(anchors) = Legs /\ stage' \in {"band", "finish"}
      /\ request' = request /\ merged' = merged /\ anchors' = anchors /\ working' = merged
      /\ path' = path /\ stops' = stops /\ full' = full
  BY DEF StartBand, Legs
<1>2. /\ request \in Requests /\ anchors \in Seq(Nat)
      /\ IF anchors = <<>> THEN merged = <<>>
         ELSE Reaches(merged, Len(anchors)) /\ PinsAre(merged, anchors)
  BY <1>1 DEF PlanInvariant, LegsInvariant
<1>3. Len(request) \in Nat /\ Len(request) >= 2
  BY <1>2, WaysAssumption, LineHas
<1>4. anchors # <<>>
  <2>1. Len(anchors) # 0
    BY <1>1, <1>3 DEF Legs
  <2> QED
    BY <2>1
<1>5. Reaches(merged, Legs) /\ PinsAre(merged, anchors) /\ IsLine(merged)
  BY <1>1, <1>2, <1>4 DEF Reaches
<1>6. JointsAre(merged, Legs)
  BY <1>1, <1>2, <1>5, PinsGiveJoints
<1>7. Reaches(merged, Legs)' /\ Legs' = Legs
  BY <1>1, <1>5 DEF Reaches, Legs
<1>8. RouteInvariant'
  <2>1. SameEnds(working', merged')
    BY <1>1 DEF SameEnds
  <2> QED
    BY <1>1, <1>5, <1>6, <1>7, <2>1 DEF RouteInvariant
<1>9. BandIsBounded'
  <2>1. Len(merged) \in Nat
    BY <1>5, LineHas
  <2> QED
    BY <1>1, <2>1, BandAssumption, MaxOfTwo DEF BandIsBounded
<1>10. PinsHoldTheirJoints'
  <2>1. ASSUME NEW k \in Joints'
        PROVE  /\ anchors'[k] \in DOMAIN working' /\ working'[anchors'[k]].joint = k
               /\ working'[anchors'[k]].at = PlaceOf(k)'
    <3>1. k \in DOMAIN anchors
      BY <1>1, <1>2, <1>3 DEF Joints, Legs
    <3>2. anchors[k] \in DOMAIN merged /\ merged[anchors[k]].joint = k
      BY <1>5, <3>1, LineHas DEF PinsAre
    <3>3. PlaceOf(k) = merged[anchors[k]].at
      BY <1>2, <1>5, <3>1, PlaceIsPinned
    <3>4. PlaceOf(k)' = PlaceOf(k)
      BY <1>1 DEF PlaceOf
    <3> QED
      BY <1>1, <3>2, <3>3, <3>4
  <2> QED
    BY <2>1 DEF PinsHoldTheirJoints
<1>11. (LegsInvariant /\ ShippedIsSound /\ ShippedIsLine /\ RefusedForAReason)'
  BY <1>1 DEF LegsInvariant, ShippedIsSound, ShippedIsLine, RefusedForAReason
<1> QED
  BY <1>1, <1>2, <1>8, <1>9, <1>10, <1>11 DEF PlanInvariant

LEMMA RelaxBandKeeps == PlanInvariant /\ RelaxBand => PlanInvariant'
<1> SUFFICES ASSUME PlanInvariant, RelaxBand PROVE PlanInvariant'
  OBVIOUS
<1>1. /\ stage = "band" /\ stage' = "band"
      /\ request' = request /\ merged' = merged /\ path' = path /\ stops' = stops
  BY DEF RelaxBand
<1>2. PICK moved \in Moved :
        /\ working' = Inserted(moved, Infeasible(moved))
        /\ anchors' = Shifted(anchors, Infeasible(moved))
        /\ full' = (full \/ Len(working') < Len(moved) + Cardinality(Infeasible(moved)))
  BY DEF RelaxBand
<1>3. /\ request \in Requests /\ anchors \in Seq(Nat)
      /\ Len(anchors) = Legs /\ Reaches(merged, Legs) /\ JointsAre(merged, Legs)
      /\ IsLine(working) /\ SameEnds(working, merged)
      /\ ~full => PinsAre(working, anchors)
      /\ PinsHoldTheirJoints /\ BandIsBounded
  BY <1>1 DEF PlanInvariant, RouteInvariant
<1>4. RoundIs(moved, Infeasible(moved), working')
  BY <1>2, <1>3, RoundKeeps
<1>5. /\ IsLine(working') /\ SameEnds(working', working)
      /\ Len(working') <= Max({MaxPoints, Len(working)})
      /\ anchors' \in Seq(Nat) /\ Len(anchors') = Len(anchors)
      /\ ~full' => /\ ~full /\ PinsAre(working, anchors) /\ PinsAre(working', anchors')
                   /\ \A k \in 1..Len(anchors) - 1 :
                        working'[anchors'[k]].at = Pushed(working[anchors[k]].at)
  <2>1. ~full' => ~full /\ ~(Len(working') < Len(moved) + Cardinality(Infeasible(moved)))
    BY <1>2
  <2> QED
    BY <1>2, <1>3, <1>4, <2>1 DEF RoundIs
<1>6. Legs' = Legs /\ Reaches(merged, Legs)' /\ SameEnds(working', merged') /\ Joints' = Joints
  BY <1>1, <1>3, <1>5 DEF Legs, Reaches, SameEnds, Joints
<1>7. RouteInvariant'
  BY <1>1, <1>3, <1>5, <1>6 DEF RouteInvariant
<1>8. BandIsBounded'
  <2>1. Len(merged) \in Nat /\ Len(working) \in Nat /\ Len(working') \in Nat
    BY <1>3, <1>5, LineHas DEF Reaches
  <2>2. MaxPoints \in Nat
    BY BandAssumption
  <2>3. /\ Max({MaxPoints, Len(working)}) \in {MaxPoints, Len(working)}
        /\ Max({MaxPoints, Len(merged)}) \in {MaxPoints, Len(merged)}
        /\ MaxPoints <= Max({MaxPoints, Len(merged)})
    BY <2>1, <2>2, MaxOfTwo
  <2>4. Len(working) <= Max({MaxPoints, Len(merged)})
    BY <1>3 DEF BandIsBounded
  <2>5. Len(working') <= Max({MaxPoints, Len(merged)})
    BY <1>5, <2>1, <2>2, <2>3, <2>4
  <2> QED
    BY <1>1, <2>5 DEF BandIsBounded
<1>9. PinsHoldTheirJoints'
  <2>1. ASSUME ~full', NEW k \in Joints'
        PROVE  /\ anchors'[k] \in DOMAIN working' /\ working'[anchors'[k]].joint = k
               /\ Pushed(PlaceOf(k)') = PlaceOf(k)' => working'[anchors'[k]].at = PlaceOf(k)'
    <3>1. Len(request) \in Nat /\ Len(request) >= 2
      BY <1>3, WaysAssumption, LineHas
    <3>2. k \in Joints /\ k \in 1..Len(anchors) - 1 /\ k \in DOMAIN anchors'
      BY <1>3, <1>5, <1>6, <2>1, <3>1 DEF Joints, Legs
    <3>3. anchors'[k] \in DOMAIN working' /\ working'[anchors'[k]].joint = k
      BY <1>5, <2>1, <3>2, LineHas DEF PinsAre
    <3>4. PlaceOf(k)' = PlaceOf(k)
      BY <1>1 DEF PlaceOf
    <3>5. Pushed(PlaceOf(k)) = PlaceOf(k) => working[anchors[k]].at = PlaceOf(k)
      BY <1>1, <1>3, <1>5, <2>1, <3>2 DEF PinsHoldTheirJoints
    <3>6. working'[anchors'[k]].at = Pushed(working[anchors[k]].at)
      BY <1>5, <2>1, <3>2
    <3> QED
      BY <3>3, <3>4, <3>5, <3>6
  <2> QED
    BY <2>1 DEF PinsHoldTheirJoints
<1>10. (LegsInvariant /\ ShippedIsSound /\ ShippedIsLine /\ RefusedForAReason)'
  BY <1>1 DEF LegsInvariant, ShippedIsSound, ShippedIsLine, RefusedForAReason
<1> QED
  BY <1>1, <1>3, <1>5, <1>7, <1>8, <1>9, <1>10 DEF PlanInvariant

LEMMA FinishBandKeeps == PlanInvariant /\ FinishBand => PlanInvariant'
<1> SUFFICES ASSUME PlanInvariant, FinishBand PROVE PlanInvariant'
  OBVIOUS
<1>1. /\ stage = "band" /\ stage' \in {"finish", "refused"}
      /\ request' = request /\ merged' = merged /\ anchors' = anchors
      /\ path' = path /\ stops' = stops /\ full' = full
  BY DEF FinishBand
<1>2. PICK line \in Simplified :
        /\ working' \in {line, merged}
        /\ stage' = "refused" => ~IsPath(Points(line)) \/ ~IsPath(Points(merged))
  BY DEF FinishBand
<1>3. /\ request \in Requests /\ anchors \in Seq(Nat)
      /\ Len(anchors) = Legs /\ Reaches(merged, Legs) /\ JointsAre(merged, Legs)
      /\ IsLine(working) /\ SameEnds(working, merged)
      /\ ~full => PinsAre(working, anchors)
      /\ BandIsBounded
  BY <1>1 DEF PlanInvariant, RouteInvariant
<1>4. /\ IsLine(line) /\ SameEnds(line, working) /\ Len(line) <= Len(working)
      /\ PinsAre(working, anchors) => JointsAre(line, Legs)
  BY <1>3, SimplifiedKeeps
<1>5. IsLine(merged) /\ SameEnds(merged, merged) /\ SameEnds(line, merged)
  BY <1>3, <1>4 DEF Reaches, SameEnds
<1>6. Legs' = Legs /\ Reaches(merged, Legs)'
  BY <1>1, <1>3 DEF Legs, Reaches
<1>7. IsLine(working') /\ SameEnds(working', merged) /\ (~full => JointsAre(working', Legs))
  BY <1>2, <1>3, <1>4, <1>5
<1>8. RouteInvariant'
  BY <1>1, <1>3, <1>6, <1>7 DEF RouteInvariant
<1>9. BandIsBounded'
  <2>1. Len(merged) \in Nat /\ Len(working) \in Nat /\ Len(line) \in Nat
    BY <1>3, <1>4, <1>5, LineHas
  <2>2. /\ Max({MaxPoints, Len(merged)}) \in {MaxPoints, Len(merged)} /\ MaxPoints \in Nat
        /\ Len(merged) <= Max({MaxPoints, Len(merged)})
    BY <2>1, BandAssumption, MaxOfTwo
  <2>3. Len(working) <= Max({MaxPoints, Len(merged)})
    BY <1>3 DEF BandIsBounded
  <2>4. Len(working') <= Max({MaxPoints, Len(merged)})
    BY <1>2, <1>4, <2>1, <2>2, <2>3
  <2> QED
    BY <1>1, <2>4 DEF BandIsBounded
<1>10. (PinsHoldTheirJoints /\ LegsInvariant /\ ShippedIsSound /\ ShippedIsLine)'
  BY <1>1 DEF PinsHoldTheirJoints, LegsInvariant, ShippedIsSound, ShippedIsLine
<1>11. RefusedForAReason'
  <2>1. /\ IsLine(Points(line)) /\ SameEnds(Points(line), Points(merged))
        /\ IsLine(Points(merged)) /\ SameEnds(Points(merged), Points(merged))
    BY <1>4, <1>5, PointsAre DEF SameEnds
  <2>2. stage' = "refused" => merged[1].at = merged[Len(merged)].at
    BY <1>2, <1>5, <2>1, OnePlaceIsClosed
  <2> QED
    BY <1>1, <2>2 DEF RefusedForAReason
<1> QED
  BY <1>1, <1>3, <1>8, <1>9, <1>10, <1>11 DEF PlanInvariant

(* A polyline that ends where the searched route does.                      *)
RouteEnds(line) == PathEnds(line) /\ SameEnds(line, Points(merged))

(* What is changed between the ends is still a route from start to goal,    *)
LEMMA SameEndsReach ==
  ASSUME NEW line, RouteEnds(line), NEW other, IsLine(other), SameEnds(other, line)
  PROVE  RouteEnds(other)
BY DEF RouteEnds, PathEnds, SameEnds

(* and what the validation makes of it is a clear path between those ends,  *)
(* a refusal of a route that comes back, or what it falls back on.          *)
LEMMA ValidatedIs ==
  ASSUME IsLine(merged), NEW line, RouteEnds(line), NEW rest
  PROVE  LET out == FirstClear(line, rest)
         IN  \/ out # Refused /\ AllClear(out) /\ IsPath(out) /\ RouteEnds(out)
             \/ out = Refused /\ merged[1].at = merged[Len(merged)].at
             \/ out = rest /\ ~AllClear(line)
<1> DEFINE out == FirstClear(line, rest)
<1>1. IsLine(line) /\ SameEnds(line, Points(merged)) /\ line # Refused
  BY LineHas DEF RouteEnds, PathEnds, Refused
<1>2. CASE AllClear(line) /\ IsPath(line) /\ out = line
  BY <1>1, <1>2
<1>3. CASE AllClear(line) /\ ~IsPath(line) /\ out = Refused
  BY <1>1, <1>3, OnePlaceIsClosed
<1> QED
  BY <1>2, <1>3, FirstClearIs

LEMMA ShapeKeeps == PlanInvariant /\ Shape => PlanInvariant'
<1> SUFFICES ASSUME PlanInvariant, Shape PROVE PlanInvariant'
  OBVIOUS
<1>1. /\ stage = "finish"
      /\ request' = request /\ merged' = merged /\ anchors' = anchors /\ working' = working
      /\ stops' = stops /\ full' = full
  BY DEF Shape
<1> DEFINE raw == Points(working)
           searched == Points(merged)
           returns == merged[1].at = merged[Len(merged)].at
           unwound(cleaned, resampled) ==
             FirstClear(cleaned, FirstClear(resampled, FirstClear(raw, FirstClear(searched, Refused))))
           out(cleaned, resampled) ==
             IF IsPath(resampled) THEN unwound(cleaned, resampled) ELSE Refused
<1>2. PICK resampled \in Resamplings(raw) :
        \E cleaned \in Shortened(resampled, InSight(resampled)) :
          /\ stage' = IF out(cleaned, resampled) = Refused THEN "refused" ELSE "shaped"
          /\ path' = out(cleaned, resampled)
  BY DEF Shape
<1>3. PICK cleaned \in Shortened(resampled, InSight(resampled)) :
        /\ stage' = IF out(cleaned, resampled) = Refused THEN "refused" ELSE "shaped"
        /\ path' = out(cleaned, resampled)
  BY <1>2
<1>4. /\ request \in Requests /\ anchors \in Seq(Nat)
      /\ Len(anchors) = Legs /\ Reaches(merged, Legs) /\ JointsAre(merged, Legs)
      /\ IsLine(working) /\ SameEnds(working, merged) /\ IsLine(merged)
      /\ BandIsBounded
  BY <1>1 DEF PlanInvariant, RouteInvariant, Reaches
<1>5. Len(request) \in Nat /\ Legs + 1 = Len(request)
  BY <1>4, WaysAssumption, LineHas DEF Legs
<1>6. RouteEnds(searched)
  BY <1>4, <1>5, PointsAre DEF RouteEnds, PathEnds, Reaches, SameEnds
<1>7. RouteEnds(raw)
  <2>1. IsLine(raw) /\ SameEnds(raw, searched)
    BY <1>4, PointsAre DEF SameEnds
  <2> QED
    BY <1>6, <2>1, SameEndsReach
<1>8. RouteEnds(resampled)
  <2>1. IsLine(resampled) /\ SameEnds(resampled, raw)
    BY DEF Resamplings, SameEnds, Last
  <2> HIDE DEF raw
  <2> QED
    BY <1>7, <2>1, SameEndsReach
<1>9. RouteEnds(cleaned)
  <2>1. IsLine(cleaned) /\ SameEnds(cleaned, resampled)
    BY <1>8, ShortenedKeepsEnds DEF RouteEnds, PathEnds
  <2> QED
    BY <1>8, <2>1, SameEndsReach
<1> HIDE DEF raw, searched, returns
<1> DEFINE Ships(line) == line # Refused /\ AllClear(line) /\ IsPath(line) /\ RouteEnds(line)
           Fails(line) == line = Refused /\ (returns \/ ~AllClear(searched))
<1>10. Ships(out(cleaned, resampled)) \/ Fails(out(cleaned, resampled))
  <2> DEFINE last == FirstClear(searched, Refused)
             third == FirstClear(raw, last)
             second == FirstClear(resampled, third)
  <2>1. Ships(last) \/ Fails(last)
    BY <1>4, <1>6, ValidatedIs DEF returns
  <2> HIDE DEF last
  <2>2. Ships(third) \/ Fails(third)
    BY <1>4, <1>7, <2>1, ValidatedIs DEF returns
  <2> HIDE DEF third
  <2>3. Ships(second) \/ Fails(second)
    BY <1>4, <1>8, <2>2, ValidatedIs DEF returns
  <2> HIDE DEF second
  <2>4. Ships(FirstClear(cleaned, second)) \/ Fails(FirstClear(cleaned, second))
    BY <1>4, <1>9, <2>3, ValidatedIs DEF returns
  <2>5. ~IsPath(resampled) => returns
    BY <1>4, <1>8, OnePlaceIsClosed DEF returns, RouteEnds, PathEnds
  <2>6. unwound(cleaned, resampled) = FirstClear(cleaned, second)
    BY DEF second, third, last
  <2> HIDE DEF unwound
  <2> QED
    BY <2>4, <2>5, <2>6
<1> HIDE DEF out, Ships, Fails
<1>11. \/ stage' = "shaped" /\ Ships(path')
       \/ stage' = "refused" /\ Fails(path')
  BY <1>3, <1>10 DEF Ships, Fails
<1>12. stage' \in {"refused", "shaped"}
  BY <1>11
<1>13. RouteEnds(path)' <=> RouteEnds(path')
  BY <1>1 DEF RouteEnds, PathEnds, Snapped
<1>14. (ShippedIsSound /\ ShippedIsLine)'
  BY <1>11, <1>12, <1>13 DEF Ships, ShippedIsSound, ShippedIsLine, RouteEnds, PathEnds, Last
<1>15. RefusedForAReason'
  BY <1>1, <1>11, <1>12 DEF Fails, RefusedForAReason, returns, searched
<1>16. (BandIsBounded /\ LegsInvariant /\ PinsHoldTheirJoints)'
  BY <1>1, <1>4, <1>12 DEF BandIsBounded, LegsInvariant, PinsHoldTheirJoints
<1>17. RouteInvariant'
  <2>1. Legs' = Legs /\ Reaches(merged, Legs)'
    BY <1>1, <1>4 DEF Legs, Reaches
  <2> QED
    BY <1>1, <1>4, <1>12, <2>1 DEF RouteInvariant
<1> QED
  BY <1>1, <1>4, <1>12, <1>14, <1>15, <1>16, <1>17 DEF PlanInvariant

LEMMA FinishPathKeeps == PlanInvariant /\ FinishPath => PlanInvariant'
<1> SUFFICES ASSUME PlanInvariant, FinishPath PROVE PlanInvariant'
  OBVIOUS
<1>1. /\ stage = "shaped"
      /\ request' = request /\ merged' = merged /\ anchors' = anchors /\ working' = working
      /\ full' = full
  BY DEF FinishPath
<1> DEFINE returns == merged[1].at = merged[Len(merged)].at
           straight(unfolded) == FirstClear(unfolded, path)
           line(unfolded, rounded) == FirstClear(rounded, straight(unfolded))
<1>2. PICK unfolded \in Unfolded(path) :
        \E rounded \in Rounded(straight(unfolded)) :
          /\ stage' = IF line(unfolded, rounded) = Refused THEN "refused" ELSE "done"
          /\ path' = line(unfolded, rounded)
  BY DEF FinishPath
<1>3. PICK rounded \in Rounded(straight(unfolded)) :
        /\ stage' = IF line(unfolded, rounded) = Refused THEN "refused" ELSE "done"
        /\ path' = line(unfolded, rounded)
  BY <1>2
<1>4. /\ request \in Requests /\ anchors \in Seq(Nat)
      /\ Len(anchors) = Legs /\ Reaches(merged, Legs) /\ JointsAre(merged, Legs)
      /\ IsLine(working) /\ SameEnds(working, merged) /\ IsLine(merged)
      /\ BandIsBounded
  BY <1>1 DEF PlanInvariant, RouteInvariant, Reaches
<1> DEFINE Ships(points) ==
             points # Refused /\ AllClear(points) /\ IsPath(points) /\ RouteEnds(points)
           Fails(points) == points = Refused /\ returns
<1>5. Ships(path)
  BY <1>1, LineHas
    DEF PlanInvariant, ShippedIsSound, ShippedIsLine, RouteEnds, PathEnds, Last, Refused
<1> DEFINE cut == straight(unfolded)
<1>6. Ships(cut) \/ Fails(cut)
  <2>1. IsLine(unfolded) /\ SameEnds(unfolded, path)
    BY <1>5, ShortenedKeepsEnds DEF Unfolded, RouteEnds, PathEnds
  <2>2. RouteEnds(unfolded)
    BY <1>5, <2>1, SameEndsReach
  <2> QED
    BY <1>4, <1>5, <2>2, ValidatedIs
<1>7. line(unfolded, rounded) = FirstClear(rounded, cut) /\ rounded \in Rounded(cut)
  OBVIOUS
<1> HIDE DEF straight, cut
<1>8. Ships(line(unfolded, rounded)) \/ Fails(line(unfolded, rounded))
  <2>1. CASE Ships(cut)
    <3>1. IsLine(rounded) /\ SameEnds(rounded, cut)
      BY <1>7, <2>1, RoundedKeepsEnds DEF RouteEnds, PathEnds
    <3>2. RouteEnds(rounded)
      BY <2>1, <3>1, SameEndsReach
    <3> QED
      BY <1>4, <1>7, <2>1, <3>2, ValidatedIs
  <2>2. CASE Fails(cut)
    <3>1. rounded = Refused \/ ~AllClear(rounded)
      BY <1>7, <2>2, NothingToRound
    <3>2. ~AllClear(Refused)
      BY DEF AllClear, Refused
    <3> QED
      BY <1>7, <2>2, <3>1, <3>2, FirstClearIs
  <2> QED
    BY <1>6, <2>1, <2>2
<1> HIDE DEF line, Ships, Fails, returns
<1>9. \/ stage' = "done" /\ Ships(path')
      \/ stage' = "refused" /\ Fails(path')
  BY <1>3, <1>8 DEF Ships, Fails
<1>10. stage' \in {"refused", "done"}
  BY <1>9
<1>11. RouteEnds(path)' <=> RouteEnds(path')
  BY <1>1 DEF RouteEnds, PathEnds, Snapped
<1>12. (ShippedIsSound /\ ShippedIsLine)'
  BY <1>9, <1>10, <1>11 DEF Ships, ShippedIsSound, ShippedIsLine, RouteEnds, PathEnds, Last
<1>13. RefusedForAReason'
  BY <1>1, <1>9, <1>10 DEF Fails, RefusedForAReason, returns
<1>14. (BandIsBounded /\ LegsInvariant /\ PinsHoldTheirJoints)'
  BY <1>1, <1>4, <1>10 DEF BandIsBounded, LegsInvariant, PinsHoldTheirJoints
<1>15. RouteInvariant'
  <2>1. Legs' = Legs /\ Reaches(merged, Legs)'
    BY <1>1, <1>4 DEF Legs, Reaches
  <2> QED
    BY <1>1, <1>4, <1>10, <2>1 DEF RouteInvariant
<1> QED
  BY <1>1, <1>4, <1>10, <1>12, <1>13, <1>14, <1>15 DEF PlanInvariant

LEMMA PlanStutters == PlanInvariant /\ UNCHANGED planVars => PlanInvariant'
<1> SUFFICES ASSUME PlanInvariant, UNCHANGED planVars PROVE PlanInvariant'
  OBVIOUS
<1>1. /\ request' = request /\ stage' = stage /\ merged' = merged /\ anchors' = anchors
      /\ working' = working /\ path' = path /\ full' = full
  BY DEF planVars
<1>2. LegsInvariant'
  BY <1>1 DEF PlanInvariant, LegsInvariant, Reaches, Legs
<1>3. RouteInvariant'
  BY <1>1 DEF PlanInvariant, RouteInvariant, Reaches, Legs
<1>4. PinsHoldTheirJoints'
  <2>1. Joints' = Joints /\ \A k : PlaceOf(k)' = PlaceOf(k)
    BY <1>1 DEF Joints, PlaceOf
  <2>2. PinsHoldTheirJoints
    BY DEF PlanInvariant
  <2> QED
    BY <1>1, <2>1, <2>2 DEF PinsHoldTheirJoints
<1>5. (BandIsBounded /\ ShippedIsSound /\ ShippedIsLine /\ RefusedForAReason)'
  BY <1>1 DEF PlanInvariant, BandIsBounded, ShippedIsSound, ShippedIsLine, RefusedForAReason
<1> QED
  BY <1>1, <1>2, <1>3, <1>4, <1>5 DEF PlanInvariant

(* Every step of the plan keeps what is known of the route: standard.rs.    *)
THEOREM PlanIsInductive == PlanSpec => []PlanInvariant
<1>1. PlanInit => PlanInvariant
  BY PlanStarts
<1>2. PlanInvariant /\ [PlanNext]_planVars => PlanInvariant'
  BY PlanLegKeeps, NoWayKeeps, StartBandKeeps, RelaxBandKeeps, FinishBandKeeps, ShapeKeeps,
     FinishPathKeeps, PlanStutters DEF PlanNext
<1> QED
  BY <1>1, <1>2, PTL DEF PlanSpec

(* While the band grows, every pin is on the vertex of its joint; no        *)
(* shortcut has cut a joint out or doubled it; the band never outgrows its  *)
(* bound: elastic.rs, whatever the forces and the projection do.            *)
THEOREM TheBandKeepsItsJoints == PlanSpec => []BandKeepsItsJoints
<1>1. PlanInvariant => BandKeepsItsJoints
  <2> SUFFICES ASSUME PlanInvariant PROVE BandKeepsItsJoints
    OBVIOUS
  <2>1. JointsInOrder
    <3>1. SUFFICES ASSUME stage = "finish", ~full PROVE
            /\ 1..Len(request) - 1 \subseteq {working[i].joint : i \in DOMAIN working}
            /\ \A i, j \in DOMAIN working :
                 i < j /\ 0 \notin {working[i].joint, working[j].joint} =>
                   working[i].joint < working[j].joint
      BY DEF JointsInOrder
    <3>2. JointsAre(working, Legs)
      BY <3>1 DEF PlanInvariant, RouteInvariant
    <3> QED
      BY <3>2 DEF JointsAre, Legs
  <2> QED
    BY <2>1 DEF PlanInvariant, BandKeepsItsJoints
<1> QED
  BY <1>1, PlanIsInductive, PTL

(* A plan whose legs have ways ends with a path that goes somewhere and is  *)
(* clear all the way from the snapped start to the snapped goal, or is      *)
(* refused because the searched route is not clear or ends where it began:  *)
(* plan_with_library, first_clear_path and Path::new, whatever the passes   *)
(* do to the line.                                                          *)
THEOREM ThePlanEndsSoundly == PlanSpec => []PlanEndsSoundly
<1>1. PlanInvariant => PlanEndsSoundly
  BY DEF PlanInvariant, PlanEndsSoundly
<1> QED
  BY <1>1, PlanIsInductive, PTL
=============================================================================
