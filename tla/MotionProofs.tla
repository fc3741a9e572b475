------------------------------ MODULE MotionProofs ------------------------------
(***************************************************************************)
(* A run that checkpoints redirect, for any requests, routes, ground and   *)
(* blend window (DynamicRun); where a runner is put beside the centre      *)
(* line, for any walk, ground and drift (Placement); and the walk between  *)
(* the stops of any request (MotionWalk).  They share no state.            *)
(***************************************************************************)
EXTENDS MotionWalk, Placement, DynamicRun, FiniteSetTheorems, SequenceTheorems, WellFoundedInduction, TLAPS

-----------------------------------------------------------------------------
(* Numbers.                                                                *)

(* A set of numbers has a least one, and what holds of 0 and of n + 1      *)
(* whenever it holds of n holds of all of them.                            *)
LEMMA LeastNatural ==
  ASSUME NEW T \in SUBSET Nat, T # {}
  PROVE  \E n \in T : \A m \in T : n <= m
<1> DEFINE R == OpToRel(<, Nat)
<1>1. IsWellFoundedOn(R, Nat)
  BY NatLessThanWellFounded
<1>2. \A i, j \in Nat : i < j => <<i, j>> \in R
  BY DEF OpToRel
<1> HIDE DEF R
<1>3. PICK n \in T : \A m \in T : ~(<<m, n>> \in R)
  BY <1>1, WFMin
<1>4. n \in Nat /\ \A m \in T : m \in Nat
  OBVIOUS
<1>5. ASSUME NEW m \in T PROVE n <= m
  <2>1. ~(m < n)
    BY <1>2, <1>3, <1>4
  <2> QED
    BY <2>1, <1>4
<1> QED
  BY <1>5

(* Induction, over a set instead of a predicate.                           *)
LEMMA InductionOnNat ==
  ASSUME NEW S, 0 \in S, \A n \in Nat : n \in S => n + 1 \in S
  PROVE  Nat \subseteq S
<1> DEFINE T == Nat \ S
<1>1. SUFFICES ASSUME T # {} PROVE FALSE
  OBVIOUS
<1>2. PICK n \in T : \A m \in T : n <= m
  BY <1>1, LeastNatural
<1>3. n # 0 /\ n - 1 \in Nat
  OBVIOUS
<1>4. n - 1 \in S
  BY <1>2, <1>3
<1> QED
  BY <1>4, <1>3

(* The Max of the library is the greatest member.                          *)
LEMMA MaxOfInterval ==
  ASSUME NEW n \in Nat, NEW T \in SUBSET (1..n + 1), n + 1 \in T
  PROVE  Max(T) = n + 1
<1>1. Max(T) \in T /\ \A k \in T : Max(T) >= k
  <2>1. \A k \in T : n + 1 >= k
    OBVIOUS
  <2> QED
    BY <2>1 DEF Max
<1>2. \A m \in T : m >= n + 1 => m = n + 1
  OBVIOUS
<1> QED
  BY <1>1, <1>2

-----------------------------------------------------------------------------
(* What a redirect keeps of a recording (DynamicRun).                      *)

(* What Kept does with a sample.                                           *)
Before(kept, sample, switch) == IF sample.at < switch THEN Append(kept, sample) ELSE kept

(* The function the fold over a recording is defined by.                   *)
KeepsTo(f, D, s, switch) ==
  f = [S \in SUBSET D |-> IF S = {} THEN <<>> ELSE Before(f[S \ {Max(S)}], s[Max(S)], switch)]

(* It exists, for a recording of any length.                               *)
LEMMA KeepingExists ==
  ASSUME NEW s, NEW switch
  PROVE  \A n \in Nat : \E f : KeepsTo(f, 1..n, s, switch)
<1> DEFINE Has == {n \in Nat : \E f : KeepsTo(f, 1..n, s, switch)}
<1>1. 0 \in Has
  <2> DEFINE f == [S \in SUBSET (1..0) |-> <<>>]
  <2>1. \A S \in SUBSET (1..0) : S = {}
    OBVIOUS
  <2>2. KeepsTo(f, 1..0, s, switch)
    BY <2>1 DEF KeepsTo
  <2> QED
    BY <2>2
<1>2. ASSUME NEW n \in Nat, n \in Has PROVE n + 1 \in Has
  <2>1. PICK f : KeepsTo(f, 1..n, s, switch)
    BY <1>2
  <2> DEFINE g == [S \in SUBSET (1..n + 1) |->
                     IF n + 1 \in S THEN Before(f[S \ {n + 1}], s[n + 1], switch) ELSE f[S]]
  <2>2. ASSUME NEW S \in SUBSET (1..n + 1)
        PROVE  g[S] = IF S = {} THEN <<>> ELSE Before(g[S \ {Max(S)}], s[Max(S)], switch)
    <3>1. CASE n + 1 \in S
      <4>1. Max(S) = n + 1
        BY <3>1, MaxOfInterval
      <4>2. S \ {n + 1} \in SUBSET (1..n + 1) /\ n + 1 \notin S \ {n + 1} /\ S # {}
        BY <3>1
      <4>3. g[S \ {n + 1}] = f[S \ {n + 1}]
        BY <4>2
      <4> HIDE DEF g
      <4>4. g[S] = Before(f[S \ {n + 1}], s[n + 1], switch)
        BY <3>1 DEF g
      <4> QED
        BY <4>1, <4>2, <4>3, <4>4
    <3>2. CASE n + 1 \notin S
      <4>1. S \in SUBSET (1..n)
        BY <3>2
      <4>2. g[S] = f[S]
        BY <3>2
      <4>3. f[S] = IF S = {} THEN <<>> ELSE Before(f[S \ {Max(S)}], s[Max(S)], switch)
        BY <2>1, <4>1 DEF KeepsTo
      <4>4. g[S \ {Max(S)}] = f[S \ {Max(S)}]
        BY <3>2
      <4> HIDE DEF g
      <4> QED
        BY <4>2, <4>3, <4>4
    <3> QED
      BY <3>1, <3>2
  <2>3. KeepsTo(g, 1..n + 1, s, switch)
    <3> DEFINE h == [S \in SUBSET (1..n + 1) |->
                 IF S = {} THEN <<>> ELSE Before(g[S \ {Max(S)}], s[Max(S)], switch)]
    <3>1. \A S \in SUBSET (1..n + 1) : g[S] = h[S]
      BY <2>2
    <3> HIDE DEF h
    <3>2. g = h
      BY <3>1 DEF h
    <3> QED
      BY <3>2 DEF KeepsTo, h
  <2> QED
    BY <2>3
<1> HIDE DEF Has
<1>3. Nat \subseteq Has
  BY <1>1, <1>2, InductionOnNat
<1> QED
  BY <1>3 DEF Has

(* The clock of a recording.                                               *)
Timed(s) ==
  /\ s \in Seq(Range(s)) /\ Len(s) \in Nat /\ DOMAIN s = 1..Len(s)
  /\ \A i \in 1..Len(s) : s[i].at \in Nat
  /\ \A i, j \in 1..Len(s) : i < j => s[i].at < s[j].at

(* r is what of the first n samples of s is before the switch.             *)
PrefixOf(r, s, n, switch) ==
  /\ r \in Seq(Range(s)) /\ Len(r) \in Nat /\ Len(r) <= n
  /\ \A i \in 1..Len(r) : r[i] = s[i] /\ s[i].at < switch
  /\ Len(r) < n => s[Len(r) + 1].at >= switch

(* The samples before a moment are the first ones of a recording.          *)
LEMMA KeptIsPrefix ==
  ASSUME NEW s, Timed(s), NEW switch \in Nat
  PROVE  PrefixOf(Kept(s, switch), s, Len(s), switch)
<1> DEFINE f == CHOOSE g : KeepsTo(g, 1..Len(s), s, switch)
           R == Range(s)
<1>1. DOMAIN s = 1..Len(s) /\ Len(s) \in Nat /\ s \in Seq(R) /\ \A i \in 1..Len(s) : s[i] \in R
  BY DEF Timed, Range
<1>2. Kept(s, switch) = f[1..Len(s)]
  BY <1>1 DEF Kept, FoldLeft, MapThenFoldSet, KeepsTo, Before
<1>3. KeepsTo(f, 1..Len(s), s, switch)
  BY <1>1, KeepingExists
<1> HIDE DEF f, R
<1> DEFINE Has == {n \in Nat : n <= Len(s) => PrefixOf(f[1..n], s, n, switch)}
<1>4. 0 \in Has
  <2>1. 1..0 = {} /\ f[{}] = <<>>
    BY <1>3 DEF KeepsTo
  <2>2. <<>> \in Seq(Range(s)) /\ Len(<<>>) = 0
    OBVIOUS
  <2>3. \A i \in 1..Len(<<>>) : FALSE
    BY <2>2
  <2>4. PrefixOf(<<>>, s, 0, switch)
    BY <2>2, <2>3 DEF PrefixOf
  <2> QED
    BY <2>1, <2>4
<1>5. ASSUME NEW n \in Nat, n \in Has PROVE n + 1 \in Has
  <2> SUFFICES ASSUME n + 1 <= Len(s) PROVE PrefixOf(f[1..n + 1], s, n + 1, switch)
    OBVIOUS
  <2> DEFINE kept == f[1..n]
  <2>1. PrefixOf(kept, s, n, switch)
    BY <1>1, <1>5
  <2>2. f[1..n + 1] = Before(kept, s[n + 1], switch)
    <3>1. 1..n + 1 \in SUBSET (1..Len(s)) /\ n + 1 \in 1..n + 1 /\ 1..n + 1 # {}
      <4>1. \A i \in 1..n + 1 : i \in 1..Len(s)
        BY <1>1
      <4>2. n + 1 \in 1..n + 1
        OBVIOUS
      <4> QED
        BY <4>1, <4>2
    <3>2. Max(1..n + 1) = n + 1
      BY <3>1, MaxOfInterval
    <3>3. (1..n + 1) \ {n + 1} = 1..n
      OBVIOUS
    <3> QED
      BY <1>3, <3>1, <3>2, <3>3 DEF KeepsTo
  <2> HIDE DEF kept
  <2>3. n + 1 \in 1..Len(s) /\ s[n + 1] \in R /\ Len(kept) \in Nat /\ kept \in Seq(R)
    BY <1>1, <2>1 DEF PrefixOf, R
  <2>4. CASE s[n + 1].at < switch
    <3>1. Len(kept) = n
      <4> SUFFICES ASSUME Len(kept) # n PROVE FALSE
        OBVIOUS
      <4>1. /\ Len(kept) + 1 \in 1..Len(s) /\ Len(kept) + 1 <= n
            /\ s[Len(kept) + 1].at >= switch
        BY <1>1, <2>1, <2>3 DEF PrefixOf
      <4>2. s[Len(kept) + 1].at < s[n + 1].at /\ s[n + 1].at \in Nat /\ s[Len(kept) + 1].at \in Nat
        BY <2>3, <4>1 DEF Timed
      <4> QED
        BY <2>4, <4>1, <4>2
    <3>2. /\ Append(kept, s[n + 1]) \in Seq(R) /\ Len(Append(kept, s[n + 1])) = n + 1
          /\ \A i \in 1..n : Append(kept, s[n + 1])[i] = kept[i]
          /\ Append(kept, s[n + 1])[n + 1] = s[n + 1]
      BY <2>3, <3>1, AppendProperties
    <3>3. \A i \in 1..n + 1 : i \in 1..n \/ i = n + 1
      OBVIOUS
    <3>4. PrefixOf(Append(kept, s[n + 1]), s, n + 1, switch)
      BY <2>1, <2>4, <3>1, <3>2, <3>3 DEF PrefixOf, R
    <3> QED
      BY <2>2, <2>4, <3>4 DEF Before
  <2>5. CASE ~(s[n + 1].at < switch)
    <3>1. s[n + 1].at >= switch
      BY <2>3, <2>5 DEF Timed
    <3>2. PrefixOf(kept, s, n + 1, switch)
      BY <2>1, <2>3, <3>1 DEF PrefixOf
    <3> QED
      BY <2>2, <2>5, <3>2 DEF Before
  <2> QED
    BY <2>4, <2>5
<1> HIDE DEF Has
<1>6. Len(s) \in Has
  BY <1>1, <1>4, <1>5, InductionOnNat
<1> QED
  BY <1>1, <1>2, <1>6 DEF Has

(* The clock of a walk.                                                    *)
LEMMA TicksRise ==
  /\ \A n \in Nat : Tick * n \in Nat
  /\ \A m, n \in Nat : m < n => Tick * m < Tick * n
<1>1. Tick \in Nat /\ Tick > 0
  BY ClockAssumption
<1>2. \A n \in Nat : Tick * n \in Nat
  BY <1>1
<1>3. ASSUME NEW m \in Nat, NEW n \in Nat, m < n PROVE Tick * m < Tick * n
  <2>1. n - m \in Nat /\ n - m >= 1
    BY <1>3
  <2>2. Tick * (n - m) >= Tick
    BY <1>1, <2>1
  <2>3. Tick * n = Tick * m + Tick * (n - m)
    BY <1>1
  <2> QED
    BY <1>1, <1>2, <2>2, <2>3
<1> QED
  BY <1>2, <1>3

(* A function on an interval is a sequence of its values.                  *)
LEMMA IntervalIsSequence ==
  ASSUME NEW n \in Nat, NEW w, DOMAIN w = 1..n, w = [i \in 1..n |-> w[i]]
  PROVE  w \in Seq(Range(w)) /\ Len(w) = n
<1>1. \A i \in 1..n : w[i] \in Range(w)
  BY DEF Range
<1>2. w \in [1..n -> Range(w)]
  BY <1>1
<1> QED
  BY <1>2

(* n samples, one a tick, that end at a point.                             *)
IsWalk(w, n, leg, end) ==
  /\ w \in Seq(Range(w)) /\ Len(w) = n /\ DOMAIN w = 1..n
  /\ \A i \in 1..n : w[i].at = Tick * (i - 1) /\ w[i].leg = leg
  /\ w[n].pos = end

(* A walk stands, follows its route and stands, one point a sample.        *)
LEMMA WalkShape ==
  ASSUME NEW route, NEW a, NEW b, Joins(route, a, b), NEW before \in Nat, NEW after \in Nat, NEW leg
  PROVE  /\ Len(route) \in Nat /\ Len(route) > 0
         /\ IsWalk(Walk(route, before, after, leg), before + Len(route) + after, leg, b)
<1> DEFINE V == Range(route)
           stand == [i \in 1..before |-> route[1]]
           end == [i \in 1..after |-> Last(route)]
           points == stand \o route \o end
           n == before + Len(route) + after
           w == Walk(route, before, after, leg)
<1>1. route \in Seq(V) /\ Len(route) \in Nat /\ Len(route) > 0 /\ Last(route) = b
  BY EmptySeq DEF Joins
<1>2. route[1] \in V /\ b \in V /\ route[Len(route)] = b
  BY <1>1 DEF Last, Range
<1>3. /\ stand \in Seq(V) /\ Len(stand) = before
      /\ end \in Seq(V) /\ Len(end) = after /\ \A i \in 1..after : end[i] = b
  BY <1>1, <1>2
<1> HIDE DEF V, stand, end
<1> DEFINE front == stand \o route
<1>4. /\ front \in Seq(V) /\ Len(front) = before + Len(route)
      /\ \A i \in 1..before + Len(route) :
           front[i] = IF i <= before THEN stand[i] ELSE route[i - before]
  BY <1>1, <1>3, ConcatProperties
<1>0. points = front \o end
  OBVIOUS
<1> HIDE DEF front, points
<1>5. /\ points \in Seq(V) /\ Len(points) = n
      /\ \A i \in 1..n : points[i] = IF i <= before + Len(route) THEN front[i]
                                     ELSE end[i - (before + Len(route))]
  <2>1. /\ front \o end \in Seq(V) /\ Len(front \o end) = Len(front) + Len(end)
        /\ \A i \in 1..Len(front) + Len(end) :
             (front \o end)[i] = IF i <= Len(front) THEN front[i] ELSE end[i - Len(front)]
    BY ZenonT(60), <1>3, <1>4, ConcatProperties
  <2>2. Len(front) + Len(end) = n
    BY <1>1, <1>3, <1>4
  <2> QED
    BY <1>0, <1>4, <2>1, <2>2
<1>6. n \in Nat /\ n > 0 /\ n \in 1..n /\ DOMAIN points = 1..n
  BY <1>1, <1>5
<1>7. points[n] = b
  <2>1. CASE after = 0
    <3>1. n = before + Len(route) /\ n > before /\ n - before = Len(route)
      BY <1>1, <2>1
    <3>2. points[n] = front[n] /\ n \in 1..before + Len(route)
      BY <1>5, <1>6, <3>1
    <3>3. front[n] = route[Len(route)]
      BY <1>4, <3>1, <3>2
    <3> QED
      BY <1>2, <3>2, <3>3
  <2>2. CASE after # 0
    <3>1. n > before + Len(route) /\ n - (before + Len(route)) = after /\ after \in 1..after
      BY <1>1, <2>2
    <3> QED
      BY <1>3, <1>5, <1>6, <3>1
  <2> QED
    BY <2>1, <2>2
<1>8. w = [i \in 1..n |-> [at |-> Tick * (i - 1), pos |-> points[i], leg |-> leg]]
  BY <1>6 DEF Walk, points, stand, end
<1> HIDE DEF w
<1>9. DOMAIN w = 1..n /\ w = [i \in 1..n |-> w[i]]
  BY <1>8
<1>10. w \in Seq(Range(w)) /\ Len(w) = n
  BY <1>6, <1>9, IntervalIsSequence
<1>11. \A i \in 1..n : w[i].at = Tick * (i - 1) /\ w[i].leg = leg /\ w[i].pos = points[i]
  BY <1>8
<1>12. IsWalk(w, n, leg, b)
  BY <1>6, <1>7, <1>9, <1>10, <1>11 DEF IsWalk
<1> QED
  BY <1>1, <1>12 DEF w

(* What a fold leaves: the old recording up to the switch, then the new    *)
(* walk by its own clock, which ends where it was sent if it outlasts the  *)
(* window.                                                                 *)
Folded(r, old, switch, leg, goal) ==
  \E k \in 0..Len(old), n \in Nat \ {0} :
    /\ r \in Seq(Range(r)) /\ Len(r) = k + n /\ DOMAIN r = 1..k + n
    /\ \A i \in 1..k : r[i] = old[i] /\ old[i].at < switch
    /\ \A i \in k + 1..Len(old) : old[i].at >= switch
    /\ \A i \in k + 1..k + n : r[i].at = switch + Tick * (i - k - 1) /\ r[i].leg = leg
    /\ r[k + n].at >= switch + Window => r[k + n].pos = goal

(* A new walk folded into a recording.                                     *)
LEMMA BlendShape ==
  ASSUME NEW old, Timed(old), NEW switch \in Nat, NEW leg,
         NEW route, NEW a, NEW b, Joins(route, a, b)
  PROVE  Folded(Blended(old, Walk(route, 0, 0, leg), switch), old, switch, leg, b)
<1> DEFINE new == Walk(route, 0, 0, leg)
           kept == Kept(old, switch)
           k == Len(kept)
           n == Len(route)
           Elapsed(i) == new[i].at - new[1].at
           Was(i) == old[SampleAt(old, switch + Elapsed(i))]
           Alpha(i) == IF Weight(Elapsed(i)) = Unit THEN Unit
                       ELSE (Weight(Elapsed(i)) * PassableWeight(Was(i).pos, new[i].pos)) \div Unit
           mixed == [i \in DOMAIN new |->
                      [at |-> switch + Elapsed(i),
                       pos |-> IF Alpha(i) = Unit THEN new[i].pos
                               ELSE Mix(Was(i).pos, new[i].pos, Alpha(i)),
                       leg |-> new[i].leg]]
           r == kept \o mixed
<1>1. Blended(old, new, switch) = r
  BY DEF Blended
<1> HIDE DEF Elapsed, Was, Alpha
<1>2. /\ n \in Nat /\ n > 0 /\ DOMAIN new = 1..n
      /\ \A i \in 1..n : new[i].at = Tick * (i - 1) /\ new[i].leg = leg
      /\ new[n].pos = b
  <2>1. n \in Nat /\ n > 0 /\ 0 \in Nat /\ IsWalk(new, 0 + n + 0, leg, b)
    BY WalkShape
  <2>2. 0 + n + 0 = n
    BY <2>1
  <2> HIDE DEF new
  <2>3. IsWalk(new, n, leg, b)
    BY <2>1, <2>2
  <2> QED
    BY <2>1, <2>3 DEF IsWalk
<1> HIDE DEF new
<1>3. \A i \in 1..n : Elapsed(i) = Tick * (i - 1) /\ Elapsed(i) \in Nat
  <2>1. Tick * (1 - 1) = 0 /\ 1 \in 1..n
    BY <1>2, ClockAssumption
  <2>2. new[1].at = 0
    BY <1>2, <2>1
  <2>3. ASSUME NEW i \in 1..n PROVE Tick * (i - 1) \in Nat
    <3>1. i - 1 \in Nat
      OBVIOUS
    <3> QED
      BY <3>1, TicksRise
  <2> QED
    BY <1>2, <2>2, <2>3 DEF Elapsed
<1>15. \A i \in 1..n : /\ mixed[i].at = switch + Elapsed(i) /\ mixed[i].leg = new[i].leg
                       /\ Alpha(i) = Unit => mixed[i].pos = new[i].pos
  BY <1>2
<1>16. DOMAIN mixed = 1..n /\ mixed = [i \in 1..n |-> mixed[i]]
  BY <1>2
<1> HIDE DEF mixed
<1>4. PrefixOf(kept, old, Len(old), switch)
  BY KeptIsPrefix
<1> HIDE DEF kept
<1>5. /\ k \in 0..Len(old) /\ kept \in Seq(Range(old))
      /\ \A i \in 1..k : kept[i] = old[i] /\ old[i].at < switch
      /\ \A i \in k + 1..Len(old) : old[i].at >= switch
  <2>1. k \in 0..Len(old)
    BY <1>4 DEF PrefixOf, Timed
  <2>2. ASSUME NEW i \in k + 1..Len(old) PROVE old[i].at >= switch
    <3>1. /\ k + 1 \in 1..Len(old) /\ i \in 1..Len(old) /\ (i = k + 1 \/ k + 1 < i) /\ k < Len(old)
      BY <2>1, <2>2 DEF Timed
    <3>2. old[k + 1].at >= switch /\ old[k + 1].at \in Nat /\ old[i].at \in Nat
      BY <1>4, <3>1 DEF PrefixOf, Timed
    <3>3. i = k + 1 \/ old[k + 1].at < old[i].at
      BY <3>1 DEF Timed
    <3> QED
      BY <3>2, <3>3
  <2> QED
    BY <1>4, <2>1, <2>2 DEF PrefixOf
<1>6. /\ DOMAIN mixed = 1..n
      /\ \A i \in 1..n : mixed[i].at = switch + Tick * (i - 1) /\ mixed[i].leg = leg
  BY <1>2, <1>3, <1>15, <1>16
<1>7. mixed[n].at >= switch + Window => mixed[n].pos = b
  <2> SUFFICES ASSUME mixed[n].at >= switch + Window PROVE mixed[n].pos = b
    OBVIOUS
  <2>1. n \in 1..n
    BY <1>2
  <2>2. Elapsed(n) >= Window
    <3>1. mixed[n].at = switch + Elapsed(n) /\ Elapsed(n) \in Nat /\ Window \in Nat
      BY <1>3, <1>15, <2>1, ClockAssumption
    <3> HIDE DEF n
    <3> QED
      BY <3>1
  <2>3. Weight(Elapsed(n)) = Unit
    BY <2>2 DEF Weight
  <2>4. Alpha(n) = Unit
    BY <2>3 DEF Alpha
  <2> QED
    BY <1>2, <1>15, <2>1, <2>4
<1>8. mixed \in Seq(Range(mixed)) /\ Len(mixed) = n
  BY <1>2, <1>16, IntervalIsSequence
<1> DEFINE U == Range(old) \cup Range(mixed)
<1>9. kept \in Seq(U) /\ mixed \in Seq(U)
  BY <1>5, <1>8
<1>10. /\ r \in Seq(U) /\ Len(r) = k + n
       /\ \A i \in 1..k + n : r[i] = IF i <= k THEN kept[i] ELSE mixed[i - k]
  <2> HIDE DEF U
  <2>1. /\ r \in Seq(U) /\ Len(r) = Len(kept) + Len(mixed)
        /\ \A i \in 1..Len(kept) + Len(mixed) :
             r[i] = IF i <= Len(kept) THEN kept[i] ELSE mixed[i - Len(kept)]
    BY <1>9, ConcatProperties
  <2> QED
    BY <1>8, <2>1
<1> HIDE DEF r, U
<1>11. r \in Seq(Range(r)) /\ DOMAIN r = 1..k + n
  <2>1. k + n \in Nat /\ DOMAIN r = 1..k + n /\ r = [i \in 1..k + n |-> r[i]]
    BY <1>2, <1>5, <1>10
  <2> QED
    BY <2>1, IntervalIsSequence
<1>12. \A i \in 1..k : r[i] = old[i] /\ old[i].at < switch
  BY <1>2, <1>5, <1>10
<1>13. ASSUME NEW i \in k + 1..k + n
       PROVE  r[i].at = switch + Tick * (i - k - 1) /\ r[i].leg = leg
  <2>1. i - k \in 1..n /\ i \in 1..k + n /\ ~(i <= k)
    BY <1>2, <1>5
  <2> QED
    BY <1>6, <1>10, <2>1
<1>14. r[k + n] = mixed[n]
  BY <1>2, <1>5, <1>10
<1>17. r[k + n].at >= switch + Window => r[k + n].pos = b
  BY <1>7, <1>14
<1>18. k \in 0..Len(old) /\ n \in Nat \ {0} /\ Len(r) = k + n
  BY <1>2, <1>5, <1>10
<1>19. \A i \in k + 1..Len(old) : old[i].at >= switch
  BY <1>5
<1> HIDE DEF k, n
<1>20. Folded(r, old, switch, leg, b)
  BY <1>11, <1>12, <1>13, <1>17, <1>18, <1>19 DEF Folded
<1> QED
  BY <1>1, <1>20 DEF new

(* The clock of what a fold leaves.                                        *)
LEMMA FoldedIsTimed ==
  ASSUME NEW r, NEW old, NEW switch \in Nat, NEW leg, NEW goal, Timed(old),
         Folded(r, old, switch, leg, goal)
  PROVE  Timed(r) /\ r # <<>>
<1>1. PICK k \in 0..Len(old), n \in Nat \ {0} :
        /\ r \in Seq(Range(r)) /\ Len(r) = k + n /\ DOMAIN r = 1..k + n
        /\ \A i \in 1..k : r[i] = old[i] /\ old[i].at < switch
        /\ \A i \in k + 1..k + n : r[i].at = switch + Tick * (i - k - 1)
  BY DEF Folded
<1>2. k \in Nat /\ Len(old) \in Nat /\ k + n \in Nat /\ \A i \in 1..k : i \in 1..Len(old)
  BY DEF Timed
<1>3. \A i \in 1..k + n : i \in 1..k \/ (i \in k + 1..k + n /\ i - k - 1 \in Nat)
  BY <1>2
<1>4. \A i \in k + 1..k + n : r[i].at \in Nat /\ r[i].at >= switch
  <2> SUFFICES ASSUME NEW i \in k + 1..k + n PROVE r[i].at \in Nat /\ r[i].at >= switch
    OBVIOUS
  <2>1. i - k - 1 \in Nat
    BY <1>2
  <2>2. Tick * (i - k - 1) \in Nat
    BY <2>1, TicksRise
  <2> QED
    BY <1>1, <2>2
<1>5. \A i \in 1..k : r[i].at \in Nat /\ r[i].at < switch
  BY <1>1, <1>2 DEF Timed
<1>6. \A i \in 1..k + n : r[i].at \in Nat
  BY <1>3, <1>4, <1>5
<1>7. ASSUME NEW i \in 1..k + n, NEW j \in 1..k + n, i < j PROVE r[i].at < r[j].at
  <2>1. CASE j \in 1..k
    <3>1. i \in 1..k
      BY <1>2, <1>7, <2>1
    <3> QED
      BY <1>1, <1>2, <1>7, <2>1, <3>1 DEF Timed
  <2>2. CASE i \in 1..k /\ j \in k + 1..k + n
    BY <1>4, <1>5, <1>6, <2>2
  <2>3. CASE i \in k + 1..k + n
    <3>1. j \in k + 1..k + n
      BY <1>2, <1>7, <2>3
    <3> DEFINE p == i - k - 1
               q == j - k - 1
    <3>2. p \in Nat /\ q \in Nat /\ p < q
      BY <1>2, <1>7, <2>3, <3>1
    <3>3. r[i].at = switch + Tick * p /\ r[j].at = switch + Tick * q
      BY <1>1, <2>3, <3>1
    <3> HIDE DEF p, q
    <3>4. Tick * p \in Nat /\ Tick * q \in Nat /\ Tick * p < Tick * q
      BY <3>2, TicksRise
    <3> QED
      BY <3>3, <3>4
  <2> QED
    BY <1>3, <2>1, <2>2, <2>3
<1>8. Timed(r)
  BY <1>1, <1>2, <1>6, <1>7 DEF Timed
<1>9. r # <<>>
  <2>1. Len(<<>>) = 0
    OBVIOUS
  <2> QED
    BY <1>1, <1>2, <2>1
<1> QED
  BY <1>8, <1>9

-----------------------------------------------------------------------------
(* The run.                                                                *)

(* The recording ends where the last accepted checkpoint sent it, if the   *)
(* walk there has outlasted the window.                                    *)
Arrives ==
  redirects = <<>> \/ Last(recording).at >= Last(redirects).issued + Window
    => Last(recording).pos \in Snapped(FinalGoal)

RunInv ==
  /\ request \in Request
  /\ taken \in 0..Len(request.checkpoints)
  /\ redirects \in Seq(Range(request.checkpoints))
  /\ Timed(recording)
  /\ \A i \in 1..Len(recording) : recording[i].leg \in 0..Len(redirects)
  /\ LatestRedirectRules
  /\ phase = "planning" => redirects = <<>>
  /\ phase \in {"folding", "done"} => recording # <<>> /\ Arrives

(* The checkpoint that is due.                                             *)
LEMMA CheckpointIsAsked ==
  ASSUME RunInv, More
  PROVE  /\ Checkpoint \in Range(request.checkpoints) /\ Checkpoint.issued \in Nat
         /\ taken + 1 \in 0..Len(request.checkpoints)
<1>1. /\ request \in Request /\ taken \in 0..Len(request.checkpoints)
      /\ taken < Len(request.checkpoints)
  BY DEF RunInv, More
<1>2. /\ request.checkpoints \in Seq(Range(request.checkpoints))
      /\ \A checkpoint \in Range(request.checkpoints) : checkpoint.issued \in Nat
  BY <1>1, RequestAssumption
<1>3. taken + 1 \in 1..Len(request.checkpoints)
  BY <1>1, <1>2
<1>4. Checkpoint \in Range(request.checkpoints)
  BY <1>2, <1>3 DEF Checkpoint
<1> QED
  BY <1>2, <1>3, <1>4

(* A redirect folds a walk to the checkpoint into the recording.           *)
LEMMA RedirectFolds ==
  ASSUME RunInv, Redirect
  PROVE  \E goal \in Snapped(Checkpoint.goal) :
           Folded(recording', recording, Checkpoint.issued, Len(redirects) + 1, goal)
<1>1. PICK route \in Plans(Here.pos, Checkpoint.goal) :
        recording' = Blended(recording, Walk(route, 0, 0, Len(redirects) + 1), Checkpoint.issued)
  BY DEF Redirect
<1>2. PICK a \in Snapped(Here.pos), b \in Snapped(Checkpoint.goal) : Joins(route, a, b)
  BY <1>1 DEF Plans
<1>3. Timed(recording) /\ Checkpoint.issued \in Nat
  BY CheckpointIsAsked DEF RunInv, Redirect
<1>4. PICK old : old = recording
  OBVIOUS
<1>5. PICK switch \in Nat : switch = Checkpoint.issued
  BY <1>3
<1>6. PICK leg : leg = Len(redirects) + 1
  OBVIOUS
<1>7. Folded(Blended(old, Walk(route, 0, 0, leg), switch), old, switch, leg, b)
  BY <1>2, <1>3, <1>4, BlendShape
<1> QED
  BY <1>1, <1>4, <1>5, <1>6, <1>7

(* The first walk.                                                         *)
LEMMA FirstWalk ==
  ASSUME RunInv, PlanFirst
  PROVE  \E n \in Nat \ {0}, goal \in Snapped(request.goal) : IsWalk(recording', n, 0, goal)
<1>1. PICK route \in Plans(request.start, request.goal) :
        recording' = Walk(route, StandStart, StandEnd, 0)
  BY DEF PlanFirst
<1>2. PICK a \in Snapped(request.start), b \in Snapped(request.goal) : Joins(route, a, b)
  BY <1>1 DEF Plans
<1>3. StandStart \in Nat /\ StandEnd \in Nat
  BY ClockAssumption
<1>4. /\ Len(route) \in Nat /\ Len(route) > 0
      /\ IsWalk(recording', StandStart + Len(route) + StandEnd, 0, b)
  BY <1>1, <1>2, <1>3, WalkShape
<1>5. StandStart + Len(route) + StandEnd \in Nat \ {0}
  BY <1>3, <1>4
<1> QED
  BY <1>4, <1>5

(* A walk has a clock.                                                     *)
LEMMA WalkIsTimed ==
  ASSUME NEW w, NEW n \in Nat \ {0}, NEW leg, NEW goal, IsWalk(w, n, leg, goal)
  PROVE  Timed(w) /\ w # <<>> /\ Last(w).pos = goal
<1>1. \A i \in 1..n : w[i].at = Tick * (i - 1) /\ w[i].at \in Nat
  <2> SUFFICES ASSUME NEW i \in 1..n PROVE w[i].at = Tick * (i - 1) /\ w[i].at \in Nat
    OBVIOUS
  <2>1. i - 1 \in Nat
    OBVIOUS
  <2> QED
    BY <2>1, TicksRise DEF IsWalk
<1>2. ASSUME NEW i \in 1..n, NEW j \in 1..n, i < j PROVE w[i].at < w[j].at
  <2>1. i - 1 \in Nat /\ j - 1 \in Nat /\ i - 1 < j - 1
    BY <1>2
  <2> QED
    BY <1>1, <2>1, TicksRise
<1>3. Timed(w)
  BY <1>1, <1>2 DEF Timed, IsWalk
<1>4. Len(<<>>) = 0 /\ Last(w) = w[n]
  BY DEF IsWalk, Last
<1> QED
  BY <1>3, <1>4 DEF IsWalk

(* Appending the redirect that was accepted.                               *)
LEMMA RedirectsGrow ==
  ASSUME RunInv, Redirect
  PROVE  LET n == Len(redirects)
         IN  /\ n \in Nat
             /\ redirects' \in Seq(Range(request.checkpoints)) /\ Len(redirects') = n + 1
             /\ \A i \in 1..n : redirects'[i] = redirects[i]
             /\ redirects'[n + 1] = Checkpoint
             /\ Last(redirects') = Checkpoint /\ redirects' # <<>>
<1>1. /\ Checkpoint \in Range(request.checkpoints)
      /\ redirects' = Append(redirects, Checkpoint)
      /\ redirects \in Seq(Range(request.checkpoints))
  BY CheckpointIsAsked DEF Redirect, RunInv
<1> DEFINE n == Len(redirects)
<1>2. /\ n \in Nat /\ redirects' \in Seq(Range(request.checkpoints)) /\ Len(redirects') = n + 1
      /\ \A i \in 1..n : redirects'[i] = redirects[i]
      /\ redirects'[n + 1] = Checkpoint
  BY <1>1, AppendProperties
<1>3. Len(<<>>) = 0
  OBVIOUS
<1> QED
  BY <1>2, <1>3 DEF Last

(* What a redirect leaves obeys the redirects so far, that one first.      *)
LEMMA RedirectRun == ASSUME RunInv, Redirect PROVE RunInv'
<1> DEFINE n == Len(redirects)
           switch == Checkpoint.issued
<1>1. /\ n \in Nat /\ redirects' \in Seq(Range(request.checkpoints)) /\ Len(redirects') = n + 1
      /\ \A i \in 1..n : redirects'[i] = redirects[i]
      /\ redirects'[n + 1] = Checkpoint
      /\ Last(redirects') = Checkpoint /\ redirects' # <<>>
  BY RedirectsGrow
<1>2. PICK goal \in Snapped(Checkpoint.goal) :
        Folded(recording', recording, switch, n + 1, goal)
  BY RedirectFolds
<1>3. switch \in Nat /\ taken + 1 \in 0..Len(request.checkpoints)
  BY CheckpointIsAsked DEF Redirect
<1>4. Timed(recording)' /\ recording' # <<>>
  <2>1. PICK r : r = recording'
    OBVIOUS
  <2>2. PICK old : old = recording
    OBVIOUS
  <2>3. PICK s \in Nat : s = switch
    BY <1>3
  <2>4. Timed(r) /\ r # <<>>
    BY <1>2, <2>1, <2>2, <2>3, FoldedIsTimed DEF RunInv
  <2> QED
    BY <2>1, <2>4 DEF Timed, Range
<1>5. PICK k \in 0..Len(recording), m \in Nat \ {0} :
        /\ Len(recording') = k + m /\ DOMAIN recording' = 1..k + m
        /\ \A i \in 1..k : recording'[i] = recording[i] /\ recording[i].at < switch
        /\ \A i \in k + 1..k + m : /\ recording'[i].at = switch + Tick * (i - k - 1)
                                   /\ recording'[i].leg = n + 1
        /\ recording'[k + m].at >= switch + Window => recording'[k + m].pos = goal
  BY <1>2 DEF Folded
<1>6. /\ k \in Nat /\ k + m \in Nat /\ \A i \in 1..k : i \in 1..Len(recording)
      /\ DOMAIN recording = 1..Len(recording)
      /\ \A i \in 1..k + m : i \in 1..k \/ i \in k + 1..k + m
  BY DEF RunInv, Timed
<1>7. \A i \in k + 1..k + m : recording'[i].at >= switch /\ recording'[i].leg = n + 1
  <2> SUFFICES ASSUME NEW i \in k + 1..k + m
               PROVE  recording'[i].at >= switch /\ recording'[i].leg = n + 1
    OBVIOUS
  <2>1. i - k - 1 \in Nat
    BY <1>6
  <2>2. Tick * (i - k - 1) \in Nat
    BY <2>1, TicksRise
  <2> QED
    BY <1>3, <1>5, <2>2
<1>8. \A i \in 1..k : /\ recording'[i] = recording[i] /\ recording[i].at < switch
                      /\ recording[i].leg \in 0..n
  BY <1>5, <1>6 DEF RunInv
<1>9. \A i \in 1..k + m : recording'[i].leg \in 0..n + 1
  BY <1>1, <1>6, <1>7, <1>8
<1>10. LatestRedirectRules'
  <2> SUFFICES ASSUME NEW i \in 1..k + m
               PROVE  LET leg == recording'[i].leg
                      IN  /\ leg > 0 => redirects'[leg].issued <= recording'[i].at
                          /\ \A later \in leg + 1..n + 1 :
                               recording'[i].at < redirects'[later].issued
    BY <1>1, <1>5 DEF LatestRedirectRules
  <2>1. CASE i \in 1..k
    <3> DEFINE leg == recording[i].leg
    <3>1. recording'[i] = recording[i] /\ recording[i].at < switch /\ leg \in 0..n
      BY <1>8, <2>1
    <3>2. /\ leg > 0 => redirects[leg].issued <= recording[i].at
          /\ \A later \in leg + 1..n : recording[i].at < redirects[later].issued
      BY <1>6, <2>1 DEF RunInv, LatestRedirectRules
    <3> HIDE DEF leg
    <3>3. leg > 0 => leg \in 1..n
      BY <1>1, <3>1
    <3>4. \A later \in leg + 1..n + 1 : (later \in leg + 1..n /\ later \in 1..n) \/ later = n + 1
      BY <1>1, <3>1
    <3> QED
      BY <1>1, <3>1, <3>2, <3>3, <3>4 DEF leg
  <2>2. CASE i \in k + 1..k + m
    <3>1. recording'[i].at >= switch /\ recording'[i].leg = n + 1 /\ recording'[i].at \in Nat
      BY <1>4, <1>5, <1>7, <2>2 DEF Timed
    <3>2. (n + 1) + 1..n + 1 = {}
      BY <1>1
    <3> QED
      BY <1>1, <1>3, <3>1, <3>2
  <2> QED
    BY <1>6, <2>1, <2>2
<1>11. Arrives'
  <2>1. Last(recording') = recording'[k + m]
    BY <1>5 DEF Last
  <2>2. FinalGoal' = Checkpoint.goal
    BY <1>1 DEF FinalGoal
  <2>3. goal \in Snapped(FinalGoal)'
    BY <1>2, <2>2 DEF Snapped
  <2> QED
    BY <1>1, <1>5, <2>1, <2>3 DEF Arrives
<1>12. phase' = "folding" /\ UNCHANGED request /\ taken' = taken + 1
  BY DEF Redirect, More
<1> QED
  BY <1>1, <1>3, <1>4, <1>5, <1>9, <1>10, <1>11, <1>12 DEF RunInv

(* The first walk is of no redirect, and arrives.                          *)
LEMMA FirstRun == ASSUME RunInv, PlanFirst PROVE RunInv'
<1>1. phase = "planning" /\ phase' = "folding" /\ UNCHANGED <<request, taken, redirects>>
  BY DEF PlanFirst
<1>2. redirects = <<>> /\ Len(redirects) = 0
  BY <1>1 DEF RunInv
<1>3. PICK n \in Nat \ {0}, goal \in Snapped(request.goal) : IsWalk(recording', n, 0, goal)
  BY FirstWalk
<1>4. Timed(recording)' /\ recording' # <<>> /\ Last(recording').pos = goal
  <2>1. PICK w : w = recording'
    OBVIOUS
  <2>2. Timed(w) /\ w # <<>> /\ Last(w).pos = goal
    BY <1>3, <2>1, WalkIsTimed
  <2> QED
    BY <2>1, <2>2 DEF Timed, Range
<1>5. \A i \in 1..Len(recording') : recording'[i].leg = 0
  BY <1>3 DEF IsWalk
<1>6. LatestRedirectRules'
  BY <1>1, <1>2, <1>4, <1>5 DEF LatestRedirectRules, Timed
<1>7. Arrives'
  <2>1. FinalGoal' = request.goal
    BY <1>1, <1>2 DEF FinalGoal
  <2>2. goal \in Snapped(FinalGoal)'
    BY <1>3, <2>1 DEF Snapped
  <2> QED
    BY <1>4, <2>2 DEF Arrives
<1> QED
  BY <1>1, <1>2, <1>4, <1>5, <1>6, <1>7 DEF RunInv

(* The steps that leave the recording alone.                               *)
LEMMA OtherRun ==
  ASSUME RunInv, Ignore \/ Fail \/ Finish \/ UNCHANGED vars
  PROVE  RunInv'
<1>1. UNCHANGED <<request, recording, redirects>>
  BY DEF Ignore, Fail, Finish, vars
<1>2. taken' \in 0..Len(request.checkpoints)
  BY CheckpointIsAsked DEF Ignore, Fail, Finish, vars, RunInv
<1>3. /\ phase' = "planning" => phase = "planning"
      /\ phase' \in {"folding", "done"} => phase \in {"folding", "done"} \/ UNCHANGED phase
  BY DEF Ignore, Fail, Finish, More, vars
<1>4. Timed(recording)'
  BY <1>1 DEF RunInv, Timed, Range
<1>5. LatestRedirectRules'
  BY <1>1 DEF RunInv, LatestRedirectRules
<1>6. Arrives => Arrives'
  BY <1>1 DEF Arrives, FinalGoal, Snapped, Last
<1> QED
  BY <1>1, <1>2, <1>3, <1>4, <1>5, <1>6 DEF RunInv

(* The invariant of a run, for any requests, routes, ground and window.    *)
THEOREM RunIsOneMotion == Spec => []RunInv
<1>1. Init => RunInv
  <2> SUFFICES ASSUME Init PROVE RunInv
    OBVIOUS
  <2>1. Len(<<>>) = 0 /\ 1..0 = {} /\ DOMAIN <<>> = {}
    OBVIOUS
  <2>2. request.checkpoints \in Seq(Range(request.checkpoints))
    BY RequestAssumption DEF Init
  <2>3. Timed(<<>>)
    BY <2>1 DEF Timed
  <2> QED
    BY <2>1, <2>2, <2>3 DEF Init, RunInv, LatestRedirectRules
<1>2. RunInv /\ [Next]_vars => RunInv'
  BY RedirectRun, FirstRun, OtherRun DEF Next
<1> QED
  BY <1>1, <1>2, PTL DEF Spec

(* A redirect is obeyed from the moment it was issued, the last one first, *)
(* on a clock that only runs forward, and the run ends where it was sent   *)
(* last (run_dynamic_observed, blend_trajectories).                        *)
THEOREM RedirectsAreObeyed == Spec => [](LatestRedirectRules /\ ClockRuns /\ EndsWhereSent)
<1>1. RunInv => LatestRedirectRules /\ ClockRuns
  BY DEF RunInv, ClockRuns, Timed
<1>2. RunInv => EndsWhereSent
  <2> SUFFICES ASSUME RunInv, phase = "done",
                      redirects = <<>> \/ Duration(recording) >= Last(redirects).issued + Window
               PROVE  Last(recording).pos \in Snapped(FinalGoal)
    BY DEF EndsWhereSent
  <2>1. recording # <<>> /\ Arrives
    BY DEF RunInv
  <2>2. Duration(recording) = Last(recording).at
    BY <2>1 DEF Duration
  <2> QED
    BY <2>1, <2>2 DEF Arrives
<1> QED
  BY <1>1, <1>2, RunIsOneMotion, PTL

(* What was recorded before a redirect is never rewritten by it            *)
(* (blend_trajectories keeps the samples before the switch).               *)
THEOREM ThePastIsKept == Spec => PastIsKept
<1>1. RunInv /\ [Next]_vars =>
        [Len(redirects') > Len(redirects) =>
           \A i \in DOMAIN recording :
             recording[i].at < Last(redirects').issued =>
               i \in DOMAIN recording' /\ recording'[i] = recording[i]]_vars
  <2> SUFFICES ASSUME RunInv, Next, Len(redirects') > Len(redirects),
                      NEW i \in DOMAIN recording, recording[i].at < Last(redirects').issued
               PROVE  i \in DOMAIN recording' /\ recording'[i] = recording[i]
    OBVIOUS
  <2>1. Redirect
    <3>1. Len(redirects) \in Nat
      BY DEF RunInv
    <3>2. UNCHANGED redirects => ~(Len(redirects') > Len(redirects))
      BY <3>1
    <3> QED
      BY <3>2 DEF Next, PlanFirst, Ignore, Fail, Finish
  <2> DEFINE switch == Checkpoint.issued
  <2>2. Last(redirects').issued = switch /\ switch \in Nat
    BY <2>1, RedirectsGrow, CheckpointIsAsked DEF Redirect
  <2>3. PICK goal : Folded(recording', recording, switch, Len(redirects) + 1, goal)
    BY <2>1, RedirectFolds
  <2>4. PICK k \in 0..Len(recording), m \in Nat \ {0} :
        /\ DOMAIN recording' = 1..k + m
        /\ \A j \in 1..k : recording'[j] = recording[j]
        /\ \A j \in k + 1..Len(recording) : recording[j].at >= switch
    BY <2>3 DEF Folded
  <2>5. i \in 1..Len(recording) /\ recording[i].at \in Nat /\ Len(recording) \in Nat
    BY DEF RunInv, Timed
  <2>6. i \in 1..k
    BY <2>2, <2>4, <2>5
  <2> QED
    BY <2>4, <2>6
<1> QED
  BY <1>1, RunIsOneMotion, PTL DEF Spec, PastIsKept

-----------------------------------------------------------------------------
(* How far out a side may be used (Placement).                             *)

Parts == (0..Wide) \X (0..Wide)

(* One halving, after which f goes on.                                     *)
Halving(f, legal, side, part) ==
  IF part[2] - part[1] <= 1 THEN IF side * part[2] \in legal THEN part[2] ELSE part[1]
  ELSE IF side * ((part[1] + part[2]) \div 2) \in legal
       THEN f[<<(part[1] + part[2]) \div 2, part[2]>>]
       ELSE f[<<part[1], (part[1] + part[2]) \div 2>>]

(* The function the search is defined by.                                  *)
Halves(f, legal, side) == f = [part \in Parts |-> Halving(f, legal, side, part)]

(* The middle is strictly inside.                                          *)
LEMMA MiddleIsInside ==
  ASSUME NEW low \in Nat, NEW high \in Nat, high - low > 1
  PROVE  /\ (low + high) \div 2 \in Nat
         /\ low < (low + high) \div 2 /\ (low + high) \div 2 < high
OBVIOUS

(* The search has a function, however wide the strips are.                 *)
LEMMA HalvingExists ==
  ASSUME NEW legal, NEW side
  PROVE  \E f : Halves(f, legal, side)
<1> DEFINE Upto(f, n) == \A part \in Parts :
                           part[2] - part[1] <= n => f[part] = Halving(f, legal, side, part)
           Has == {n \in Nat : \E f : Upto(f, n)}
<1>0. Wide \in Nat
  BY PlacementAssumption
<1>1. 0 \in Has
  <2> DEFINE g == [part \in Parts |-> IF side * part[2] \in legal THEN part[2] ELSE part[1]]
  <2>1. Upto(g, 0)
    BY <1>0 DEF Halving, Parts
  <2> QED
    BY <2>1
<1>2. ASSUME NEW n \in Nat, n \in Has PROVE n + 1 \in Has
  <2>1. PICK f : Upto(f, n)
    BY <1>2
  <2> DEFINE g == [part \in Parts |-> Halving(f, legal, side, part)]
  <2>2. ASSUME NEW part \in Parts, part[2] - part[1] <= n + 1
        PROVE  g[part] = Halving(g, legal, side, part)
    <3> DEFINE middle == (part[1] + part[2]) \div 2
               right == <<middle, part[2]>>
               left == <<part[1], middle>>
    <3>1. part[1] \in Nat /\ part[2] \in Nat /\ part[2] <= Wide
      BY <1>0 DEF Parts
    <3>2. g[part] = Halving(f, legal, side, part)
      OBVIOUS
    <3>3. ASSUME part[2] - part[1] > 1 PROVE f[right] = g[right] /\ f[left] = g[left]
      <4>1. middle \in Nat /\ part[1] < middle /\ middle < part[2]
        BY <3>1, <3>3, MiddleIsInside
      <4> HIDE DEF middle
      <4>2. right \in Parts /\ left \in Parts
        BY <1>0, <3>1, <4>1 DEF Parts
      <4>3. right[2] - right[1] <= n /\ left[2] - left[1] <= n
        BY <2>2, <3>1, <4>1
      <4> HIDE DEF right, left
      <4>4. f[right] = Halving(f, legal, side, right) /\ f[left] = Halving(f, legal, side, left)
        BY <2>1, <4>2, <4>3
      <4> QED
        BY <4>2, <4>4
    <3>4. CASE part[2] - part[1] <= 1
      <4> HIDE DEF g
      <4> QED
        BY <3>2, <3>4 DEF Halving
    <3>5. CASE part[2] - part[1] > 1
      <4> HIDE DEF g
      <4> QED
        BY <3>2, <3>3, <3>5 DEF Halving
    <3> QED
      BY <3>1, <3>4, <3>5
  <2>3. Upto(g, n + 1)
    BY <2>2
  <2> HIDE DEF Upto, g
  <2> QED
    BY <2>3
<1>3. Wide \in Has
  <2> HIDE DEF Has
  <2> QED
    BY <1>0, <1>1, <1>2, InductionOnNat
<1>4. PICK f : Upto(f, Wide)
  BY <1>3
<1> DEFINE g == [part \in Parts |-> Halving(f, legal, side, part)]
<1>5. ASSUME NEW part \in Parts PROVE g[part] = Halving(g, legal, side, part)
  <2>1. \A p \in Parts : f[p] = Halving(f, legal, side, p)
    BY <1>0, <1>4 DEF Parts
  <2>2. \A p \in Parts : f[p] = g[p]
    BY <2>1
  <2>3. part[1] \in Nat /\ part[2] \in Nat /\ part[2] <= Wide
    BY <1>0 DEF Parts
  <2> DEFINE middle == (part[1] + part[2]) \div 2
  <2>4. ASSUME part[2] - part[1] > 1
        PROVE  <<middle, part[2]>> \in Parts /\ <<part[1], middle>> \in Parts
    <3>1. middle \in Nat /\ part[1] < middle /\ middle < part[2]
      BY <2>3, <2>4, MiddleIsInside
    <3> HIDE DEF middle
    <3> QED
      BY <1>0, <2>3, <3>1 DEF Parts
  <2> HIDE DEF g
  <2> QED
    BY <2>1, <2>2, <2>3, <2>4 DEF Halving
<1> DEFINE h == [part \in Parts |-> Halving(g, legal, side, part)]
<1>6. g = h
  <2>1. \A part \in Parts : g[part] = h[part]
    BY <1>5
  <2> HIDE DEF h
  <2> QED
    BY <2>1 DEF g, h
<1> QED
  BY <1>6 DEF Halves

(* What the search finds is legal and no further out than what was wanted. *)
LEMMA HalvedIsLegal ==
  ASSUME NEW legal, NEW side, NEW wanted \in 0..Wide, 0 \in legal, side * 0 = 0
  PROVE  Halved(legal, side, wanted) \in 0..wanted /\ side * Halved(legal, side, wanted) \in legal
<1> DEFINE f == CHOOSE f : Halves(f, legal, side)
           Sound(part) == /\ f[part] \in part[1]..part[2] /\ side * f[part] \in legal
           Lies(part) == part[1] <= part[2] /\ side * part[1] \in legal
           Has == {n \in Nat : \A part \in Parts :
                     Lies(part) /\ part[2] - part[1] <= n => Sound(part)}
<1>0. Wide \in Nat
  BY PlacementAssumption
<1>1. Halves(f, legal, side)
  BY HalvingExists
<1>2. Halved(legal, side, wanted) = f[<<0, wanted>>]
  BY DEF Halved, Halves, Halving, Parts
<1> HIDE DEF f
<1>3. \A part \in Parts : f[part] = Halving(f, legal, side, part)
  BY <1>1 DEF Halves
<1>4. \A part \in Parts : part[1] \in Nat /\ part[2] \in Nat /\ part[2] <= Wide
  BY <1>0 DEF Parts
<1>5. 0 \in Has
  <2>1. ASSUME NEW part \in Parts, Lies(part), part[2] - part[1] <= 0 PROVE Sound(part)
    <3>1. part[1] = part[2]
      BY <1>4, <2>1
    <3>2. part[2] - part[1] <= 1
      BY <1>4, <2>1
    <3>3. f[part] = part[1]
      BY <1>3, <3>1, <3>2 DEF Halving
    <3> QED
      BY <1>4, <2>1, <3>1, <3>3
  <2> QED
    BY <2>1
<1>6. ASSUME NEW n \in Nat, n \in Has PROVE n + 1 \in Has
  <2>1. ASSUME NEW part \in Parts, Lies(part), part[2] - part[1] <= n + 1 PROVE Sound(part)
    <3> DEFINE middle == (part[1] + part[2]) \div 2
               right == <<middle, part[2]>>
               left == <<part[1], middle>>
    <3>1. CASE part[2] - part[1] <= 1
      <4>1. f[part] = IF side * part[2] \in legal THEN part[2] ELSE part[1]
        BY <1>3, <3>1 DEF Halving
      <4> QED
        BY <1>4, <2>1, <4>1
    <3>2. CASE part[2] - part[1] > 1
      <4>1. middle \in Nat /\ part[1] < middle /\ middle < part[2]
        BY <1>4, <3>2, MiddleIsInside
      <4>2. ~(part[2] - part[1] <= 1)
        BY <1>4, <3>2
      <4>3. f[part] = IF side * middle \in legal THEN f[right] ELSE f[left]
        BY <1>3, <4>2 DEF Halving
      <4> HIDE DEF middle
      <4>4. right \in Parts /\ left \in Parts
        BY <1>0, <1>4, <4>1 DEF Parts
      <4>5. right[2] - right[1] <= n /\ left[2] - left[1] <= n
        BY <1>4, <2>1, <4>1
      <4>6. right[1] = middle /\ right[2] = part[2] /\ left[1] = part[1] /\ left[2] = middle
        OBVIOUS
      <4>7. right[1] <= right[2] /\ left[1] <= left[2] /\ side * left[1] \in legal
        BY <1>4, <2>1, <4>1, <4>6
      <4> HIDE DEF right, left
      <4>8. Sound(left) /\ (side * middle \in legal => Sound(right))
        BY <1>6, <4>4, <4>5, <4>6, <4>7
      <4>9. CASE side * middle \in legal
        <5>1. f[part] = f[right] /\ Sound(right)
          BY <4>3, <4>8, <4>9
        <5>2. f[right] \in middle..part[2]
          BY <5>1, <4>6
        <5> QED
          BY <1>4, <4>1, <5>1, <5>2
      <4>10. CASE side * middle \notin legal
        <5>1. f[part] = f[left] /\ Sound(left)
          BY <4>3, <4>8, <4>10
        <5>2. f[left] \in part[1]..middle
          BY <5>1, <4>6
        <5> QED
          BY <1>4, <4>1, <5>1, <5>2
      <4> QED
        BY <4>9, <4>10
    <3> QED
      BY <1>4, <3>1, <3>2
  <2> QED
    BY <2>1
<1>7. Wide \in Has
  <2> HIDE DEF Has
  <2> QED
    BY <1>0, <1>5, <1>6, InductionOnNat
<1> DEFINE whole == <<0, wanted>>
<1>8. whole \in Parts /\ whole[1] = 0 /\ whole[2] = wanted /\ whole[2] - whole[1] <= Wide
  BY <1>0 DEF Parts
<1> HIDE DEF whole
<1>9. Lies(whole)
  BY <1>8
<1>10. Sound(whole)
  BY <1>7, <1>8, <1>9
<1> QED
  BY <1>2, <1>8, <1>10 DEF whole

-----------------------------------------------------------------------------
(* How much the cap may change along the arc (Placement).                  *)

(* The Min of the library, of two numbers.                                 *)
LEMMA MinOfTwo ==
  ASSUME NEW a \in Nat, NEW b \in Nat
  PROVE  Min({a, b}) = IF a <= b THEN a ELSE b
<1> DEFINE m == IF a <= b THEN a ELSE b
<1>1. m \in {a, b} /\ \A y \in {a, b} : m <= y
  OBVIOUS
<1>2. Min({a, b}) \in {a, b} /\ \A y \in {a, b} : Min({a, b}) <= y
  BY <1>1 DEF Min
<1> QED
  BY <1>1, <1>2

(* What a cap may rise by from one sample to the next.                     *)
Rise(i) == Slope * Span(i)

LEMMA RiseIsNat == \A i : Rise(i) \in Nat
<1>1. \A i : Span(i) \in {0, 1}
  BY DEF Span
<1>2. Slope \in Nat /\ Slope * 0 = 0 /\ Slope * 1 = Slope
  BY PlacementAssumption
<1> QED
  BY <1>1, <1>2 DEF Rise

(* The sweep backwards along the arc, and the function that is.            *)
BackStep(f, cap, i) ==
  IF i = Count THEN cap[i] ELSE Min({cap[i], f[i + 1] + Rise(i)})

Backward(f, cap) == f = [i \in 1..Count |-> BackStep(f, cap, i)]

LEMMA BackwardExists ==
  ASSUME Count \in Nat, NEW cap \in [1..Count -> Nat]
  PROVE  \E f : Backward(f, cap)
<1> DEFINE Upto(f, n) == \A i \in 1..Count : Count - i <= n => f[i] = BackStep(f, cap, i)
           Has == {n \in Nat : \E f : Upto(f, n)}
<1>1. 0 \in Has
  <2> DEFINE g == [i \in 1..Count |-> cap[i]]
  <2>1. \A i \in 1..Count : Count - i <= 0 => i = Count
    OBVIOUS
  <2>2. Upto(g, 0)
    BY <2>1 DEF BackStep
  <2> HIDE DEF Upto, g
  <2> QED
    BY <2>2
<1>2. ASSUME NEW n \in Nat, n \in Has PROVE n + 1 \in Has
  <2>1. PICK f : Upto(f, n)
    BY <1>2
  <2> DEFINE g == [i \in 1..Count |-> BackStep(f, cap, i)]
  <2>2. ASSUME NEW i \in 1..Count, Count - i <= n + 1 PROVE g[i] = BackStep(g, cap, i)
    <3>1. g[i] = BackStep(f, cap, i)
      OBVIOUS
    <3>2. ASSUME i # Count PROVE f[i + 1] = g[i + 1]
      <4>1. i + 1 \in 1..Count
        BY <3>2
      <4>2. Count - (i + 1) <= n
        BY <2>2
      <4> DEFINE j == i + 1
      <4> HIDE DEF j
      <4>3. j \in 1..Count /\ Count - j <= n
        BY <4>1, <4>2 DEF j
      <4>4. f[j] = BackStep(f, cap, j) /\ g[j] = BackStep(f, cap, j)
        BY <2>1, <4>3
      <4> QED
        BY <4>4 DEF j
    <3> HIDE DEF g
    <3> QED
      BY <3>1, <3>2 DEF BackStep
  <2>3. Upto(g, n + 1)
    BY <2>2
  <2> HIDE DEF Upto, g
  <2> QED
    BY <2>3
<1>3. Count \in Has
  <2> HIDE DEF Has
  <2> QED
    BY <1>1, <1>2, InductionOnNat
<1>4. PICK f : Upto(f, Count)
  BY <1>3
<1>5. \A i \in 1..Count : f[i] = BackStep(f, cap, i)
  <2>1. \A i \in 1..Count : Count - i <= Count
    OBVIOUS
  <2> QED
    BY <1>4, <2>1
<1> DEFINE g == [i \in 1..Count |-> f[i]]
           h == [i \in 1..Count |-> BackStep(g, cap, i)]
<1>6. \A i \in 1..Count : g[i] = h[i]
  <2>1. ASSUME NEW i \in 1..Count PROVE BackStep(f, cap, i) = BackStep(g, cap, i)
    <3>1. i # Count => i + 1 \in 1..Count
      OBVIOUS
    <3> QED
      BY <3>1 DEF BackStep
  <2> QED
    BY <1>5, <2>1
<1>7. g = h
  <2> HIDE DEF h
  <2> QED
    BY <1>6 DEF g, h
<1> QED
  BY <1>7 DEF Backward

(* It stays below the caps it is given, and rises no faster than it may.   *)
LEMMA BackwardRises ==
  ASSUME Count \in Nat, NEW cap \in [1..Count -> Nat], NEW f, Backward(f, cap)
  PROVE  /\ f \in [1..Count -> Nat]
         /\ \A i \in 1..Count : f[i] <= cap[i]
         /\ \A i \in 1..Count : i # Count =>
                /\ i + 1 \in 1..Count
                /\ f[i] <= f[i + 1] + Rise(i)
                /\ f[i] = cap[i] \/ f[i] = f[i + 1] + Rise(i)
<1>1. DOMAIN f = 1..Count /\ \A i \in 1..Count : f[i] = BackStep(f, cap, i)
  BY DEF Backward
<1>2. f = [i \in 1..Count |-> f[i]]
  BY DEF Backward
<1> DEFINE Good(i) == /\ f[i] \in Nat
                      /\ f[i] <= cap[i]
                      /\ i # Count =>
                           /\ i + 1 \in 1..Count
                           /\ f[i] <= f[i + 1] + Rise(i)
                           /\ f[i] = cap[i] \/ f[i] = f[i + 1] + Rise(i)
           Has == {n \in Nat : \A i \in 1..Count : Count - i <= n => Good(i)}
<1>3. 0 \in Has
  <2>1. \A i \in 1..Count : Count - i <= 0 => i = Count
    OBVIOUS
  <2>2. \A i \in 1..Count : i = Count => f[i] = cap[i]
    BY <1>1 DEF BackStep
  <2>3. \A i \in 1..Count : cap[i] \in Nat
    OBVIOUS
  <2> QED
    BY <2>1, <2>2, <2>3
<1>4. ASSUME NEW n \in Nat, n \in Has PROVE n + 1 \in Has
  <2>1. ASSUME NEW i \in 1..Count, Count - i <= n + 1 PROVE Good(i)
    <3>0. cap[i] \in Nat
      OBVIOUS
    <3>1. CASE i = Count
      <4>1. f[i] = cap[i]
        BY <1>1, <3>1 DEF BackStep
      <4> QED
        BY <3>0, <3>1, <4>1
    <3>2. CASE i # Count
      <4>1. i + 1 \in 1..Count
        BY <3>2
      <4>2. Count - (i + 1) <= n
        BY <2>1
      <4>3. f[i + 1] \in Nat /\ Rise(i) \in Nat
        BY <1>4, <4>1, <4>2, RiseIsNat
      <4>4. f[i] = Min({cap[i], f[i + 1] + Rise(i)})
        BY <1>1, <3>2 DEF BackStep
      <4> DEFINE up == f[i + 1] + Rise(i)
      <4>5. up \in Nat
        BY <4>3
      <4>6. f[i] = IF cap[i] <= up THEN cap[i] ELSE up
        <5> HIDE DEF up
        <5>1. f[i] = Min({cap[i], up})
          BY <4>4 DEF up
        <5> QED
          BY <3>0, <4>5, <5>1, MinOfTwo
      <4>7. f[i] \in Nat /\ f[i] <= cap[i] /\ f[i] <= up /\ (f[i] = cap[i] \/ f[i] = up)
        <5> HIDE DEF up
        <5> QED
          BY <3>0, <4>5, <4>6
      <4> QED
        BY <4>1, <4>7
    <3> QED
      BY <3>1, <3>2
  <2> HIDE DEF Good
  <2> QED
    BY <2>1
<1>5. Count \in Has
  <2> HIDE DEF Has
  <2> QED
    BY <1>3, <1>4, InductionOnNat
<1>6. \A i \in 1..Count : Good(i)
  <2>1. \A i \in 1..Count : Count - i <= Count
    OBVIOUS
  <2> HIDE DEF Good
  <2> QED
    BY <1>5, <2>1
<1>7. f \in [1..Count -> Nat]
  BY <1>2, <1>6
<1> QED
  BY <1>6, <1>7

(* The sweep onwards, and the function that is.                            *)
OnStep(f, cap, i) ==
  IF i = 1 THEN cap[i] ELSE Min({cap[i], f[i - 1] + Rise(i - 1)})

Onward(f, cap) == f = [i \in 1..Count |-> OnStep(f, cap, i)]

LEMMA OnwardExists ==
  ASSUME Count \in Nat, NEW cap \in [1..Count -> Nat]
  PROVE  \E f : Onward(f, cap)
<1> DEFINE Upto(f, n) == \A i \in 1..Count : i - 1 <= n => f[i] = OnStep(f, cap, i)
           Has == {n \in Nat : \E f : Upto(f, n)}
<1>1. 0 \in Has
  <2> DEFINE g == [i \in 1..Count |-> cap[i]]
  <2>1. \A i \in 1..Count : i - 1 <= 0 => i = 1
    OBVIOUS
  <2>2. Upto(g, 0)
    BY <2>1 DEF OnStep
  <2> HIDE DEF Upto, g
  <2> QED
    BY <2>2
<1>2. ASSUME NEW n \in Nat, n \in Has PROVE n + 1 \in Has
  <2>1. PICK f : Upto(f, n)
    BY <1>2
  <2> DEFINE g == [i \in 1..Count |-> OnStep(f, cap, i)]
  <2>2. ASSUME NEW i \in 1..Count, i - 1 <= n + 1 PROVE g[i] = OnStep(g, cap, i)
    <3>1. g[i] = OnStep(f, cap, i)
      OBVIOUS
    <3>2. ASSUME i # 1 PROVE f[i - 1] = g[i - 1]
      <4>1. i - 1 \in 1..Count
        BY <3>2
      <4>2. (i - 1) - 1 <= n
        BY <2>2
      <4> DEFINE j == i - 1
      <4> HIDE DEF j
      <4>3. j \in 1..Count /\ j - 1 <= n
        BY <4>1, <4>2 DEF j
      <4>4. f[j] = OnStep(f, cap, j) /\ g[j] = OnStep(f, cap, j)
        BY <2>1, <4>3
      <4> QED
        BY <4>4 DEF j
    <3> HIDE DEF g
    <3> QED
      BY <3>1, <3>2 DEF OnStep
  <2>3. Upto(g, n + 1)
    BY <2>2
  <2> HIDE DEF Upto, g
  <2> QED
    BY <2>3
<1>3. Count \in Has
  <2> HIDE DEF Has
  <2> QED
    BY <1>1, <1>2, InductionOnNat
<1>4. PICK f : Upto(f, Count)
  BY <1>3
<1>5. \A i \in 1..Count : f[i] = OnStep(f, cap, i)
  <2>1. \A i \in 1..Count : i - 1 <= Count
    OBVIOUS
  <2> QED
    BY <1>4, <2>1
<1> DEFINE g == [i \in 1..Count |-> f[i]]
           h == [i \in 1..Count |-> OnStep(g, cap, i)]
<1>6. \A i \in 1..Count : g[i] = h[i]
  <2>1. ASSUME NEW i \in 1..Count PROVE OnStep(f, cap, i) = OnStep(g, cap, i)
    <3>1. i # 1 => i - 1 \in 1..Count
      OBVIOUS
    <3> QED
      BY <3>1 DEF OnStep
  <2> QED
    BY <1>5, <2>1
<1>7. g = h
  <2> HIDE DEF h
  <2> QED
    BY <1>6 DEF g, h
<1> QED
  BY <1>7 DEF Onward

(* It stays below the caps it is given, and rises no faster than it may.   *)
LEMMA OnwardRises ==
  ASSUME Count \in Nat, NEW cap \in [1..Count -> Nat], NEW f, Onward(f, cap)
  PROVE  /\ f \in [1..Count -> Nat]
         /\ \A i \in 1..Count : f[i] <= cap[i]
         /\ \A i \in 1..Count : i # 1 =>
                /\ i - 1 \in 1..Count
                /\ f[i] <= f[i - 1] + Rise(i - 1)
                /\ f[i] = cap[i] \/ f[i] = f[i - 1] + Rise(i - 1)
<1>1. DOMAIN f = 1..Count /\ \A i \in 1..Count : f[i] = OnStep(f, cap, i)
  BY DEF Onward
<1>2. f = [i \in 1..Count |-> f[i]]
  BY DEF Onward
<1> DEFINE Good(i) == /\ f[i] \in Nat
                      /\ f[i] <= cap[i]
                      /\ i # 1 =>
                           /\ i - 1 \in 1..Count
                           /\ f[i] <= f[i - 1] + Rise(i - 1)
                           /\ f[i] = cap[i] \/ f[i] = f[i - 1] + Rise(i - 1)
           Has == {n \in Nat : \A i \in 1..Count : i - 1 <= n => Good(i)}
<1>3. 0 \in Has
  <2>1. \A i \in 1..Count : i - 1 <= 0 => i = 1
    OBVIOUS
  <2>2. \A i \in 1..Count : i = 1 => f[i] = cap[i]
    BY <1>1 DEF OnStep
  <2>3. \A i \in 1..Count : cap[i] \in Nat
    OBVIOUS
  <2> QED
    BY <2>1, <2>2, <2>3
<1>4. ASSUME NEW n \in Nat, n \in Has PROVE n + 1 \in Has
  <2>1. ASSUME NEW i \in 1..Count, i - 1 <= n + 1 PROVE Good(i)
    <3>0. cap[i] \in Nat
      OBVIOUS
    <3>1. CASE i = 1
      <4>1. f[i] = cap[i]
        BY <1>1, <3>1 DEF OnStep
      <4> QED
        BY <3>0, <3>1, <4>1
    <3>2. CASE i # 1
      <4>1. i - 1 \in 1..Count
        BY <3>2
      <4>2. (i - 1) - 1 <= n
        BY <2>1
      <4>3. f[i - 1] \in Nat /\ Rise(i - 1) \in Nat
        BY <1>4, <4>1, <4>2, RiseIsNat
      <4>4. f[i] = Min({cap[i], f[i - 1] + Rise(i - 1)})
        BY <1>1, <3>2 DEF OnStep
      <4> DEFINE up == f[i - 1] + Rise(i - 1)
      <4>5. up \in Nat
        BY <4>3
      <4>6. f[i] = IF cap[i] <= up THEN cap[i] ELSE up
        <5> HIDE DEF up
        <5>1. f[i] = Min({cap[i], up})
          BY <4>4 DEF up
        <5> QED
          BY <3>0, <4>5, <5>1, MinOfTwo
      <4>7. f[i] \in Nat /\ f[i] <= cap[i] /\ f[i] <= up /\ (f[i] = cap[i] \/ f[i] = up)
        <5> HIDE DEF up
        <5> QED
          BY <3>0, <4>5, <4>6
      <4> QED
        BY <4>1, <4>7
    <3> QED
      BY <3>1, <3>2
  <2> HIDE DEF Good
  <2> QED
    BY <2>1
<1>5. Count \in Has
  <2> HIDE DEF Has
  <2> QED
    BY <1>3, <1>4, InductionOnNat
<1>6. \A i \in 1..Count : Good(i)
  <2>1. \A i \in 1..Count : i - 1 <= Count
    OBVIOUS
  <2> HIDE DEF Good
  <2> QED
    BY <1>5, <2>1
<1>7. f \in [1..Count -> Nat]
  BY <1>2, <1>6
<1> QED
  BY <1>6, <1>7

(* A round of the two leaves caps that change no faster than they may, in  *)
(* either direction.                                                       *)
Gentle(cap) ==
  \A i \in 1..Count - 1 : cap[i + 1] <= cap[i] + Rise(i) /\ cap[i] <= cap[i + 1] + Rise(i)

Round(cap) ==
  LET back == CHOOSE f : Backward(f, cap)
  IN  CHOOSE f : Onward(f, back)

LEMMA RoundIsGentle ==
  ASSUME Count \in Nat, NEW cap \in [1..Count -> Nat]
  PROVE  /\ Round(cap) \in [1..Count -> Nat]
         /\ \A i \in 1..Count : Round(cap)[i] <= cap[i]
         /\ Gentle(Round(cap))
<1> DEFINE back == CHOOSE f : Backward(f, cap)
           on == CHOOSE f : Onward(f, back)
<1>1. Backward(back, cap)
  BY BackwardExists
<1>2. Round(cap) = on
  BY DEF Round
<1> HIDE DEF back
<1>3. /\ back \in [1..Count -> Nat]
      /\ \A i \in 1..Count : back[i] <= cap[i]
      /\ \A i \in 1..Count : i # Count => back[i] <= back[i + 1] + Rise(i)
  BY <1>1, BackwardRises
<1>4. Onward(on, back)
  BY <1>3, OnwardExists
<1> HIDE DEF on
<1>5. /\ on \in [1..Count -> Nat]
      /\ \A i \in 1..Count : on[i] <= back[i]
      /\ \A i \in 1..Count :
             i # 1 => /\ on[i] <= on[i - 1] + Rise(i - 1)
                      /\ on[i] = back[i] \/ on[i] = on[i - 1] + Rise(i - 1)
  BY <1>3, <1>4, OnwardRises
<1>6. \A i \in 1..Count : on[i] <= cap[i]
  <2>1. \A i \in 1..Count : on[i] \in Nat /\ back[i] \in Nat /\ cap[i] \in Nat
    BY <1>3, <1>5
  <2> QED
    BY <1>3, <1>5, <2>1
<1>7. ASSUME NEW i \in 1..Count - 1
      PROVE  on[i + 1] <= on[i] + Rise(i) /\ on[i] <= on[i + 1] + Rise(i)
  <2>1. i \in 1..Count /\ i + 1 \in 1..Count /\ i # Count /\ i + 1 # 1 /\ (i + 1) - 1 = i
    OBVIOUS
  <2>2. /\ on[i] \in Nat /\ on[i + 1] \in Nat /\ back[i] \in Nat /\ back[i + 1] \in Nat
        /\ Rise(i) \in Nat
    BY <1>3, <1>5, <2>1, RiseIsNat
  <2>3. on[i] <= back[i] /\ back[i] <= back[i + 1] + Rise(i)
    BY <1>3, <1>5, <2>1
  <2>4. on[i + 1] <= on[i] + Rise(i) /\ (on[i + 1] = back[i + 1] \/ on[i + 1] = on[i] + Rise(i))
    BY <1>5, <2>1
  <2> QED
    BY SMTT(30), <2>2, <2>3, <2>4
<1> QED
  BY <1>2, <1>5, <1>6, <1>7 DEF Gentle

LEMMA RampedIsGentle ==
  ASSUME Count \in Nat, NEW cap \in [1..Count -> Nat]
  PROVE  /\ Ramped(cap) \in [1..Count -> Nat]
         /\ \A i \in 1..Count : Ramped(cap)[i] <= cap[i]
         /\ Gentle(Ramped(cap))
<1>1. Ramped(cap) = Round(Round(cap))
  BY DEF Ramped, Round, Backward, BackStep, Onward, OnStep, Rise
<1> DEFINE once == Round(cap)
<1>2. once \in [1..Count -> Nat] /\ \A i \in 1..Count : once[i] <= cap[i]
  BY RoundIsGentle
<1> HIDE DEF once
<1>3. /\ Round(once) \in [1..Count -> Nat] /\ Gentle(Round(once))
      /\ \A i \in 1..Count : Round(once)[i] <= once[i]
  BY <1>2, RoundIsGentle
<1>4. \A i \in 1..Count : Round(once)[i] \in Nat /\ once[i] \in Nat /\ cap[i] \in Nat
  BY <1>2, <1>3
<1>5. \A i \in 1..Count : Round(once)[i] <= cap[i]
  BY <1>2, <1>3, <1>4
<1> QED
  BY <1>1, <1>3, <1>5 DEF once

-----------------------------------------------------------------------------
(* The passes before it leave whole numbers (Placement).                   *)

LEMMA SizeAndSide ==
  ASSUME NEW n \in Int
  PROVE  /\ Size(n) \in Nat /\ Side(n) \in {-1, 1} /\ Side(n) * Size(n) = n
         /\ Size(n) = 0 => n = 0
  BY DEF Size, Side

LEMMA SizeOfSided ==
  ASSUME NEW n \in Int, NEW m \in Nat
  PROVE  /\ Side(n) * m \in Int /\ Size(Side(n) * m) = m /\ Side(n) * 0 = 0
  BY DEF Size, Side

(* The Min and the Max of the library, of whole numbers.                   *)
LEMMA MinAndMaxOfTwo ==
  ASSUME NEW a \in Int, NEW b \in Int
  PROVE  /\ Min({a, b}) = IF a <= b THEN a ELSE b
         /\ Max({a, b}) = IF a >= b THEN a ELSE b
<1> DEFINE m == IF a <= b THEN a ELSE b
           x == IF a >= b THEN a ELSE b
<1>1. /\ m \in {a, b} /\ \A y \in {a, b} : m <= y
      /\ x \in {a, b} /\ \A y \in {a, b} : x >= y
  OBVIOUS
<1>2. Min({a, b}) \in {a, b} /\ \A y \in {a, b} : Min({a, b}) <= y
  BY <1>1 DEF Min
<1>3. Max({a, b}) \in {a, b} /\ \A y \in {a, b} : Max({a, b}) >= y
  BY <1>1 DEF Max
<1> QED
  BY <1>1, <1>2, <1>3

LEMMA HeldIsWithin ==
  ASSUME NEW n \in Int, NEW low \in Int, NEW high \in Int
  PROVE  Held(n, low, high) \in Int /\ (low <= high => Held(n, low, high) \in low..high)
<1> DEFINE m == Min({n, high})
<1>1. m = IF n <= high THEN n ELSE high
  BY MinAndMaxOfTwo
<1>2. m \in Int
  BY <1>1
<1> HIDE DEF m
<1>3. Max({low, m}) = IF low >= m THEN low ELSE m
  BY <1>2, MinAndMaxOfTwo
<1>4. Held(n, low, high) = Max({low, m})
  BY DEF Held, m
<1> QED
  BY <1>1, <1>2, <1>3, <1>4

LEMMA HalfwayIsBetween ==
  ASSUME NEW n \in Int, NEW target \in Int
  PROVE  /\ Halfway(n, target) \in Int
         /\ n <= target => Halfway(n, target) \in n..target
         /\ target <= n => Halfway(n, target) \in target..n
  BY DEF Halfway

(* A part of an interval has a greatest and a least member.                *)
LEMMA EndsOfInterval ==
  ASSUME NEW a \in Nat, NEW b \in Nat, NEW T \in SUBSET (a..b), T # {}
  PROVE  /\ Max(T) \in T /\ \A k \in T : k <= Max(T)
         /\ Min(T) \in T /\ \A k \in T : Min(T) <= k
<1> DEFINE U == {b - x : x \in T}
<1>0. \A x \in T : x \in Nat /\ b - x \in Nat /\ x <= b
  OBVIOUS
<1>1. U \in SUBSET Nat /\ U # {} /\ T \in SUBSET Nat
  BY <1>0
<1>2. PICK least \in T : \A k \in T : least <= k
  BY <1>1, LeastNatural
<1>3. PICK u \in U : \A v \in U : u <= v
  BY <1>1, LeastNatural
<1>4. PICK most \in T : u = b - most
  OBVIOUS
<1>5. ASSUME NEW k \in T PROVE k <= most
  <2>1. b - k \in U
    OBVIOUS
  <2>2. b - most <= b - k
    BY <1>3, <1>4, <2>1
  <2> QED
    BY <1>0, <2>2
<1>6. Max(T) \in T /\ \A k \in T : Max(T) >= k
  BY <1>1, <1>5 DEF Max
<1>7. Min(T) \in T /\ \A k \in T : Min(T) <= k
  BY <1>2 DEF Min
<1>8. \A k \in T : k <= Max(T)
  BY <1>1, <1>6
<1> QED
  BY <1>6, <1>7, <1>8

(* The sample that a pass of the filter carries on from.                   *)
Earlier(i) == Max({1} \cup {j \in 2..i - 1 : Moves(j)})

LEMMA EarlierIsBefore ==
  ASSUME NEW i \in Nat, i >= 2
  PROVE  Earlier(i) \in 1..i - 1
<1> DEFINE T == {1} \cup {j \in 2..i - 1 : Moves(j)}
<1>1. T \in SUBSET (1..i - 1) /\ T # {} /\ i - 1 \in Nat
  OBVIOUS
<1> HIDE DEF T
<1>2. Max(T) \in T
  BY <1>1, EndsOfInterval
<1> QED
  BY <1>1, <1>2 DEF Earlier, T

(* One pass of the filter.                                                 *)
FilterStep(f, values, i) ==
  IF i = 1 THEN values[1]
  ELSE IF Moves(i) THEN Halfway(f[Earlier(i)], values[i]) ELSE values[i]

Filters(f, values) == f = [i \in 1..Count |-> FilterStep(f, values, i)]

LEMMA FiltersExists ==
  ASSUME Count \in Nat, NEW values
  PROVE  \E f : Filters(f, values)
<1> DEFINE Upto(f, n) == \A i \in 1..Count : i - 1 <= n => f[i] = FilterStep(f, values, i)
           Has == {n \in Nat : \E f : Upto(f, n)}
<1>0. ASSUME NEW i \in 1..Count, i # 1
      PROVE  /\ Earlier(i) \in 1..Count
             /\ \A n \in Nat : i - 1 <= n + 1 => (Earlier(i)) - 1 <= n
  BY <1>0, EarlierIsBefore
<1>1. 0 \in Has
  <2> DEFINE f == 0
             g == [i \in 1..Count |-> FilterStep(f, values, i)]
  <2>1. \A i \in 1..Count : i - 1 <= 0 => i = 1
    OBVIOUS
  <2>2. \A i \in 1..Count : i = 1 => FilterStep(f, values, i) = FilterStep(g, values, i)
    BY DEF FilterStep
  <2>3. Upto(g, 0)
    BY <2>1, <2>2
  <2> HIDE DEF Upto, g
  <2> QED
    BY <2>3
<1>2. ASSUME NEW n \in Nat, n \in Has PROVE n + 1 \in Has
  <2>1. PICK f : Upto(f, n)
    BY <1>2
  <2> DEFINE g == [i \in 1..Count |-> FilterStep(f, values, i)]
  <2>2. ASSUME NEW i \in 1..Count, i - 1 <= n + 1 PROVE g[i] = FilterStep(g, values, i)
    <3>1. g[i] = FilterStep(f, values, i)
      OBVIOUS
    <3>2. ASSUME i # 1 PROVE f[Earlier(i)] = g[Earlier(i)]
      <4>1. Earlier(i) \in 1..Count
        BY <1>0, <3>2
      <4>2. (Earlier(i)) - 1 <= n
        BY <1>0, <2>2, <3>2
      <4>3. f[Earlier(i)] = g[Earlier(i)]
        <5> DEFINE j == Earlier(i)
        <5> HIDE DEF j
        <5>1. j \in 1..Count /\ j - 1 <= n
          BY <4>1, <4>2 DEF j
        <5>2. f[j] = FilterStep(f, values, j) /\ g[j] = FilterStep(f, values, j)
          BY <2>1, <5>1
        <5> QED
          BY <5>2 DEF j
      <4> QED
        BY <4>3
    <3> HIDE DEF g
    <3> QED
      BY <3>1, <3>2 DEF FilterStep
  <2>3. Upto(g, n + 1)
    BY <2>2
  <2> HIDE DEF Upto, g
  <2> QED
    BY <2>3
<1>3. Count \in Has
  <2> HIDE DEF Has
  <2> QED
    BY <1>1, <1>2, InductionOnNat
<1>4. PICK f : Upto(f, Count)
  BY <1>3
<1>5. \A i \in 1..Count : f[i] = FilterStep(f, values, i)
  <2>1. \A i \in 1..Count : i - 1 <= Count
    OBVIOUS
  <2> QED
    BY <1>4, <2>1
<1> DEFINE g == [i \in 1..Count |-> f[i]]
           h == [i \in 1..Count |-> FilterStep(g, values, i)]
<1>6. \A i \in 1..Count : g[i] = h[i]
  <2>1. ASSUME NEW i \in 1..Count PROVE FilterStep(f, values, i) = FilterStep(g, values, i)
    <3>1. i # 1 => Earlier(i) \in 1..Count
      BY <1>0
    <3> QED
      BY <3>1 DEF FilterStep
  <2> QED
    BY <1>5, <2>1
<1>7. g = h
  <2> HIDE DEF h
  <2> QED
    BY <1>6 DEF g, h
<1> QED
  BY <1>7 DEF Filters

LEMMA FiltersIsWhole ==
  ASSUME Count \in Nat, NEW values \in [1..Count -> Int], NEW f, Filters(f, values)
  PROVE  f \in [1..Count -> Int]
<1>1. \A i \in 1..Count : f[i] = FilterStep(f, values, i)
  BY DEF Filters
<1>2. f = [i \in 1..Count |-> f[i]]
  BY DEF Filters
<1> DEFINE Has == {n \in Nat : \A i \in 1..Count : i - 1 <= n => f[i] \in Int}
<1>0. ASSUME NEW i \in 1..Count, i # 1
      PROVE  /\ Earlier(i) \in 1..Count
             /\ \A n \in Nat : i - 1 <= n + 1 => (Earlier(i)) - 1 <= n
  BY <1>0, EarlierIsBefore
<1>3. \A i \in 1..Count : values[i] \in Int
  OBVIOUS
<1>4. 0 \in Has
  <2>1. \A i \in 1..Count : i - 1 <= 0 => i = 1
    OBVIOUS
  <2>2. \A i \in 1..Count : i = 1 => f[i] = values[i]
    BY <1>1 DEF FilterStep
  <2> QED
    BY <1>3, <2>1, <2>2
<1>5. ASSUME NEW n \in Nat, n \in Has PROVE n + 1 \in Has
  <2>1. ASSUME NEW i \in 1..Count, i - 1 <= n + 1 PROVE f[i] \in Int
    <3>1. CASE i = 1
      <4>1. f[i] = values[i]
        BY <1>1, <3>1 DEF FilterStep
      <4> QED
        BY <1>3, <4>1
    <3>2. CASE i # 1
      <4>1. f[Earlier(i)] \in Int
        BY <1>0, <1>5, <2>1, <3>2
      <4>2. Halfway(f[Earlier(i)], values[i]) \in Int
        BY <1>3, <4>1, HalfwayIsBetween
      <4>3. f[i] = IF Moves(i) THEN Halfway(f[Earlier(i)], values[i]) ELSE values[i]
        BY <1>1, <3>2 DEF FilterStep
      <4> QED
        BY <1>3, <4>2, <4>3
    <3> QED
      BY <3>1, <3>2
  <2> QED
    BY <2>1
<1>6. Count \in Has
  <2> HIDE DEF Has
  <2> QED
    BY <1>4, <1>5, InductionOnNat
<1>7. \A i \in 1..Count : i - 1 <= Count
  OBVIOUS
<1>8. \A i \in 1..Count : f[i] \in Int
  BY <1>6, <1>7
<1> QED
  BY <1>2, <1>8

(* The sweep forwards.                                                     *)
ForwardStep(f, values, i) ==
  IF i <= 2 THEN values[i]
  ELSE Held(values[i], 2 * f[i - 1] - f[i - 2] - Bound, 2 * f[i - 1] - f[i - 2] + Bound)

SweepsForward(f, values) == f = [i \in 1..Count |-> ForwardStep(f, values, i)]

LEMMA SweepsForwardExists ==
  ASSUME Count \in Nat, NEW values
  PROVE  \E f : SweepsForward(f, values)
<1> DEFINE Upto(f, n) == \A i \in 1..Count : i - 1 <= n => f[i] = ForwardStep(f, values, i)
           Has == {n \in Nat : \E f : Upto(f, n)}
<1>0. ASSUME NEW i \in 1..Count, i > 2
      PROVE  /\ i - 1 \in 1..Count /\ i - 2 \in 1..Count
             /\ \A n \in Nat : i - 1 <= n + 1 => (i - 1) - 1 <= n /\ (i - 2) - 1 <= n
  BY <1>0
<1>1. 0 \in Has
  <2> DEFINE f == 0
             g == [i \in 1..Count |-> ForwardStep(f, values, i)]
  <2>1. \A i \in 1..Count : i - 1 <= 0 => i <= 2
    OBVIOUS
  <2>2. \A i \in 1..Count : i <= 2 => ForwardStep(f, values, i) = ForwardStep(g, values, i)
    BY DEF ForwardStep
  <2>3. Upto(g, 0)
    BY <2>1, <2>2
  <2> HIDE DEF Upto, g
  <2> QED
    BY <2>3
<1>2. ASSUME NEW n \in Nat, n \in Has PROVE n + 1 \in Has
  <2>1. PICK f : Upto(f, n)
    BY <1>2
  <2> DEFINE g == [i \in 1..Count |-> ForwardStep(f, values, i)]
  <2>2. ASSUME NEW i \in 1..Count, i - 1 <= n + 1 PROVE g[i] = ForwardStep(g, values, i)
    <3>1. g[i] = ForwardStep(f, values, i)
      OBVIOUS
    <3>2. ASSUME i > 2 PROVE f[i - 1] = g[i - 1] /\ f[i - 2] = g[i - 2]
      <4>1. i - 1 \in 1..Count /\ i - 2 \in 1..Count
        BY <1>0, <3>2
      <4>2. (i - 1) - 1 <= n /\ (i - 2) - 1 <= n
        BY <1>0, <2>2, <3>2
      <4>3. f[i - 1] = g[i - 1]
        <5> DEFINE j == i - 1
        <5> HIDE DEF j
        <5>1. j \in 1..Count /\ j - 1 <= n
          BY <4>1, <4>2 DEF j
        <5>2. f[j] = ForwardStep(f, values, j) /\ g[j] = ForwardStep(f, values, j)
          BY <2>1, <5>1
        <5> QED
          BY <5>2 DEF j
      <4>4. f[i - 2] = g[i - 2]
        <5> DEFINE j == i - 2
        <5> HIDE DEF j
        <5>1. j \in 1..Count /\ j - 1 <= n
          BY <4>1, <4>2 DEF j
        <5>2. f[j] = ForwardStep(f, values, j) /\ g[j] = ForwardStep(f, values, j)
          BY <2>1, <5>1
        <5> QED
          BY <5>2 DEF j
      <4> QED
        BY <4>3, <4>4
    <3> HIDE DEF g
    <3> QED
      BY <3>1, <3>2 DEF ForwardStep
  <2>3. Upto(g, n + 1)
    BY <2>2
  <2> HIDE DEF Upto, g
  <2> QED
    BY <2>3
<1>3. Count \in Has
  <2> HIDE DEF Has
  <2> QED
    BY <1>1, <1>2, InductionOnNat
<1>4. PICK f : Upto(f, Count)
  BY <1>3
<1>5. \A i \in 1..Count : f[i] = ForwardStep(f, values, i)
  <2>1. \A i \in 1..Count : i - 1 <= Count
    OBVIOUS
  <2> QED
    BY <1>4, <2>1
<1> DEFINE g == [i \in 1..Count |-> f[i]]
           h == [i \in 1..Count |-> ForwardStep(g, values, i)]
<1>6. \A i \in 1..Count : g[i] = h[i]
  <2>1. ASSUME NEW i \in 1..Count PROVE ForwardStep(f, values, i) = ForwardStep(g, values, i)
    <3>1. i > 2 => i - 1 \in 1..Count /\ i - 2 \in 1..Count
      BY <1>0
    <3> QED
      BY <3>1 DEF ForwardStep
  <2> QED
    BY <1>5, <2>1
<1>7. g = h
  <2> HIDE DEF h
  <2> QED
    BY <1>6 DEF g, h
<1> QED
  BY <1>7 DEF SweepsForward

LEMMA SweepsForwardIsWhole ==
  ASSUME Count \in Nat, NEW values \in [1..Count -> Int], NEW f, SweepsForward(f, values)
  PROVE  f \in [1..Count -> Int]
<1>1. \A i \in 1..Count : f[i] = ForwardStep(f, values, i)
  BY DEF SweepsForward
<1>2. f = [i \in 1..Count |-> f[i]]
  BY DEF SweepsForward
<1> DEFINE Has == {n \in Nat : \A i \in 1..Count : i - 1 <= n => f[i] \in Int}
<1>0. ASSUME NEW i \in 1..Count, i > 2
      PROVE  /\ i - 1 \in 1..Count /\ i - 2 \in 1..Count
             /\ \A n \in Nat : i - 1 <= n + 1 => (i - 1) - 1 <= n /\ (i - 2) - 1 <= n
  BY <1>0
<1>3. \A i \in 1..Count : values[i] \in Int
  OBVIOUS
<1>4. 0 \in Has
  <2>1. \A i \in 1..Count : i - 1 <= 0 => i <= 2
    OBVIOUS
  <2>2. \A i \in 1..Count : i <= 2 => f[i] = values[i]
    BY <1>1 DEF ForwardStep
  <2> QED
    BY <1>3, <2>1, <2>2
<1>5. ASSUME NEW n \in Nat, n \in Has PROVE n + 1 \in Has
  <2>1. ASSUME NEW i \in 1..Count, i - 1 <= n + 1 PROVE f[i] \in Int
    <3>1. CASE i <= 2
      <4>1. f[i] = values[i]
        BY <1>1, <3>1 DEF ForwardStep
      <4> QED
        BY <1>3, <4>1
    <3>2. CASE i > 2
      <4>1. f[i - 1] \in Int /\ f[i - 2] \in Int
        BY <1>0, <1>5, <2>1, <3>2
      <4> DEFINE next == 2 * f[i - 1] - f[i - 2]
      <4>2. next - Bound \in Int /\ next + Bound \in Int
        BY <4>1, PlacementAssumption
      <4>3. Held(values[i], next - Bound, next + Bound) \in Int
        BY <1>3, <4>2, HeldIsWithin
      <4>4. f[i] = Held(values[i], next - Bound, next + Bound)
        BY <1>1, <3>2 DEF ForwardStep
      <4> QED
        BY <4>3, <4>4
    <3> QED
      BY <3>1, <3>2
  <2> QED
    BY <2>1
<1>6. Count \in Has
  <2> HIDE DEF Has
  <2> QED
    BY <1>4, <1>5, InductionOnNat
<1>7. \A i \in 1..Count : i - 1 <= Count
  OBVIOUS
<1>8. \A i \in 1..Count : f[i] \in Int
  BY <1>6, <1>7
<1> QED
  BY <1>2, <1>8

(* And the one back.                                                       *)
BackwardStep(f, values, i) ==
  IF i >= Count - 1 THEN values[i]
  ELSE Held(values[i], 2 * f[i + 1] - f[i + 2] - Bound, 2 * f[i + 1] - f[i + 2] + Bound)

SweepsBackward(f, values) == f = [i \in 1..Count |-> BackwardStep(f, values, i)]

LEMMA SweepsBackwardExists ==
  ASSUME Count \in Nat, NEW values
  PROVE  \E f : SweepsBackward(f, values)
<1> DEFINE Upto(f, n) == \A i \in 1..Count : Count - i <= n => f[i] = BackwardStep(f, values, i)
           Has == {n \in Nat : \E f : Upto(f, n)}
<1>0. ASSUME NEW i \in 1..Count, i < Count - 1
      PROVE  /\ i + 1 \in 1..Count /\ i + 2 \in 1..Count
             /\ \A n \in Nat : Count - i <= n + 1 => Count - (i + 1) <= n /\ Count - (i + 2) <= n
  BY <1>0
<1>1. 0 \in Has
  <2> DEFINE f == 0
             g == [i \in 1..Count |-> BackwardStep(f, values, i)]
  <2>1. \A i \in 1..Count : Count - i <= 0 => i >= Count - 1
    OBVIOUS
  <2>2. \A i \in 1..Count :
          i >= Count - 1 => BackwardStep(f, values, i) = BackwardStep(g, values, i)
    BY DEF BackwardStep
  <2>3. Upto(g, 0)
    BY <2>1, <2>2
  <2> HIDE DEF Upto, g
  <2> QED
    BY <2>3
<1>2. ASSUME NEW n \in Nat, n \in Has PROVE n + 1 \in Has
  <2>1. PICK f : Upto(f, n)
    BY <1>2
  <2> DEFINE g == [i \in 1..Count |-> BackwardStep(f, values, i)]
  <2>2. ASSUME NEW i \in 1..Count, Count - i <= n + 1 PROVE g[i] = BackwardStep(g, values, i)
    <3>1. g[i] = BackwardStep(f, values, i)
      OBVIOUS
    <3>2. ASSUME i < Count - 1 PROVE f[i + 1] = g[i + 1] /\ f[i + 2] = g[i + 2]
      <4>1. i + 1 \in 1..Count /\ i + 2 \in 1..Count
        BY <1>0, <3>2
      <4>2. Count - (i + 1) <= n /\ Count - (i + 2) <= n
        BY <1>0, <2>2, <3>2
      <4>3. f[i + 1] = g[i + 1]
        <5> DEFINE j == i + 1
        <5> HIDE DEF j
        <5>1. j \in 1..Count /\ Count - j <= n
          BY <4>1, <4>2 DEF j
        <5>2. f[j] = BackwardStep(f, values, j) /\ g[j] = BackwardStep(f, values, j)
          BY <2>1, <5>1
        <5> QED
          BY <5>2 DEF j
      <4>4. f[i + 2] = g[i + 2]
        <5> DEFINE j == i + 2
        <5> HIDE DEF j
        <5>1. j \in 1..Count /\ Count - j <= n
          BY <4>1, <4>2 DEF j
        <5>2. f[j] = BackwardStep(f, values, j) /\ g[j] = BackwardStep(f, values, j)
          BY <2>1, <5>1
        <5> QED
          BY <5>2 DEF j
      <4> QED
        BY <4>3, <4>4
    <3> HIDE DEF g
    <3> QED
      BY <3>1, <3>2 DEF BackwardStep
  <2>3. Upto(g, n + 1)
    BY <2>2
  <2> HIDE DEF Upto, g
  <2> QED
    BY <2>3
<1>3. Count \in Has
  <2> HIDE DEF Has
  <2> QED
    BY <1>1, <1>2, InductionOnNat
<1>4. PICK f : Upto(f, Count)
  BY <1>3
<1>5. \A i \in 1..Count : f[i] = BackwardStep(f, values, i)
  <2>1. \A i \in 1..Count : Count - i <= Count
    OBVIOUS
  <2> QED
    BY <1>4, <2>1
<1> DEFINE g == [i \in 1..Count |-> f[i]]
           h == [i \in 1..Count |-> BackwardStep(g, values, i)]
<1>6. \A i \in 1..Count : g[i] = h[i]
  <2>1. ASSUME NEW i \in 1..Count PROVE BackwardStep(f, values, i) = BackwardStep(g, values, i)
    <3>1. i < Count - 1 => i + 1 \in 1..Count /\ i + 2 \in 1..Count
      BY <1>0
    <3> QED
      BY <3>1 DEF BackwardStep
  <2> QED
    BY <1>5, <2>1
<1>7. g = h
  <2> HIDE DEF h
  <2> QED
    BY <1>6 DEF g, h
<1> QED
  BY <1>7 DEF SweepsBackward

LEMMA SweepsBackwardIsWhole ==
  ASSUME Count \in Nat, NEW values \in [1..Count -> Int], NEW f, SweepsBackward(f, values)
  PROVE  f \in [1..Count -> Int]
<1>1. \A i \in 1..Count : f[i] = BackwardStep(f, values, i)
  BY DEF SweepsBackward
<1>2. f = [i \in 1..Count |-> f[i]]
  BY DEF SweepsBackward
<1> DEFINE Has == {n \in Nat : \A i \in 1..Count : Count - i <= n => f[i] \in Int}
<1>0. ASSUME NEW i \in 1..Count, i < Count - 1
      PROVE  /\ i + 1 \in 1..Count /\ i + 2 \in 1..Count
             /\ \A n \in Nat : Count - i <= n + 1 => Count - (i + 1) <= n /\ Count - (i + 2) <= n
  BY <1>0
<1>3. \A i \in 1..Count : values[i] \in Int
  OBVIOUS
<1>4. 0 \in Has
  <2>1. \A i \in 1..Count : Count - i <= 0 => i >= Count - 1
    OBVIOUS
  <2>2. \A i \in 1..Count : i >= Count - 1 => f[i] = values[i]
    BY <1>1 DEF BackwardStep
  <2> QED
    BY <1>3, <2>1, <2>2
<1>5. ASSUME NEW n \in Nat, n \in Has PROVE n + 1 \in Has
  <2>1. ASSUME NEW i \in 1..Count, Count - i <= n + 1 PROVE f[i] \in Int
    <3>1. CASE i >= Count - 1
      <4>1. f[i] = values[i]
        BY <1>1, <3>1 DEF BackwardStep
      <4> QED
        BY <1>3, <4>1
    <3>2. CASE i < Count - 1
      <4>1. f[i + 1] \in Int /\ f[i + 2] \in Int
        BY <1>0, <1>5, <2>1, <3>2
      <4> DEFINE next == 2 * f[i + 1] - f[i + 2]
      <4>2. next - Bound \in Int /\ next + Bound \in Int
        BY <4>1, PlacementAssumption
      <4>3. Held(values[i], next - Bound, next + Bound) \in Int
        BY <1>3, <4>2, HeldIsWithin
      <4>4. f[i] = Held(values[i], next - Bound, next + Bound)
        BY <1>1, <3>2 DEF BackwardStep
      <4> QED
        BY <4>3, <4>4
    <3> QED
      BY <3>1, <3>2
  <2> QED
    BY <2>1
<1>6. Count \in Has
  <2> HIDE DEF Has
  <2> QED
    BY <1>4, <1>5, InductionOnNat
<1>7. \A i \in 1..Count : Count - i <= Count
  OBVIOUS
<1>8. \A i \in 1..Count : f[i] \in Int
  BY <1>6, <1>7
<1> QED
  BY <1>2, <1>8

(* What the bound on the second difference leaves.                         *)
LEMMA BoundedIsWhole ==
  ASSUME Count \in Nat, NEW values \in [1..Count -> Int]
  PROVE  Swept(Filtered(Filtered(values))) \in [1..Count -> Int]
<1>1. ASSUME NEW v \in [1..Count -> Int] PROVE Filtered(v) \in [1..Count -> Int]
  <2> DEFINE f == CHOOSE f : Filters(f, v)
  <2>1. Filters(f, v)
    BY FiltersExists
  <2>2. Filtered(v) = f
    BY DEF Filtered, Filters, FilterStep, Earlier
  <2> HIDE DEF f
  <2> QED
    BY <2>1, <2>2, FiltersIsWhole
<1>2. ASSUME NEW v \in [1..Count -> Int] PROVE Swept(v) \in [1..Count -> Int]
  <2> DEFINE f == CHOOSE f : SweepsForward(f, v)
             b == CHOOSE b : SweepsBackward(b, f)
  <2>1. SweepsForward(f, v)
    BY SweepsForwardExists
  <2>2. SweepsBackward(b, f)
    BY SweepsBackwardExists
  <2>3. Swept(v) = b
    BY DEF Swept, SweepsForward, SweepsBackward, ForwardStep, BackwardStep
  <2> HIDE DEF b
  <2> HIDE DEF f
  <2>4. f \in [1..Count -> Int]
    BY <2>1, SweepsForwardIsWhole
  <2> QED
    BY <2>2, <2>3, <2>4, SweepsBackwardIsWhole
<1> DEFINE once == Filtered(values)
           twice == Filtered(once)
<1>3. once \in [1..Count -> Int]
  BY <1>1
<1> HIDE DEF once
<1>4. twice \in [1..Count -> Int]
  BY <1>1, <1>3
<1> HIDE DEF twice
<1>5. Swept(twice) \in [1..Count -> Int]
  BY <1>2, <1>4
<1> QED
  BY <1>5 DEF once, twice

-----------------------------------------------------------------------------
(* The passes, one after the other (Placement).                            *)

Passes == {"draw", "turn", "bound", "cap", "freeze", "done"}

(* The caps along the arc: the offsets change no faster than they may.     *)
Level ==
  \A i \in 1..Count - 1 : Size(Size(offset[i + 1]) - Size(offset[i])) <= Slope * Span(i)

(* What holds between the passes: a sample that moves is placed across its *)
(* own strip, at its offset, until the holds are frozen; the offsets drawn *)
(* are no wider than the strips; and those that were capped are level.     *)
PlacementInv ==
  /\ kind \in Walks /\ pass \in Passes
  /\ strip \in Seq(Strips) /\ Len(strip) <= Count
  /\ pass # "draw" => Len(strip) = Count
  /\ offset \in Seq(Int) /\ Len(offset) = Len(strip)
  /\ place \in Seq([at : 1..Count, side : Int]) /\ Len(place) = Len(strip)
  /\ pass = "draw" => /\ drift.limit \in 0..Wide
                      /\ drift.smoothed \in Int /\ drift.previous \in Int
  /\ pass \in {"draw", "turn"} => \A i \in 1..Len(strip) : Size(offset[i]) <= Wide
  /\ pass \notin {"freeze", "done"} =>
       \A i \in 1..Len(strip) : Moves(i) => place[i] = [at |-> i, side |-> offset[i]]
  /\ pass = "freeze" => Level
  /\ PlacedWhereClear
  /\ MovesWithoutSteps

(* A walk has samples, and one of them moves.                              *)
LEMMA WalkHasSamples ==
  ASSUME kind \in Walks
  PROVE  /\ Count \in Nat \ {0} /\ kind \in [1..Count -> {"move", "turn", "stand"}]
         /\ \E i \in 1..Count : Moves(i)
<1>1. kind \in Seq({"move", "turn", "stand"}) /\ "move" \in Range(kind)
  BY PlacementAssumption
<1>2. Len(kind) \in Nat /\ DOMAIN kind = 1..Len(kind)
      /\ kind \in [1..Len(kind) -> {"move", "turn", "stand"}]
  BY <1>1
<1>3. PICK i \in DOMAIN kind : kind[i] = "move"
  BY <1>1 DEF Range
<1>4. i \in 1..Len(kind)
  BY <1>2, <1>3
<1> QED
  BY <1>2, <1>3, <1>4 DEF Count, Moves

LEMMA LegalLimitIsWithin ==
  ASSUME NEW ground, NEW side \in {-1, 1}, NEW magnitude \in 0..Wide
  PROVE  LegalLimit(ground, side, magnitude) \in 0..magnitude
<1>1. Wide \in Nat /\ side * 0 = 0
  BY PlacementAssumption
<1> QED
  BY <1>1, HalvedIsLegal DEF LegalLimit

LEMMA EnvironmentLimitIsWithin ==
  ASSUME NEW ground, NEW wanted \in -Wide..Wide
  PROVE  EnvironmentLimit(ground, wanted) \in 0..Wide
<1>1. Wide \in Nat
  BY PlacementAssumption
<1>2. Size(wanted) \in 0..Wide /\ Side(wanted) * 0 = 0
  BY <1>1 DEF Size, Side
<1>3. 0 \in ground.clear =>
        Halved(ground.clear, Side(wanted), Size(wanted)) \in 0..Size(wanted)
  BY <1>2, HalvedIsLegal
<1> HIDE DEF Halved, Size
<1> QED
  BY <1>1, <1>2, <1>3 DEF EnvironmentLimit

LEMMA DivisionShrinks ==
  ASSUME NEW a \in Nat, NEW s \in Nat, NEW d \in Nat, d > 0, s <= d
  PROVE  (a * s) \div d \in 0..a
<1> DEFINE q == (a * s) \div d
<1>1. a * s \in Nat /\ a * s <= a * d
  OBVIOUS
<1>2. q \in Int /\ q * d <= a * s /\ q >= 0
  BY <1>1
<1> HIDE DEF q
<1>3. q * d <= a * d
  BY <1>1, <1>2
<1>4. q <= a
  BY <1>2, <1>3
<1> QED
  BY <1>2, <1>4 DEF q

LEMMA LastOfIsAfter ==
  ASSUME kind \in Walks, NEW i \in 1..Count
  PROVE  LastOf(i) \in i..Count
<1> DEFINE T == {j \in i..Count : \A k \in i..j : kind[k] = kind[i]}
<1>1. Count \in Nat /\ i \in Nat
  BY WalkHasSamples
<1>2. i \in T /\ T \in SUBSET (i..Count)
  BY <1>1
<1> HIDE DEF T
<1>3. Max(T) \in T
  BY <1>1, <1>2, EndsOfInterval
<1> QED
  BY <1>2, <1>3 DEF LastOf, T

(* The sweep around the pivot stays on the strip.                          *)
LEMMA DipIsWhole ==
  ASSUME kind \in Walks, \A j \in 1..Count : offset[j] \in -Wide..Wide,
         NEW first \in TurnRuns, NEW i \in first..LastOf(first)
  PROVE  Dip(first, i) \in Int
<1> DEFINE back == LastOf(first)
           side == Side(offset[first - 1])
           magnitude == Size(offset[first - 1])
           limits == {magnitude} \cup {LegalLimit(strip[j], side, magnitude) : j \in first..back}
           floor == Min(limits)
           span == Max({1, back - first})
           shape == span - Size(2 * (i - first) - span)
           want == magnitude - ((magnitude - floor) * shape) \div span
<1>1. Wide \in Nat /\ Count \in Nat
  BY WalkHasSamples, PlacementAssumption
<1>2. first \in 2..Count /\ first \in Nat /\ first - 1 \in 1..Count /\ first \in 1..Count
  BY <1>1 DEF TurnRuns
<1>3. back \in first..Count /\ back \in Nat
  BY <1>1, <1>2, LastOfIsAfter
<1>4. offset[first - 1] \in -Wide..Wide
  BY <1>2
<1>5. side \in {-1, 1} /\ magnitude \in 0..Wide
  BY <1>1, <1>4 DEF Side, Size
<1>6. Dip(first, i) = side * Min({want, LegalLimit(strip[i], side, want)})
  BY DEF Dip
<1> HIDE DEF side, magnitude, back
<1>7. floor \in 0..magnitude
  <2>1. \A j : LegalLimit(strip[j], side, magnitude) \in 0..magnitude
    BY <1>5, LegalLimitIsWithin
  <2>2. limits \in SUBSET (0..magnitude) /\ limits # {} /\ magnitude \in Nat
    BY <1>1, <1>5, <2>1
  <2> HIDE DEF limits
  <2>3. Min(limits) \in limits
    BY <2>2, EndsOfInterval
  <2> QED
    BY <2>2, <2>3
<1> HIDE DEF floor
<1>8. span \in Nat /\ span >= 1 /\ back - first <= span
  <2> DEFINE gap == back - first
  <2>1. gap \in Int
    BY <1>2, <1>3
  <2>2. span = Max({1, gap})
    OBVIOUS
  <2> HIDE DEF gap, span
  <2>3. span = IF 1 >= gap THEN 1 ELSE gap
    BY <2>1, <2>2, MinAndMaxOfTwo
  <2>4. span \in Nat /\ span >= 1 /\ gap <= span
    BY <2>1, <2>3
  <2> QED
    BY <2>4 DEF gap
<1> HIDE DEF span
<1>9. shape \in Nat /\ shape <= span
  <2>1. i \in Nat /\ i - first \in Nat /\ i - first <= span
    BY <1>2, <1>3, <1>8 DEF back
  <2> QED
    BY <1>8, <2>1 DEF Size
<1> HIDE DEF shape
<1>10. want \in 0..Wide
  <2> DEFINE a == magnitude - floor
  <2>1. a \in Nat /\ a <= magnitude /\ magnitude \in Nat /\ magnitude <= Wide
    BY <1>1, <1>5, <1>7
  <2>2. want = magnitude - (a * shape) \div span
    OBVIOUS
  <2> HIDE DEF a, want
  <2>3. (a * shape) \div span \in 0..a
    BY <1>8, <1>9, <2>1, DivisionShrinks
  <2> QED
    BY <1>1, <2>1, <2>2, <2>3
<1> HIDE DEF want
<1>11. LegalLimit(strip[i], side, want) \in 0..want
  BY <1>5, <1>10, LegalLimitIsWithin
<1> DEFINE legal == LegalLimit(strip[i], side, want)
<1>12. legal \in Int /\ want \in Int
  BY <1>1, <1>10, <1>11
<1> HIDE DEF legal
<1>13. Min({want, legal}) \in Int
  BY <1>12, MinAndMaxOfTwo
<1>14. side * Min({want, legal}) \in Int
  BY <1>5, <1>13
<1> QED
  BY <1>6, <1>14 DEF legal

(* What holds of a sample's walk in every pass.                            *)
LEMMA InvFacts ==
  ASSUME PlacementInv
  PROVE  /\ Count \in Nat \ {0} /\ Len(strip) \in 0..Count /\ Wide \in Nat
         /\ \A i \in 1..Len(strip) : offset[i] \in Int /\ strip[i] \in Strips
                                     /\ place[i] \in [at : 1..Count, side : Int]
         /\ offset \in [1..Len(strip) -> Int]
         /\ place \in [1..Len(strip) -> [at : 1..Count, side : Int]]
<1>1. Count \in Nat \ {0} /\ Wide \in Nat
  BY WalkHasSamples, PlacementAssumption DEF PlacementInv
<1>2. /\ strip \in Seq(Strips) /\ offset \in Seq(Int) /\ Len(offset) = Len(strip)
      /\ place \in Seq([at : 1..Count, side : Int]) /\ Len(place) = Len(strip)
      /\ Len(strip) <= Count
  BY DEF PlacementInv
<1> DEFINE P == [at : 1..Count, side : Int]
<1> HIDE DEF P
<1>3. place \in Seq(P)
  BY <1>2 DEF P
<1>4. /\ Len(strip) \in Nat /\ Len(strip) <= Count
      /\ \A i \in 1..Len(strip) : offset[i] \in Int /\ strip[i] \in Strips /\ place[i] \in P
  BY <1>1, <1>2, <1>3
<1>5. offset \in [1..Len(strip) -> Int]
  BY <1>2
<1>6. place \in [1..Len(strip) -> P]
  BY <1>2, <1>3
<1> QED
  BY <1>1, <1>4, <1>5, <1>6 DEF P

LEMMA FirstPlacement == PlacementInit => PlacementInv
<1> SUFFICES ASSUME PlacementInit PROVE PlacementInv
  OBVIOUS
<1>1. Count \in Nat \ {0} /\ Wide \in Nat /\ Len(<<>>) = 0
  BY WalkHasSamples, PlacementAssumption DEF PlacementInit
<1>2. drift.limit = 0 /\ drift.smoothed = 0 /\ drift.previous = 0
  BY DEF PlacementInit, Undrawn
<1> QED
  BY <1>1, <1>2 DEF PlacementInit, PlacementInv, Passes, PlacedWhereClear, MovesWithoutSteps

(* The drift draws an offset within the limits of ground and bend.         *)
LEMMA DrawIsWithin ==
  ASSUME NEW l \in 0..Wide, NEW s \in Int, NEW bend \in Bends, NEW previous \in Int
  PROVE  LET legal  == Held(s, -l, l)
             inside == Min({legal, bend})
         IN  /\ inside \in -l..l
             /\ \A n \in Between(previous, inside) : Held(n, -l, l) \in -l..l
<1> DEFINE legal == Held(s, -l, l)
           inside == Min({legal, bend})
<1>1. Wide \in Nat /\ bend \in 0..Wide
  BY PlacementAssumption
<1>2. -l \in Int /\ l \in Int /\ -l <= l
  BY <1>1
<1>3. legal \in -l..l
  BY <1>2, HeldIsWithin
<1> HIDE DEF legal
<1>4. inside = IF legal <= bend THEN legal ELSE bend
  <2>1. legal \in Int /\ bend \in Int
    BY <1>1, <1>2, <1>3
  <2> QED
    BY <2>1, MinAndMaxOfTwo
<1>5. inside \in -l..l
  <2> HIDE DEF inside
  <2> QED
    BY <1>1, <1>2, <1>3, <1>4
<1> HIDE DEF inside
<1>6. ASSUME NEW n \in Between(previous, inside) PROVE Held(n, -l, l) \in -l..l
  <2>1. inside \in Int
    BY <1>2, <1>5
  <2>2. n \in Int
    BY <2>1, HalfwayIsBetween DEF Between
  <2> QED
    BY <1>2, <2>2, HeldIsWithin
<1> QED
  BY <1>5, <1>6 DEF inside, legal

LEMMA LimitFollows ==
  ASSUME NEW limit \in 0..Wide, NEW target \in 0..Wide, NEW n \in Between(limit, target),
         ~(target >= limit)
  PROVE  Min({n, target}) \in 0..Wide
<1>1. Wide \in Nat
  BY PlacementAssumption
<1>2. n \in Int /\ target \in Int /\ n >= 0
  <2>1. limit \in Int /\ target \in Int /\ target <= limit /\ target >= 0
    BY <1>1
  <2>2. Halfway(limit, target) \in target..limit
    BY <2>1, HalfwayIsBetween
  <2>3. n = Halfway(limit, target) \/ n = target
    BY DEF Between
  <2> QED
    BY <2>1, <2>2, <2>3
<1>3. Min({n, target}) = IF n <= target THEN n ELSE target
  BY <1>2, MinAndMaxOfTwo
<1> QED
  BY <1>1, <1>2, <1>3

(* What one sample of the drift may come to.                               *)
LimitsNext(ground, raw) ==
  LET target == EnvironmentLimit(ground, raw)
  IN  IF Len(strip) + 1 = 1 \/ target >= drift.limit THEN {target}
      ELSE {Min({n, target}) : n \in Between(drift.limit, target)}

SmoothedNext(raw) == IF Len(strip) + 1 = 1 THEN {raw} ELSE Between(drift.smoothed, raw)

OffsetsNext(l, s, bend) ==
  LET inside == Min({Held(s, -l, l), bend})
  IN  IF Len(strip) + 1 > 1 /\ Size(inside) > Size(drift.previous)
      THEN {Held(n, -l, l) : n \in Between(drift.previous, inside)}
      ELSE {inside}

Drawing(ground, l, s, applied) ==
  /\ drift' = [limit |-> l, smoothed |-> s, previous |-> applied]
  /\ strip' = Append(strip, ground)
  /\ offset' = Append(offset, applied)
  /\ place' = Append(place, [at |-> Len(strip) + 1, side |-> applied])

LEMMA DrawPlacement == ASSUME PlacementInv, Draw PROVE PlacementInv'
<1> DEFINE i == Len(strip) + 1
<1>1. /\ pass = "draw" /\ i <= Count /\ pass' = pass /\ kind' = kind
  BY DEF Draw
<1>2. /\ Count \in Nat \ {0} /\ Len(strip) \in 0..Count /\ Wide \in Nat
      /\ i \in 1..Count /\ Count' = Count
  BY <1>1, InvFacts DEF Count
<1>3. PICK ground \in Strips, raw \in Drawn, bend \in Bends :
        \E l \in LimitsNext(ground, raw), s \in SmoothedNext(raw) :
          \E applied \in OffsetsNext(l, s, bend) : Drawing(ground, l, s, applied)
  BY DEF Draw, LimitsNext, SmoothedNext, OffsetsNext, Drawing
<1>4. PICK l \in LimitsNext(ground, raw), s \in SmoothedNext(raw) :
        \E applied \in OffsetsNext(l, s, bend) : Drawing(ground, l, s, applied)
  BY <1>3
<1>5. PICK applied \in OffsetsNext(l, s, bend) : Drawing(ground, l, s, applied)
  BY <1>4
<1>6. drift.limit \in 0..Wide /\ drift.smoothed \in Int /\ drift.previous \in Int
  BY <1>1 DEF PlacementInv
<1>7. raw \in -Wide..Wide /\ raw \in Int
  BY <1>2, <1>3, PlacementAssumption
<1>8. l \in 0..Wide
  <2> DEFINE target == EnvironmentLimit(ground, raw)
  <2>1. target \in 0..Wide
    BY <1>7, EnvironmentLimitIsWithin
  <2>2. l = target \/ (~(target >= drift.limit)
                        /\ \E n \in Between(drift.limit, target) : l = Min({n, target}))
    BY <1>4 DEF LimitsNext
  <2> HIDE DEF target
  <2> QED
    BY <1>6, <2>1, <2>2, LimitFollows
<1>9. s \in Int
  <2>1. s = raw \/ s \in Between(drift.smoothed, raw)
    BY <1>4 DEF SmoothedNext
  <2>2. Halfway(drift.smoothed, raw) \in Int
    BY <1>6, <1>7, HalfwayIsBetween
  <2> QED
    BY <1>7, <2>1, <2>2 DEF Between
<1>10. applied \in -l..l
  <2> DEFINE inside == Min({Held(s, -l, l), bend})
  <2>1. /\ inside \in -l..l
        /\ \A n \in Between(drift.previous, inside) : Held(n, -l, l) \in -l..l
    BY <1>3, <1>6, <1>8, <1>9, DrawIsWithin
  <2>2. applied = inside \/ \E n \in Between(drift.previous, inside) : applied = Held(n, -l, l)
    BY <1>5 DEF OffsetsNext
  <2> HIDE DEF inside
  <2> QED
    BY <2>1, <2>2
<1>11. applied \in Int /\ Size(applied) <= Wide
  BY <1>2, <1>8, <1>10 DEF Size
<1>12. /\ strip' \in Seq(Strips) /\ Len(strip') = i
       /\ offset' \in Seq(Int) /\ Len(offset') = i
       /\ \A j \in 1..Len(strip) : offset'[j] = offset[j] /\ place'[j] = place[j]
       /\ offset'[i] = applied /\ place'[i] = [at |-> i, side |-> applied]
  BY SMTT(30), <1>2, <1>5, <1>11 DEF PlacementInv, Drawing
<1>13. place' \in Seq([at : 1..Count, side : Int]) /\ Len(place') = i
  <2> DEFINE there == [at |-> i, side |-> applied]
  <2>1. there \in [at : 1..Count, side : Int]
    BY <1>2, <1>11
  <2>2. place' = Append(place, there)
    BY <1>5 DEF Drawing
  <2> HIDE DEF there
  <2> QED
    BY <2>1, <2>2 DEF PlacementInv
<1>14. drift'.limit = l /\ drift'.smoothed = s /\ drift'.previous = applied
  BY <1>5 DEF Drawing
<1>15. \A j \in 1..i : j \in 1..Len(strip) \/ j = i
  BY <1>2
<1>16. \A j \in 1..i : Size(offset'[j]) <= Wide
  BY <1>1, <1>11, <1>12, <1>15 DEF PlacementInv
<1>17. \A j \in 1..i : Moves(j) => place'[j] = [at |-> j, side |-> offset'[j]]
  BY <1>1, <1>11, <1>12, <1>15 DEF PlacementInv
<1>18. \A j : Moves(j)' = Moves(j)
  BY <1>1 DEF Moves
<1>19. pass' = "draw" /\ kind' \in Walks /\ Len(strip') <= Count'
  BY <1>1, <1>2, <1>12 DEF PlacementInv
<1>20. PlacedWhereClear' /\ MovesWithoutSteps'
  BY <1>19 DEF PlacedWhereClear, MovesWithoutSteps
<1> HIDE DEF i
<1> QED
  BY <1>2, <1>8, <1>9, <1>11, <1>12, <1>13, <1>14, <1>16, <1>17, <1>18, <1>19, <1>20
     DEF PlacementInv, Passes

LEMMA DrewPlacement == ASSUME PlacementInv, Drew PROVE PlacementInv'
<1>1. /\ pass = "draw" /\ Len(strip) = Count /\ pass' = "turn"
      /\ kind' = kind /\ strip' = strip /\ offset' = offset /\ place' = place
  BY DEF Drew
<1>2. Count' = Count /\ \A i : Moves(i)' = Moves(i)
  BY <1>1 DEF Count, Moves
<1>3. PlacedWhereClear' /\ MovesWithoutSteps'
  BY <1>1 DEF PlacedWhereClear, MovesWithoutSteps
<1> QED
  BY <1>1, <1>2, <1>3 DEF PlacementInv, Passes

(* A pass that leaves the samples in place but may give them other offsets.*)
LEMMA PassPlacement ==
  ASSUME PlacementInv, pass \in {"turn", "bound"}, pass' \in {"bound", "cap"},
         UNCHANGED <<kind, strip>>,
         NEW values \in [1..Count -> Int], NEW again \in SUBSET (1..Count),
         \A i \in 1..Count : Moves(i) => i \in again,
         offset' = [i \in 1..Count |-> values[i]],
         place' = [i \in 1..Count |->
                     IF i \in again THEN [at |-> i, side |-> values[i]] ELSE place[i]]
  PROVE  PlacementInv'
<1>1. /\ Count \in Nat \ {0} /\ Count' = Count /\ Len(strip) = Count /\ kind' = kind
      /\ strip' = strip /\ \A i : Moves(i)' = Moves(i)
  BY InvFacts DEF Count, Moves, PlacementInv
<1>2. offset' \in Seq(Int) /\ Len(offset') = Count /\ \A i \in 1..Count : offset'[i] = values[i]
  BY <1>1
<1>3. ASSUME NEW i \in 1..Count
      PROVE  (IF i \in again THEN [at |-> i, side |-> values[i]] ELSE place[i])
               \in [at : 1..Count, side : Int]
  BY <1>1, InvFacts
<1> DEFINE P == [at : 1..Count, side : Int]
<1> HIDE DEF P
<1>4. place' \in [1..Count -> P]
  BY <1>3 DEF P
<1>5. place' \in Seq(P) /\ Len(place') = Count
  BY <1>1, <1>4
<1>6. \A i \in 1..Count : Moves(i) => place'[i] = [at |-> i, side |-> offset'[i]]
  BY <1>2
<1>7. PlacedWhereClear' /\ MovesWithoutSteps'
  BY DEF PlacedWhereClear, MovesWithoutSteps
<1>8. kind' \in Walks /\ strip' \in Seq(Strips) /\ pass' \in Passes
  BY <1>1 DEF PlacementInv, Passes
<1> QED
  BY <1>1, <1>2, <1>5, <1>6, <1>7, <1>8 DEF PlacementInv, P

LEMMA TurnsPlacement == ASSUME PlacementInv, ApplyTurns PROVE PlacementInv'
<1>1. pass = "turn" /\ pass' = "bound" /\ UNCHANGED <<kind, strip>>
  BY DEF ApplyTurns
<1>2. /\ Count \in Nat \ {0} /\ Wide \in Nat /\ kind \in Walks
      /\ \A i \in 1..Count : offset[i] \in Int /\ Size(offset[i]) <= Wide
  BY <1>1, InvFacts DEF PlacementInv
<1>3. \A i \in 1..Count : offset[i] \in -Wide..Wide
  BY <1>2 DEF Size
<1>4. \A first \in TurnRuns : \A i \in first..LastOf(first) : Dip(first, i) \in Int
  BY <1>2, <1>3, DipIsWhole
<1>5. ASSUME NEW i \in 1..Count PROVE Turned(i) \in Int
  <2>1. CASE \E first \in TurnRuns : i \in first..LastOf(first)
    BY <1>4, <2>1 DEF Turned
  <2>2. CASE ~(\E first \in TurnRuns : i \in first..LastOf(first))
             /\ \E first \in TurnRuns : i = LastOf(first) + 1
    <3> DEFINE first == CHOOSE f \in TurnRuns : i = LastOf(f) + 1
    <3>1. first \in TurnRuns /\ Turned(i) = Dip(first, LastOf(first))
      BY <2>2 DEF Turned
    <3> HIDE DEF first
    <3>2. first \in 1..Count
      BY <1>2, <3>1 DEF TurnRuns
    <3>3. LastOf(first) \in first..LastOf(first)
      BY <1>2, <3>2, LastOfIsAfter
    <3> QED
      BY <1>4, <3>1, <3>3
  <2>3. CASE ~(\E first \in TurnRuns : i \in first..LastOf(first))
             /\ ~(\E first \in TurnRuns : i = LastOf(first) + 1)
    BY <1>2, <2>3 DEF Turned
  <2> QED
    BY <2>1, <2>2, <2>3
<1> DEFINE values == [i \in 1..Count |-> Turned(i)]
           again == {i \in 1..Count : kind[i] = "turn" \/ Moves(i)}
<1>6. values \in [1..Count -> Int] /\ \A i \in 1..Count : values[i] = Turned(i)
  BY <1>5
<1>7. offset' = [i \in 1..Count |-> values[i]]
  BY DEF ApplyTurns
<1>8. place' = [i \in 1..Count |-> IF i \in again THEN [at |-> i, side |-> values[i]] ELSE place[i]]
  BY DEF ApplyTurns
<1>9. \A i \in 1..Count : Moves(i) => i \in again
  OBVIOUS
<1> HIDE DEF values, again
<1> QED
  BY <1>1, <1>6, <1>7, <1>8, <1>9, PassPlacement DEF again

LEMMA BoundPlacement == ASSUME PlacementInv, LimitAcceleration PROVE PlacementInv'
<1>1. pass = "bound" /\ pass' = "cap" /\ UNCHANGED <<kind, strip>>
  BY DEF LimitAcceleration
<1>2. Count \in Nat \ {0} /\ offset \in [1..Count -> Int]
  BY <1>1, InvFacts DEF PlacementInv
<1> DEFINE values == IF Count < 3 THEN offset ELSE Swept(Filtered(Filtered(offset)))
           again == {i \in 1..Count : Moves(i)}
<1>3. values \in [1..Count -> Int]
  BY <1>2, BoundedIsWhole
<1>4. offset' = values
  BY DEF LimitAcceleration
<1>5. place' = [i \in 1..Count |-> IF i \in again THEN [at |-> i, side |-> values[i]] ELSE place[i]]
  BY DEF LimitAcceleration
<1>6. \A i \in 1..Count : Moves(i) => i \in again
  OBVIOUS
<1> HIDE DEF values
<1>7. offset' = [i \in 1..Count |-> values[i]]
  BY <1>3, <1>4
<1> HIDE DEF again
<1> QED
  BY <1>1, <1>3, <1>5, <1>6, <1>7, PassPlacement DEF again

(* The probe finds an offset that is clear, and no further out.            *)
LEMMA CapLimitIsClear ==
  ASSUME PlacementInv, pass = "cap", NEW i \in 1..Count
  PROVE  /\ CapLimit(i) \in Nat /\ CapLimit(i) <= Size(offset[i]) /\ CapLimit(i) <= Wide
         /\ 0 \in strip[i].clear => Side(offset[i]) * CapLimit(i) \in strip[i].clear
<1> DEFINE wanted == Min({Wide, Size(offset[i])})
<1>1. Wide \in Nat /\ offset[i] \in Int
  BY InvFacts DEF PlacementInv
<1>2. Size(offset[i]) \in Nat /\ Side(offset[i]) * 0 = 0
  BY <1>1 DEF Size, Side
<1>3. wanted \in 0..Wide /\ wanted <= Size(offset[i])
  <2> DEFINE n == Size(offset[i])
  <2>1. n \in Nat
    BY <1>2
  <2> HIDE DEF n
  <2>2. Min({Wide, n}) = IF Wide <= n THEN Wide ELSE n
    BY <1>1, <2>1, MinOfTwo
  <2>3. Min({Wide, n}) \in 0..Wide /\ Min({Wide, n}) <= n
    BY <1>1, <2>1, <2>2
  <2> QED
    BY <2>3 DEF n
<1> HIDE DEF wanted
<1>4. CASE 0 \in strip[i].clear
  <2>1. CapLimit(i) = Halved(strip[i].clear, Side(offset[i]), wanted)
    BY <1>4 DEF CapLimit, wanted
  <2>2. /\ Halved(strip[i].clear, Side(offset[i]), wanted) \in 0..wanted
        /\ Side(offset[i]) * Halved(strip[i].clear, Side(offset[i]), wanted) \in strip[i].clear
    BY <1>2, <1>3, <1>4, HalvedIsLegal
  <2> QED
    BY <1>1, <1>2, <1>3, <2>1, <2>2
<1>5. CASE 0 \notin strip[i].clear
  BY <1>1, <1>2, <1>5 DEF CapLimit
<1> QED
  BY <1>4, <1>5

LEMMA CapPlacement == ASSUME PlacementInv, CapOffsets PROVE PlacementInv'
<1> DEFINE caps == [i \in 1..Count |-> CapLimit(i)]
           cap == Ramped(caps)
<1>1. /\ pass = "cap" /\ pass' = "freeze" /\ kind' = kind /\ strip' = strip
      /\ offset' = [i \in 1..Count |-> IF cap[i] >= Size(offset[i]) THEN offset[i]
                                       ELSE Side(offset[i]) * cap[i]]
      /\ place' = [i \in 1..Count |-> IF offset[i] = 0 THEN place[i]
                                      ELSE [at |-> i, side |-> Side(offset[i]) * cap[i]]]
  BY DEF CapOffsets
<1>2. /\ Count \in Nat \ {0} /\ Count' = Count /\ Wide \in Nat
      /\ strip \in Seq(Strips) /\ Len(strip) = Count /\ kind \in Walks
  BY <1>1, InvFacts DEF PlacementInv, Count
<1>3. \A i \in 1..Count : /\ offset[i] \in Int /\ Size(offset[i]) \in Nat
                           /\ place[i] \in [at : 1..Count, side : Int]
  BY <1>1, <1>2, InvFacts, SizeAndSide
<1>4. \A i \in 1..Count :
        CapLimit(i) \in Nat /\ CapLimit(i) <= Size(offset[i]) /\ CapLimit(i) <= Wide
  BY <1>1, CapLimitIsClear
<1>16. \A i \in 1..Count :
         0 \in strip[i].clear => Side(offset[i]) * CapLimit(i) \in strip[i].clear
  BY <1>1, CapLimitIsClear
<1>5. caps \in [1..Count -> Nat] /\ \A i \in 1..Count : caps[i] = CapLimit(i)
  BY <1>4
<1> HIDE DEF caps
<1>6. cap \in [1..Count -> Nat] /\ (\A i \in 1..Count : cap[i] <= caps[i]) /\ Gentle(cap)
  BY <1>2, <1>5, RampedIsGentle
<1> HIDE DEF cap
<1>7. \A i \in 1..Count : cap[i] \in Nat /\ cap[i] <= CapLimit(i) /\ cap[i] <= Size(offset[i])
  <2>1. ASSUME NEW i \in 1..Count
        PROVE  cap[i] \in Nat /\ cap[i] <= CapLimit(i) /\ cap[i] <= Size(offset[i])
    <3>1. cap[i] \in Nat /\ cap[i] <= CapLimit(i)
      BY <1>5, <1>6
    <3> QED
      BY <1>3, <1>4, <3>1
  <2> QED
    BY <2>1
<1>8. ASSUME NEW i \in 1..Count
      PROVE  /\ offset'[i] \in Int /\ Size(offset'[i]) = cap[i]
             /\ Side(offset[i]) * cap[i] \in Int
  <2>1. /\ Side(offset[i]) * cap[i] \in Int /\ Size(Side(offset[i]) * cap[i]) = cap[i]
    BY <1>3, <1>7, SizeOfSided
  <2>2. CASE cap[i] >= Size(offset[i])
    <3>1. offset'[i] = offset[i]
      BY <1>1, <2>2
    <3>2. cap[i] = Size(offset[i])
      BY <1>3, <1>7, <2>2
    <3> QED
      BY <1>3, <2>1, <3>1, <3>2
  <2>3. CASE ~(cap[i] >= Size(offset[i]))
    <3>1. offset'[i] = Side(offset[i]) * cap[i]
      BY <1>1, <2>3
    <3> QED
      BY <2>1, <3>1
  <2> QED
    BY <2>2, <2>3
<1>9. offset' \in Seq(Int) /\ Len(offset') = Count
  <2>1. offset' \in [1..Count -> Int]
    BY <1>1, <1>8
  <2> QED
    BY <1>2, <2>1
<1> DEFINE P == [at : 1..Count, side : Int]
<1>10. ASSUME NEW i \in 1..Count
       PROVE  (IF offset[i] = 0 THEN place[i]
               ELSE [at |-> i, side |-> Side(offset[i]) * cap[i]]) \in P
  BY <1>3, <1>8
<1> HIDE DEF P
<1>11. place' \in Seq(P) /\ Len(place') = Count
  <2>1. place' \in [1..Count -> P]
    BY <1>1, <1>10
  <2> QED
    BY <1>2, <2>1
<1>12. Level'
  <2>1. ASSUME NEW i \in 1..Count - 1
        PROVE  Size(Size(offset'[i + 1]) - Size(offset'[i])) <= Slope * Span(i)
    <3>1. i \in 1..Count /\ i + 1 \in 1..Count
      BY <1>2
    <3>2. /\ cap[i] \in Nat /\ cap[i + 1] \in Nat /\ Rise(i) \in Nat
          /\ cap[i + 1] <= cap[i] + Rise(i) /\ cap[i] <= cap[i + 1] + Rise(i)
      BY <1>6, <1>7, <3>1, RiseIsNat DEF Gentle
    <3>3. Size(cap[i + 1] - cap[i]) <= Rise(i)
      BY <3>2 DEF Size
    <3> QED
      BY <1>8, <3>1, <3>3 DEF Rise
  <2>2. \A i : Span(i)' = Span(i)
    BY <1>1 DEF Span, Moves, Count
  <2> QED
    BY <1>2, <2>1, <2>2 DEF Level
<1>13. PlacedWhereClear'
  <2>1. ASSUME NEW i \in 1..Count, Moves(i), 0 \in strip[i].clear, Plain(strip[i])
        PROVE  place'[i].side \in strip[place'[i].at].clear
    <3>1. place[i] = [at |-> i, side |-> offset[i]]
      BY <1>1, <1>2, <2>1 DEF PlacementInv
    <3>2. CASE offset[i] = 0
      <4>1. place'[i] = place[i]
        BY <1>1, <3>2
      <4> QED
        BY <2>1, <3>1, <3>2, <4>1
    <3>3. CASE offset[i] # 0
      <4> DEFINE m == Side(offset[i]) * cap[i]
                 n == Side(offset[i]) * CapLimit(i)
      <4>1. place'[i].at = i /\ place'[i].side = m
        BY <1>1, <3>3
      <4>2. n \in strip[i].clear
        BY <1>16, <2>1
      <4>3. m \in -Wide..Wide /\ m * n >= 0 /\ Size(m) <= Size(n)
        <5>1. /\ Side(offset[i]) \in {-1, 1} /\ cap[i] \in Nat /\ CapLimit(i) \in Nat
              /\ cap[i] <= CapLimit(i) /\ CapLimit(i) <= Wide
          BY <1>3, <1>4, <1>7, SizeAndSide
        <5>2. cap[i] * CapLimit(i) >= 0 /\ (-cap[i]) * (-CapLimit(i)) = cap[i] * CapLimit(i)
          BY <5>1
        <5>3. CASE Side(offset[i]) = 1
          <6>1. m = cap[i] /\ n = CapLimit(i)
            BY <5>1, <5>3
          <6> HIDE DEF m, n
          <6> QED
            BY <1>2, <5>1, <5>2, <6>1 DEF Size
        <5>4. CASE Side(offset[i]) = -1
          <6>1. m = -cap[i] /\ n = -CapLimit(i)
            BY <5>1, <5>4
          <6> HIDE DEF m, n
          <6> QED
            BY SMTT(30), <1>2, <5>1, <5>2, <6>1 DEF Size
        <5> QED
          BY <5>1, <5>3, <5>4
      <4> HIDE DEF m, n
      <4>4. m \in strip[i].clear
        BY <2>1, <4>2, <4>3 DEF Plain
      <4> QED
        BY <4>1, <4>4
    <3> QED
      BY <3>2, <3>3
  <2>2. \A i : Moves(i)' = Moves(i)
    BY <1>1 DEF Moves
  <2>3. \A i \in 1..Count : Plain(strip[i])' = Plain(strip[i])
    BY <1>1 DEF Plain
  <2> QED
    BY <1>1, <1>2, <2>1, <2>2, <2>3 DEF PlacedWhereClear
<1>14. MovesWithoutSteps'
  BY <1>1 DEF MovesWithoutSteps
<1>15. kind' \in Walks /\ pass' = "freeze" /\ strip' \in Seq(Strips) /\ Len(strip') = Count
  BY <1>1, <1>2
<1> QED
  BY <1>2, <1>9, <1>11, <1>12, <1>13, <1>14, <1>15 DEF PlacementInv, Passes, P

(* A hold continues from the same sample as the one before it.             *)
LEMMA AnchorsAgree ==
  ASSUME kind \in Walks
  PROVE  /\ \A i \in 1..Count : Anchor(i) \in 1..Count
         /\ \A i \in 1..Count - 1 : Stands(i + 1) =>
              Anchor(i + 1) = IF Stands(i) THEN Anchor(i) ELSE i
<1>1. /\ Count \in Nat \ {0} /\ \E i \in 1..Count : Moves(i)
      /\ \A i : Moves(i) => ~Stands(i)
  BY WalkHasSamples DEF Moves, Stands
<1> DEFINE Befores(i) == {j \in 1..i - 1 : ~Stands(j)}
           Afters(i) == {j \in i + 1..Count : Moves(j)}
<1>2. ASSUME NEW i \in 1..Count
      PROVE  /\ Befores(i) # {} => Max(Befores(i)) \in Befores(i)
                                   /\ \A k \in Befores(i) : k <= Max(Befores(i))
             /\ Afters(i) # {} => Min(Afters(i)) \in Afters(i)
  <2>1. /\ i - 1 \in Nat /\ i + 1 \in Nat /\ Count \in Nat /\ 1 \in Nat
        /\ Befores(i) \in SUBSET (1..i - 1) /\ Afters(i) \in SUBSET (i + 1..Count)
    BY <1>1
  <2> HIDE DEF Befores, Afters
  <2> QED
    BY <2>1, EndsOfInterval
<1>3. \A i : Anchor(i) = IF Befores(i) # {} THEN Max(Befores(i))
                         ELSE IF Afters(i) # {} THEN Min(Afters(i)) ELSE i
  BY DEF Anchor
<1>4. ASSUME NEW i \in 1..Count PROVE Anchor(i) \in 1..Count
  <2>1. Befores(i) \in SUBSET (1..Count) /\ Afters(i) \in SUBSET (1..Count)
    BY <1>1
  <2> HIDE DEF Befores, Afters
  <2> QED
    BY <1>2, <1>3, <2>1
<1>5. ASSUME NEW i \in 1..Count - 1, Stands(i + 1)
      PROVE  Anchor(i + 1) = IF Stands(i) THEN Anchor(i) ELSE i
  <2>1. i \in 1..Count /\ i + 1 \in 1..Count /\ (i + 1) - 1 = i /\ (i + 1) + 1 = i + 2
    BY <1>1
  <2>2. CASE ~Stands(i)
    <3>1. i \in Befores(i + 1) /\ \A k \in Befores(i + 1) : k \in Nat /\ k <= i
      BY <2>1, <2>2
    <3>2. Max(Befores(i + 1)) \in Befores(i + 1) /\ i <= Max(Befores(i + 1))
      BY <1>2, <2>1, <3>1
    <3> HIDE DEF Befores
    <3>3. Max(Befores(i + 1)) = i
      BY <2>1, <3>1, <3>2
    <3> QED
      BY <1>3, <2>2, <3>1, <3>3
  <2>3. CASE Stands(i)
    <3>1. Befores(i + 1) = Befores(i)
      <4>1. \A j : j \in 1..(i + 1) - 1 /\ ~Stands(j) <=> j \in 1..i - 1 /\ ~Stands(j)
        BY <2>1, <2>3
      <4> QED
        BY <4>1
    <3>2. Afters(i + 1) = Afters(i)
      <4>1. ~Moves(i + 1)
        BY <1>1, <1>5
      <4>2. \A j : j \in (i + 1) + 1..Count /\ Moves(j) <=> j \in i + 1..Count /\ Moves(j)
        BY <2>1, <4>1
      <4> QED
        BY <4>2
    <3>3. Befores(i) # {} \/ Afters(i) # {}
      <4>1. PICK k \in 1..Count : Moves(k)
        BY <1>1
      <4>2. ~Stands(k) /\ k # i
        BY <1>1, <2>3, <4>1
      <4>3. k \in 1..i - 1 \/ k \in i + 1..Count
        BY <1>1, <2>1, <4>2
      <4> QED
        BY <4>1, <4>2, <4>3
    <3> HIDE DEF Befores, Afters
    <3> QED
      BY <1>3, <2>3, <3>1, <3>2, <3>3
  <2> QED
    BY <2>2, <2>3
<1> QED
  BY <1>4, <1>5

LEMMA FreezePlacement == ASSUME PlacementInv, FreezeStands PROVE PlacementInv'
<1>1. /\ pass = "freeze" /\ pass' = "done" /\ kind' = kind /\ strip' = strip
      /\ offset' = [i \in 1..Count |-> IF Stands(i) THEN offset[Anchor(i)] ELSE offset[i]]
      /\ place' = [i \in 1..Count |-> IF Stands(i) THEN place[Anchor(i)] ELSE place[i]]
  BY DEF FreezeStands
<1>2. /\ Count \in Nat \ {0} /\ Count' = Count
      /\ strip \in Seq(Strips) /\ Len(strip) = Count /\ kind \in Walks
  BY <1>1, InvFacts DEF PlacementInv, Count
<1> DEFINE P == [at : 1..Count, side : Int]
<1>3. \A i \in 1..Count : offset[i] \in Int /\ place[i] \in P
  BY <1>1, <1>2, InvFacts
<1> HIDE DEF P
<1>4. /\ \A i \in 1..Count : Anchor(i) \in 1..Count
      /\ \A i \in 1..Count - 1 : Stands(i + 1) =>
           Anchor(i + 1) = IF Stands(i) THEN Anchor(i) ELSE i
  BY <1>2, AnchorsAgree
<1>5. \A i : /\ Moves(i)' = Moves(i) /\ Stands(i)' = Stands(i) /\ Span(i)' = Span(i)
             /\ Moves(i) => ~Stands(i)
  BY <1>1 DEF Moves, Stands, Span, Count
<1>6. offset' \in Seq(Int) /\ Len(offset') = Count
  <2>1. offset' \in [1..Count -> Int]
    BY <1>1, <1>3, <1>4
  <2> QED
    BY <1>2, <2>1
<1>7. place' \in Seq(P) /\ Len(place') = Count
  <2>1. place' \in [1..Count -> P]
    BY <1>1, <1>3, <1>4
  <2> QED
    BY <1>2, <2>1
<1>8. PlacedWhereClear'
  <2>1. ASSUME NEW i \in 1..Count, Moves(i), 0 \in strip[i].clear, Plain(strip[i])
        PROVE  place'[i].side \in strip[place'[i].at].clear
    <3>1. place'[i] = place[i]
      BY <1>1, <1>5, <2>1
    <3>2. place[i].side \in strip[place[i].at].clear
      BY <1>1, <2>1 DEF PlacementInv, PlacedWhereClear
    <3> QED
      BY <3>1, <3>2
  <2>2. \A i \in 1..Count : Plain(strip[i])' = Plain(strip[i])
    BY <1>1 DEF Plain
  <2> QED
    BY <1>1, <1>2, <1>5, <2>1, <2>2 DEF PlacedWhereClear
<1>9. MovesWithoutSteps'
  <2>1. ASSUME NEW i \in 1..Count - 1
        PROVE  /\ ~Stands(i) /\ ~Stands(i + 1) =>
                    Size(Size(offset'[i + 1]) - Size(offset'[i])) <= Slope * Span(i)
               /\ Stands(i + 1) => place'[i + 1] = place'[i]
    <3>1. i \in 1..Count /\ i + 1 \in 1..Count
      BY <1>2
    <3>2. ASSUME ~Stands(i), ~Stands(i + 1)
          PROVE  Size(Size(offset'[i + 1]) - Size(offset'[i])) <= Slope * Span(i)
      <4>1. offset'[i] = offset[i] /\ offset'[i + 1] = offset[i + 1]
        BY <1>1, <3>1, <3>2
      <4>2. Size(Size(offset[i + 1]) - Size(offset[i])) <= Slope * Span(i)
        BY <1>1 DEF PlacementInv, Level
      <4> QED
        BY <4>1, <4>2
    <3>3. ASSUME Stands(i + 1) PROVE place'[i + 1] = place'[i]
      <4>1. place'[i + 1] = place[Anchor(i + 1)]
        BY <1>1, <3>1, <3>3
      <4>2. Anchor(i + 1) = IF Stands(i) THEN Anchor(i) ELSE i
        BY <1>4, <3>3
      <4>3. place'[i] = IF Stands(i) THEN place[Anchor(i)] ELSE place[i]
        BY <1>1, <3>1
      <4> QED
        BY <4>1, <4>2, <4>3
    <3> QED
      BY <3>2, <3>3
  <2> QED
    BY <1>2, <1>5, <2>1 DEF MovesWithoutSteps
<1>10. kind' \in Walks /\ pass' = "done" /\ strip' \in Seq(Strips) /\ Len(strip') = Count
  BY <1>1, <1>2
<1> QED
  BY <1>2, <1>6, <1>7, <1>8, <1>9, <1>10 DEF PlacementInv, Passes, P

LEMMA StillPlacement == ASSUME PlacementInv, UNCHANGED placementVars PROVE PlacementInv'
<1>1. /\ pass' = pass /\ kind' = kind /\ strip' = strip /\ drift' = drift
      /\ offset' = offset /\ place' = place
  BY DEF placementVars
<1>2. Count' = Count /\ \A i : Moves(i)' = Moves(i) /\ Stands(i)' = Stands(i) /\ Span(i)' = Span(i)
  BY <1>1 DEF Count, Moves, Stands, Span
<1>3. /\ PlacedWhereClear' = PlacedWhereClear
      /\ MovesWithoutSteps' = MovesWithoutSteps /\ Level' = Level
  BY <1>1, <1>2 DEF PlacedWhereClear, Plain, MovesWithoutSteps, Level
<1> QED
  BY <1>1, <1>2, <1>3 DEF PlacementInv

(* For any walk, drift and ground: the samples that move are placed across *)
(* their own strips until the holds are frozen, and what was capped is     *)
(* level along the arc.                                                    *)
THEOREM PassesAgree == PlacementSpec => []PlacementInv
<1>1. PlacementInit => PlacementInv
  BY FirstPlacement
<1>2. PlacementInv /\ [PlacementNext]_placementVars => PlacementInv'
  BY DrawPlacement, DrewPlacement, TurnsPlacement, BoundPlacement, CapPlacement,
     FreezePlacement, StillPlacement DEF PlacementNext
<1> QED
  BY <1>1, <1>2, PTL DEF PlacementSpec

(* What five passes leave of the offsets is clear of obstacles wherever the*)
(* centre is, on ground without gaps, and free of jumps along the arc.     *)
THEOREM OffsetsAreSound == PlacementSpec => []PlacedSoundly
<1>1. PlacementInv => PlacedSoundly
  BY DEF PlacementInv, PlacedSoundly
<1> QED
  BY <1>1, PassesAgree, PTL

-----------------------------------------------------------------------------
(* A finite set in an order that leaves no ties (MotionWalk).              *)

(* What comes before r in S.                                               *)
Ahead(S, R, r) == {q \in S : <<q, r>> \in R}

(* The members of S by how many come before them, and an order without ties. *)
InRank(S, R) ==
  [k \in 1..Cardinality(S) |-> CHOOSE r \in S : Cardinality(Ahead(S, R, r)) = k - 1]

IsTotal(S, R) ==
  /\ \A a \in S : <<a, a>> \notin R
  /\ \A a, b, c \in S : <<a, b>> \in R /\ <<b, c>> \in R => <<a, c>> \in R
  /\ \A a, b \in S : a # b => <<a, b>> \in R \/ <<b, a>> \in R

(* s is the members of S, each once, in the order R.                       *)
Lists(s, S, R) ==
  /\ s \in Seq(S) /\ Len(s) = Cardinality(S)
  /\ \A r \in S : \E k \in 1..Len(s) : s[k] = r
  /\ \A i, j \in 1..Len(s) : i < j => <<s[i], s[j]>> \in R

(* The members of a finite set are listed by how many come before them.    *)
LEMMA RankLists ==
  ASSUME NEW S, IsFiniteSet(S), NEW R, IsTotal(S, R)
  PROVE  Lists(InRank(S, R), S, R)
<1> DEFINE C(r) == Cardinality(Ahead(S, R, r))
           n == Cardinality(S)
<1>1. n \in Nat
  BY FS_CardinalityType
<1>2. \A r \in S : IsFiniteSet(Ahead(S, R, r)) /\ C(r) \in Nat
  <2>1. ASSUME NEW r \in S PROVE IsFiniteSet(Ahead(S, R, r)) /\ C(r) \in Nat
    <3>1. Ahead(S, R, r) \in SUBSET S
      BY DEF Ahead
    <3>2. IsFiniteSet(Ahead(S, R, r))
      BY <3>1, FS_Subset
    <3> QED
      BY <3>2, FS_CardinalityType
  <2> QED
    BY <2>1
<1>3. \A r \in S : C(r) < n
  <2>1. ASSUME NEW r \in S PROVE C(r) < n
    <3>1. Ahead(S, R, r) \in SUBSET S /\ r \notin Ahead(S, R, r)
      BY DEF Ahead, IsTotal
    <3>2. C(r) <= n /\ (n = C(r) => S = Ahead(S, R, r))
      BY <3>1, FS_Subset
    <3>3. n # C(r)
      BY <3>1, <3>2
    <3> QED
      BY <1>1, <1>2, <3>2, <3>3
  <2> QED
    BY <2>1
<1>4. \A a, b \in S : <<a, b>> \in R => C(a) < C(b)
  <2>1. ASSUME NEW a \in S, NEW b \in S, <<a, b>> \in R PROVE C(a) < C(b)
    <3>1. Ahead(S, R, a) \in SUBSET Ahead(S, R, b)
      BY <2>1 DEF Ahead, IsTotal
    <3>2. a \notin Ahead(S, R, a) /\ a \in Ahead(S, R, b)
      BY <2>1 DEF Ahead, IsTotal
    <3>3. IsFiniteSet(Ahead(S, R, b))
      BY <1>2
    <3>4. C(a) <= C(b) /\ (C(b) = C(a) => Ahead(S, R, b) = Ahead(S, R, a))
      BY <3>1, <3>3, FS_Subset
    <3>5. C(b) # C(a)
      BY <3>2, <3>4
    <3> QED
      BY <1>2, <3>4, <3>5
  <2> QED
    BY <2>1
<1>5. \A a, b \in S : C(a) = C(b) => a = b
  <2>1. ASSUME NEW a \in S, NEW b \in S, C(a) = C(b), a # b PROVE FALSE
    <3>1. <<a, b>> \in R \/ <<b, a>> \in R
      BY <2>1 DEF IsTotal
    <3>2. C(a) < C(b) \/ C(b) < C(a)
      BY <1>4, <3>1
    <3> QED
      BY <1>2, <2>1, <3>2
  <2> QED
    BY <2>1
<1> HIDE DEF C, n
<1>6. \A k \in 1..n : \E r \in S : C(r) = k - 1
  <2> DEFINE f == [r \in S |-> C(r) + 1]
  <2>1. f \in [S -> 1..n]
    BY <1>1, <1>2, <1>3
  <2>2. \A a, b \in S : f[a] = f[b] => a = b
    BY <1>2, <1>5
  <2>3. f \in Injection(S, 1..n)
    BY <2>1, <2>2 DEF Injection, IsInjective
  <2>4. IsFiniteSet(1..n) /\ Cardinality(1..n) = n
    BY <1>1, FS_Interval
  <2> HIDE DEF f
  <2>5. f \in Surjection(S, 1..n)
    BY <2>3, <2>4, FS_Injection DEF n
  <2>6. \A k \in 1..n : \E r \in S : f[r] = k
    BY <2>5 DEF Surjection
  <2>7. \A r \in S : f[r] = C(r) + 1
    BY DEF f
  <2>8. ASSUME NEW k \in 1..n PROVE \E r \in S : C(r) = k - 1
    <3>1. PICK r \in S : f[r] = k
      BY <2>6
    <3>2. C(r) = k - 1
      BY <1>2, <2>7, <3>1
    <3> QED
      BY <3>2
  <2> QED
    BY <2>8
<1> DEFINE s == InRank(S, R)
<1>7. s = [k \in 1..n |-> CHOOSE r \in S : C(r) = k - 1]
  BY DEF InRank, C, n
<1> HIDE DEF s
<1>8. \A k \in 1..n : s[k] \in S /\ C(s[k]) = k - 1
  <2>1. ASSUME NEW k \in 1..n PROVE s[k] \in S /\ C(s[k]) = k - 1
    <3>1. s[k] = CHOOSE r \in S : C(r) = k - 1
      BY <1>7
    <3>2. \E r \in S : C(r) = k - 1
      BY <1>6
    <3> QED
      BY <3>1, <3>2
  <2> QED
    BY <2>1
<1>9. s \in Seq(S) /\ Len(s) = n
  <2>1. s \in [1..n -> S]
    BY <1>7, <1>8
  <2> QED
    BY <1>1, <2>1
<1>10. ASSUME NEW r \in S PROVE \E k \in 1..n : s[k] = r
  <2> DEFINE k == C(r) + 1
  <2>1. k \in 1..n /\ k - 1 = C(r)
    BY <1>1, <1>2, <1>3
  <2> HIDE DEF k
  <2>2. s[k] \in S /\ C(s[k]) = C(r)
    BY <1>8, <2>1
  <2> QED
    BY <1>5, <2>1, <2>2
<1>11. ASSUME NEW i \in 1..n, NEW j \in 1..n, i < j PROVE <<s[i], s[j]>> \in R
  <2>1. s[i] \in S /\ s[j] \in S /\ C(s[i]) = i - 1 /\ C(s[j]) = j - 1
    BY <1>8
  <2>2. s[i] # s[j] /\ ~(C(s[j]) < C(s[i]))
    BY <1>1, <1>11, <2>1
  <2>3. <<s[i], s[j]>> \in R \/ <<s[j], s[i]>> \in R
    BY <2>1, <2>2 DEF IsTotal
  <2> QED
    BY <1>4, <2>1, <2>2, <2>3
<1> QED
  BY <1>9, <1>10, <1>11 DEF Lists, n, s

(* The requests in the order of their places, the dwells before the        *)
(* reversals, and the reversals in the order in which they are turned.     *)
RequestOrder(S) == {p \in S \X S : p[1].s < p[2].s \/ (p[1].s = p[2].s /\ p[1].d > p[2].d)}
TurnOrder(S) == {p \in S \X S : p[1].s < p[2].s \/ (p[1].s = p[2].s /\ p[1].of < p[2].of)}

(* What is registered is the requests in that order.                        *)
LEMMA RegisteredLists ==
  ASSUME NEW dwells \in SUBSET [s : Nat, d : Nat], NEW turns \in SUBSET Nat,
         IsFiniteSet(dwells), IsFiniteSet(turns)
  PROVE  LET S == dwells \cup {[s |-> t, d |-> 0] : t \in turns}
         IN  Lists(Registered(dwells, turns), S, RequestOrder(S))
<1> DEFINE S == dwells \cup {[s |-> t, d |-> 0] : t \in turns}
           R == RequestOrder(S)
<1>1. IsFiniteSet(S)
  <2>1. IsFiniteSet({[s |-> t, d |-> 0] : t \in turns})
    <3> DEFINE T == {[s |-> t, d |-> 0] : t \in turns}
               f == [t \in turns |-> [s |-> t, d |-> 0]]
    <3>1. f \in Surjection(turns, T)
      BY DEF Surjection
    <3> QED
      BY <3>1, FS_Surjection
  <2> QED
    BY <2>1, FS_Union
<1>2. S \in SUBSET [s : Nat, d : Nat]
  OBVIOUS
<1> HIDE DEF S
<1>3. \A a, b \in S : <<a, b>> \in R <=> a.s < b.s \/ (a.s = b.s /\ a.d > b.d)
  BY DEF RequestOrder
<1> HIDE DEF R
<1>4. IsTotal(S, R)
  <2>1. \A a \in S : a = [s |-> a.s, d |-> a.d] /\ a.s \in Nat /\ a.d \in Nat
    BY <1>2
  <2>2. \A a \in S : <<a, a>> \notin R
    BY <1>3, <2>1
  <2>3. \A a, b, c \in S : <<a, b>> \in R /\ <<b, c>> \in R => <<a, c>> \in R
    BY <1>3, <2>1
  <2>4. \A a, b \in S : a # b => <<a, b>> \in R \/ <<b, a>> \in R
    <3>1. ASSUME NEW a \in S, NEW b \in S, a # b PROVE <<a, b>> \in R \/ <<b, a>> \in R
      <4>1. a.s # b.s \/ a.d # b.d
        BY <2>1, <3>1
      <4> QED
        BY <1>3, <2>1, <4>1
    <3> QED
      BY <3>1
  <2> QED
    BY <2>2, <2>3, <2>4 DEF IsTotal
<1>5. Registered(dwells, turns) = InRank(S, R)
  <2>1. \A r \in S : Ahead(S, R, r) = {q \in S : q.s < r.s \/ (q.s = r.s /\ q.d > r.d)}
    BY <1>3 DEF Ahead
  <2>2. Registered(dwells, turns) =
          [k \in 1..Cardinality(S) |->
             CHOOSE r \in S : Cardinality({q \in S : q.s < r.s \/ (q.s = r.s /\ q.d > r.d)}) = k - 1]
    BY DEF Registered, Sorted, S
  <2> QED
    BY <2>1, <2>2 DEF InRank
<1>6. Lists(InRank(S, R), S, R)
  BY <1>1, <1>4, RankLists
<1> QED
  BY <1>5, <1>6 DEF S, R

-----------------------------------------------------------------------------
(* The sample nearest to a place (MotionWalk).                             *)

(* The Min of the library is the least member.                              *)
LEMMA MinIs ==
  ASSUME NEW T \in SUBSET Nat, T # {}
  PROVE  Min(T) \in T /\ \A m \in T : Min(T) <= m
<1>1. \E n \in T : \A m \in T : n <= m
  BY LeastNatural
<1> QED
  BY <1>1 DEF Min

(* The distance between two places.                                         *)
LEMMA GapIs ==
  \A x, y \in Int : /\ Gap(x, y) \in Nat
                    /\ Gap(x, y) = IF x < y THEN y - x ELSE x - y
                    /\ Gap(x, y) = Gap(y, x)
  BY DEF Gap

(* The sample at or below a place is less than an interval away.           *)
LEMMA SampleBelow ==
  ASSUME NEW total \in Nat, NEW x \in 0..total
  PROVE  \E y \in Samples(total) : y \in 0..total /\ Gap(x, y) < Spacing
<1>1. Spacing \in Nat \ {0}
  BY WalkAssumption
<1> DEFINE r == x % Spacing
<1>2. r \in 0..Spacing - 1 /\ x = Spacing * (x \div Spacing) + r /\ x \div Spacing \in Int
  BY <1>1
<1>3. x \div Spacing \in Nat
  BY <1>1, <1>2
<1>4. (Spacing * (x \div Spacing)) % Spacing = 0
  BY <1>1, <1>3
<1>5. x - r \in 0..total /\ (x - r) % Spacing = 0 /\ Gap(x, x - r) < Spacing
  BY <1>1, <1>2, <1>3, <1>4 DEF Gap
<1> QED
  BY <1>5 DEF Samples

(* The sample a stop is moved to is the nearest one, the lower on a tie.    *)
LEMMA NearestIs ==
  ASSUME NEW total \in Nat, NEW x \in 0..total
  PROVE  LET y == NearestSample(x, total)
         IN  /\ y \in Samples(total) /\ y \in 0..total /\ Gap(x, y) < Spacing
             /\ \A z \in Samples(total) :
                  Gap(x, y) <= Gap(x, z) /\ (Gap(x, z) = Gap(x, y) => y <= z)
<1> DEFINE G == {Gap(x, z) : z \in Samples(total)}
           T == {y \in Samples(total) : \A z \in Samples(total) : Gap(x, y) <= Gap(x, z)}
<1>1. Samples(total) \in SUBSET (0..total) /\ total \in Samples(total)
  BY DEF Samples
<1>2. G \in SUBSET Nat /\ G # {}
  <2>1. \A z \in Samples(total) : Gap(x, z) \in Nat
    <3>1. ASSUME NEW z \in Samples(total) PROVE Gap(x, z) \in Nat
      <4>1. z \in Int /\ x \in Int
        BY <1>1
      <4> QED
        BY <4>1, GapIs
    <3> QED
      BY <3>1
  <2> QED
    BY <1>1, <2>1
<1>3. PICK g \in G : \A h \in G : g <= h
  <2> HIDE DEF G
  <2> QED
    BY <1>2, LeastNatural
<1>4. T # {} /\ T \in SUBSET Nat
  BY <1>1, <1>3
<1>5. NearestSample(x, total) = Min(T)
  BY DEF NearestSample
<1>6. Min(T) \in T /\ \A m \in T : Min(T) <= m
  <2> HIDE DEF T
  <2> QED
    BY <1>4, MinIs
<1> DEFINE y == Min(T)
<1>7. y \in Samples(total) /\ \A z \in Samples(total) : Gap(x, y) <= Gap(x, z)
  BY <1>6
<1>8. \A z \in Samples(total) : Gap(x, z) = Gap(x, y) => y <= z
  BY <1>6, <1>7
<1> HIDE DEF y, T, G
<1>9. Gap(x, y) < Spacing
  <2>1. PICK z \in Samples(total) : Gap(x, z) < Spacing
    BY SampleBelow
  <2>2. Gap(x, y) <= Gap(x, z) /\ Gap(x, y) \in Nat /\ Gap(x, z) \in Nat /\ Spacing \in Nat
    BY <1>1, <1>7, GapIs, WalkAssumption
  <2> QED
    BY <2>1, <2>2
<1> QED
  BY <1>1, <1>5, <1>7, <1>8, <1>9 DEF y

(* Places in order are moved to samples in order.                          *)
LEMMA NearestRises ==
  ASSUME NEW total \in Nat, NEW x \in 0..total, NEW w \in 0..total, x <= w
  PROVE  NearestSample(x, total) <= NearestSample(w, total)
<1> DEFINE a == NearestSample(x, total)
           b == NearestSample(w, total)
<1>1. /\ a \in Samples(total) /\ a \in 0..total
      /\ \A z \in Samples(total) : Gap(x, a) <= Gap(x, z) /\ (Gap(x, z) = Gap(x, a) => a <= z)
  BY NearestIs
<1>2. /\ b \in Samples(total) /\ b \in 0..total
      /\ \A z \in Samples(total) : Gap(w, b) <= Gap(w, z) /\ (Gap(w, z) = Gap(w, b) => b <= z)
  BY NearestIs
<1> HIDE DEF a, b
<1>3. Gap(x, a) <= Gap(x, b) /\ (Gap(x, b) = Gap(x, a) => a <= b)
  BY <1>1, <1>2
<1>4. Gap(w, b) <= Gap(w, a)
  BY <1>1, <1>2
<1> QED
  BY <1>1, <1>2, <1>3, <1>4 DEF Gap, a, b

(* A sample is moved to itself.                                            *)
LEMMA NearestIsSample ==
  ASSUME NEW total \in Nat, NEW y \in Samples(total)
  PROVE  NearestSample(y, total) = y
<1>1. y \in 0..total
  BY DEF Samples
<1>2. /\ NearestSample(y, total) \in 0..total
      /\ Gap(y, NearestSample(y, total)) <= Gap(y, y)
  BY <1>1, NearestIs
<1> QED
  BY <1>1, <1>2 DEF Gap

-----------------------------------------------------------------------------
(* The sum of the durations of a set of dwells (MotionWalk).               *)

(* What the dwells of a set last together.                                 *)
Sum(T) == MapThenSumSet(LAMBDA r : r.d, T)

First(T) == CHOOSE x \in T : TRUE

(* The function the sum over a set is defined by, on some of its subsets.  *)
AddsTo(f, D) ==
  f = [T \in D |-> IF T = {} THEN 0 ELSE First(T).d + f[T \ {First(T)}]]

(* ... on all of them.                                                     *)
Sums(f, S) == AddsTo(f, SUBSET S)

UpTo(S, k) == {T \in SUBSET S : Cardinality(T) <= k}

(* A finite set without one of its members.                                 *)
LEMMA Smaller ==
  ASSUME NEW T, IsFiniteSet(T), NEW x \in T
  PROVE  /\ IsFiniteSet(T \ {x}) /\ Cardinality(T) \in Nat /\ Cardinality(T \ {x}) \in Nat
         /\ Cardinality(T) = Cardinality(T \ {x}) + 1
<1>1. IsFiniteSet(T \ {x}) /\ Cardinality(T \ {x}) = Cardinality(T) - 1
  BY FS_RemoveElement
<1>2. Cardinality(T) \in Nat /\ Cardinality(T \ {x}) \in Nat
  BY <1>1, FS_CardinalityType
<1> QED
  BY <1>1, <1>2

(* A function that adds up the subsets of a finite set exists.              *)
LEMMA AddingExists ==
  ASSUME NEW S, IsFiniteSet(S)
  PROVE  \E f : Sums(f, S)
<1> DEFINE Has == {k \in Nat : \E f : AddsTo(f, UpTo(S, k))}
<1>0. \A T \in SUBSET S : IsFiniteSet(T) /\ Cardinality(T) \in Nat
  BY FS_Subset, FS_CardinalityType
<1>1. 0 \in Has
  <2> DEFINE f == [T \in UpTo(S, 0) |-> 0]
  <2>1. \A T \in UpTo(S, 0) : T = {}
    <3>1. ASSUME NEW T \in UpTo(S, 0) PROVE T = {}
      <4>1. IsFiniteSet(T) /\ Cardinality(T) = 0
        BY <1>0 DEF UpTo
      <4> QED
        BY <4>1, FS_EmptySet
    <3> QED
      BY <3>1
  <2>2. AddsTo(f, UpTo(S, 0))
    BY <2>1 DEF AddsTo
  <2> QED
    BY <2>2
<1>2. ASSUME NEW k \in Nat, k \in Has PROVE k + 1 \in Has
  <2>1. PICK f : AddsTo(f, UpTo(S, k))
    BY <1>2
  <2> DEFINE g == [T \in UpTo(S, k + 1) |->
                     IF T = {} THEN 0 ELSE First(T).d + f[T \ {First(T)}]]
  <2>2. ASSUME NEW T \in UpTo(S, k + 1), T # {}
        PROVE  T \ {First(T)} \in UpTo(S, k) /\ T \ {First(T)} \in UpTo(S, k + 1)
    <3>1. First(T) \in T
      BY <2>2 DEF First
    <3>2. T \in SUBSET S /\ Cardinality(T) <= k + 1
      BY DEF UpTo
    <3>3. Cardinality(T \ {First(T)}) <= k /\ Cardinality(T \ {First(T)}) <= k + 1
      BY <1>0, <3>1, <3>2, Smaller
    <3> QED
      BY <3>2, <3>3 DEF UpTo
  <2>3. \A T \in UpTo(S, k) : T \in UpTo(S, k + 1)
    BY <1>0 DEF UpTo
  <2>4. ASSUME NEW T \in UpTo(S, k) PROVE g[T] = f[T]
    <3>1. f[T] = IF T = {} THEN 0 ELSE First(T).d + f[T \ {First(T)}]
      BY <2>1 DEF AddsTo
    <3> QED
      BY <2>3, <3>1
  <2>5. g = [T \in UpTo(S, k + 1) |-> IF T = {} THEN 0 ELSE First(T).d + g[T \ {First(T)}]]
    <3> DEFINE h == [T \in UpTo(S, k + 1) |-> IF T = {} THEN 0 ELSE First(T).d + g[T \ {First(T)}]]
    <3>1. ASSUME NEW T \in UpTo(S, k + 1) PROVE g[T] = h[T]
      <4>1. CASE T = {}
        BY <4>1
      <4>2. CASE T # {}
        <5>1. g[T \ {First(T)}] = f[T \ {First(T)}]
          BY <2>2, <2>4, <4>2
        <5>2. g[T] = First(T).d + f[T \ {First(T)}]
          BY <4>2
        <5>3. h[T] = First(T).d + g[T \ {First(T)}]
          BY <4>2
        <5> QED
          BY <5>1, <5>2, <5>3
      <4> QED
        BY <4>1, <4>2
    <3>2. \A T \in UpTo(S, k + 1) : g[T] = h[T]
      BY <3>1
    <3>3. DOMAIN g = UpTo(S, k + 1) /\ g = [T \in DOMAIN g |-> g[T]]
      OBVIOUS
    <3>4. DOMAIN h = UpTo(S, k + 1) /\ h = [T \in DOMAIN h |-> h[T]]
      OBVIOUS
    <3> HIDE DEF g, h
    <3>5. g = h
      BY <3>2, <3>3, <3>4
    <3> QED
      BY <3>5 DEF h
  <2> HIDE DEF g
  <2> QED
    BY <2>5 DEF AddsTo
<1> HIDE DEF Has
<1>3. Cardinality(S) \in Has
  BY <1>0, <1>1, <1>2, InductionOnNat
<1>4. UpTo(S, Cardinality(S)) = SUBSET S
  BY FS_Subset DEF UpTo
<1> QED
  BY <1>3, <1>4 DEF Has, Sums

(* There is only one such function.                                        *)
LEMMA AddingAgrees ==
  ASSUME NEW S, NEW U, NEW f, NEW g, Sums(f, S), Sums(g, U)
  PROVE  \A T \in (SUBSET S) \cap (SUBSET U) : IsFiniteSet(T) => f[T] = g[T]
<1> DEFINE Has == {k \in Nat : \A T \in (SUBSET S) \cap (SUBSET U) :
                     IsFiniteSet(T) /\ Cardinality(T) = k => f[T] = g[T]}
<1>0. \A T \in SUBSET S : f[T] = IF T = {} THEN 0 ELSE First(T).d + f[T \ {First(T)}]
  BY DEF AddsTo, Sums
<1>00. \A T \in SUBSET U : g[T] = IF T = {} THEN 0 ELSE First(T).d + g[T \ {First(T)}]
  BY DEF AddsTo, Sums
<1>1. 0 \in Has
  <2>1. ASSUME NEW T \in (SUBSET S) \cap (SUBSET U), IsFiniteSet(T), Cardinality(T) = 0
        PROVE  f[T] = g[T]
    <3>1. T = {}
      BY <2>1, FS_EmptySet
    <3> QED
      BY <1>0, <1>00, <3>1
  <2> QED
    BY <2>1
<1>2. ASSUME NEW k \in Nat, k \in Has PROVE k + 1 \in Has
  <2>1. ASSUME NEW T \in (SUBSET S) \cap (SUBSET U), IsFiniteSet(T), Cardinality(T) = k + 1
        PROVE  f[T] = g[T]
    <3>1. T # {}
      BY <2>1, FS_EmptySet
    <3>2. First(T) \in T
      BY <3>1 DEF First
    <3>3. IsFiniteSet(T \ {First(T)}) /\ Cardinality(T \ {First(T)}) = k
      BY <2>1, <3>2, Smaller
    <3>4. f[T \ {First(T)}] = g[T \ {First(T)}]
      BY <1>2, <3>3
    <3> QED
      BY <1>0, <1>00, <3>1, <3>4
  <2> QED
    BY <2>1
<1> HIDE DEF Has
<1>3. Nat \subseteq Has
  BY <1>1, <1>2, InductionOnNat
<1> QED
  BY <1>3, FS_CardinalityType DEF Has

(* The sum, one dwell at a time.                                           *)
LEMMA SumStep ==
  /\ Sum({}) = 0
  /\ \A T : IsFiniteSet(T) /\ T # {} => Sum(T) = First(T).d + Sum(T \ {First(T)})
<1> DEFINE F(S) == CHOOSE f : Sums(f, S)
<1>1. \A S : Sum(S) = F(S)[S]
  BY DEF Sum, MapThenSumSet, MapThenFoldSet, AddsTo, Sums, First
<1>2. \A S : IsFiniteSet(S) => Sums(F(S), S)
  BY AddingExists
<1> HIDE DEF F
<1>3. Sum({}) = 0
  BY <1>1, <1>2, FS_EmptySet DEF AddsTo, Sums
<1>4. ASSUME NEW T, IsFiniteSet(T), T # {} PROVE Sum(T) = First(T).d + Sum(T \ {First(T)})
  <2> DEFINE R == T \ {First(T)}
  <2>1. IsFiniteSet(R)
    BY <1>4, FS_Subset
  <2>2. F(T)[T] = First(T).d + F(T)[R]
    BY <1>2, <1>4 DEF AddsTo, Sums
  <2>3. R \in (SUBSET T) \cap (SUBSET R) /\ Sums(F(T), T) /\ Sums(F(R), R)
    BY <1>2, <1>4, <2>1
  <2> HIDE DEF R
  <2>4. ASSUME NEW f, NEW g, Sums(f, T), Sums(g, R) PROVE f[R] = g[R]
    <3>1. \A V \in (SUBSET T) \cap (SUBSET R) : IsFiniteSet(V) => f[V] = g[V]
      BY <2>4, AddingAgrees
    <3> QED
      BY <2>1, <2>3, <3>1
  <2>5. F(T)[R] = F(R)[R]
    BY <2>3, <2>4
  <2> QED
    BY <1>1, <2>2, <2>5 DEF R
<1> QED
  BY <1>3, <1>4

(* A sum of durations is a number.                                          *)
LEMMA SumIsNat ==
  ASSUME NEW T \in SUBSET [s : Nat, d : Nat], IsFiniteSet(T)
  PROVE  \A U \in SUBSET T : Sum(U) \in Nat
<1> DEFINE Has == {k \in Nat : \A U \in SUBSET T : Cardinality(U) = k => Sum(U) \in Nat}
<1>0. \A U \in SUBSET T : IsFiniteSet(U) /\ Cardinality(U) \in Nat
  BY FS_Subset, FS_CardinalityType
<1>00. \A x \in T : x.d \in Nat
  OBVIOUS
<1>1. 0 \in Has
  <2>1. ASSUME NEW U \in SUBSET T, Cardinality(U) = 0 PROVE Sum(U) \in Nat
    <3>1. U = {}
      BY <1>0, <2>1, FS_EmptySet
    <3> QED
      BY <3>1, SumStep
  <2> QED
    BY <2>1
<1>2. ASSUME NEW k \in Nat, k \in Has PROVE k + 1 \in Has
  <2>1. ASSUME NEW U \in SUBSET T, Cardinality(U) = k + 1 PROVE Sum(U) \in Nat
    <3> DEFINE c == First(U)
    <3>1. U # {} /\ IsFiniteSet(U)
      BY <1>0, <2>1, FS_EmptySet
    <3>2. c \in U /\ Sum(U) = c.d + Sum(U \ {c})
      BY <3>1, SumStep DEF First
    <3> HIDE DEF c
    <3>3. U \ {c} \in SUBSET T /\ Cardinality(U \ {c}) = k
      <4>1. Cardinality(U \ {c}) \in Nat /\ Cardinality(U) = Cardinality(U \ {c}) + 1
        BY <3>1, <3>2, Smaller
      <4> QED
        BY <2>1, <4>1
    <3>4. Sum(U \ {c}) \in Nat
      BY <1>2, <3>3
    <3> QED
      BY <1>00, <3>2, <3>4
  <2> QED
    BY <2>1
<1> HIDE DEF Has
<1>3. Nat \subseteq Has
  BY <1>1, <1>2, InductionOnNat
<1> QED
  BY <1>0, <1>3 DEF Has

(* Any of the dwells may be the last one added.                            *)
LEMMA SumOfMore ==
  ASSUME NEW T \in SUBSET [s : Nat, d : Nat], IsFiniteSet(T)
  PROVE  Sum(T) \in Nat /\ \A x \in T : Sum(T) = x.d + Sum(T \ {x})
<1> DEFINE Has == {k \in Nat : \A U \in SUBSET T : Cardinality(U) = k =>
                     Sum(U) \in Nat /\ \A x \in U : Sum(U) = x.d + Sum(U \ {x})}
<1>0. \A U \in SUBSET T : IsFiniteSet(U) /\ Cardinality(U) \in Nat
  BY FS_Subset, FS_CardinalityType
<1>00. \A x \in T : x.d \in Nat
  OBVIOUS
<1>1. 0 \in Has
  <2>1. ASSUME NEW U \in SUBSET T, Cardinality(U) = 0
        PROVE Sum(U) \in Nat /\ \A x \in U : Sum(U) = x.d + Sum(U \ {x})
    <3>1. U = {}
      BY <1>0, <2>1, FS_EmptySet
    <3> QED
      BY <3>1, SumStep
  <2> QED
    BY <2>1
<1>2. ASSUME NEW k \in Nat, k \in Has PROVE k + 1 \in Has
  <2>0. \A U \in SUBSET T : Cardinality(U) = k =>
                     Sum(U) \in Nat /\ \A x \in U : Sum(U) = x.d + Sum(U \ {x})
    BY <1>2
  <2> HIDE DEF Has
  <2>1. ASSUME NEW U \in SUBSET T, Cardinality(U) = k + 1
        PROVE Sum(U) \in Nat /\ \A x \in U : Sum(U) = x.d + Sum(U \ {x})
    <3> DEFINE c == First(U)
    <3>1. U # {} /\ IsFiniteSet(U)
      BY <1>0, <2>1, FS_EmptySet
    <3>2. c \in U /\ Sum(U) = c.d + Sum(U \ {c})
      BY <3>1, SumStep DEF First
    <3> HIDE DEF c
    <3>3. \A x \in U : U \ {x} \in SUBSET T /\ Cardinality(U \ {x}) = k
      <4>1. ASSUME NEW x \in U PROVE U \ {x} \in SUBSET T /\ Cardinality(U \ {x}) = k
        <5>1. Cardinality(U \ {x}) \in Nat /\ Cardinality(U) = Cardinality(U \ {x}) + 1
          BY <3>1, Smaller
        <5> QED
          BY <2>1, <5>1
      <4> QED
        BY <4>1
    <3>4. \A x \in U : Sum(U \ {x}) \in Nat
      BY <2>0, <3>3
    <3>5. Sum(U) \in Nat
      BY <1>00, <3>2, <3>4
    <3>6. ASSUME NEW x \in U PROVE Sum(U) = x.d + Sum(U \ {x})
      <4>1. CASE x = c
        BY <3>2, <4>1
      <4>2. CASE x # c
        <5> DEFINE W == U \ {c, x}
        <5>1. (U \ {c}) \ {x} = W /\ (U \ {x}) \ {c} = W /\ x \in U \ {c} /\ c \in U \ {x}
          BY <3>2, <4>2
        <5>2. Sum(U \ {c}) = x.d + Sum(W)
          BY <2>0, <3>2, <3>3, <5>1
        <5>3. Sum(U \ {x}) = c.d + Sum(W)
          BY <2>0, <3>3, <5>1
        <5>4. Sum(W) \in Nat
          BY SumIsNat
        <5> HIDE DEF W
        <5>5. x.d \in Nat /\ c.d \in Nat
          BY <1>00, <3>2
        <5> QED
          BY <3>2, <5>2, <5>3, <5>4, <5>5
      <4> QED
        BY <4>1, <4>2
    <3> QED
      BY <3>5, <3>6
  <2> QED
    BY <2>1 DEF Has
<1> HIDE DEF Has
<1>3. Cardinality(T) \in Has
  BY <1>0, <1>1, <1>2, InductionOnNat
<1> QED
  BY <1>3 DEF Has

-----------------------------------------------------------------------------
(* The stops of a request (MotionWalk).                                    *)

(* The function the fold over the stops is defined by.                     *)
MergesTo(f, D, s) ==
  f = [S \in SUBSET D |-> IF S = {} THEN <<>> ELSE Merge(f[S \ {Max(S)}], s[Max(S)])]

(* It exists, for any number of stops.                                     *)
LEMMA MergingExists ==
  ASSUME NEW s
  PROVE  \A n \in Nat : \E f : MergesTo(f, 1..n, s)
<1> DEFINE Has == {n \in Nat : \E f : MergesTo(f, 1..n, s)}
<1>1. 0 \in Has
  <2> DEFINE f == [S \in SUBSET (1..0) |-> <<>>]
  <2>1. \A S \in SUBSET (1..0) : S = {}
    OBVIOUS
  <2>2. MergesTo(f, 1..0, s)
    BY <2>1 DEF MergesTo
  <2> QED
    BY <2>2
<1>2. ASSUME NEW n \in Nat, n \in Has PROVE n + 1 \in Has
  <2>1. PICK f : MergesTo(f, 1..n, s)
    BY <1>2
  <2> DEFINE g == [S \in SUBSET (1..n + 1) |->
                     IF n + 1 \in S THEN Merge(f[S \ {n + 1}], s[n + 1]) ELSE f[S]]
  <2>2. ASSUME NEW S \in SUBSET (1..n + 1)
        PROVE  g[S] = IF S = {} THEN <<>> ELSE Merge(g[S \ {Max(S)}], s[Max(S)])
    <3>1. CASE n + 1 \in S
      <4>1. Max(S) = n + 1
        BY <3>1, MaxOfInterval
      <4>2. S \ {n + 1} \in SUBSET (1..n + 1) /\ n + 1 \notin S \ {n + 1} /\ S # {}
        BY <3>1
      <4>3. g[S \ {n + 1}] = f[S \ {n + 1}]
        BY <4>2
      <4> HIDE DEF g
      <4>4. g[S] = Merge(f[S \ {n + 1}], s[n + 1])
        BY <3>1 DEF g
      <4> QED
        BY <4>1, <4>2, <4>3, <4>4
    <3>2. CASE n + 1 \notin S
      <4>1. S \in SUBSET (1..n)
        BY <3>2
      <4>2. g[S] = f[S]
        BY <3>2
      <4>3. f[S] = IF S = {} THEN <<>> ELSE Merge(f[S \ {Max(S)}], s[Max(S)])
        BY <2>1, <4>1 DEF MergesTo
      <4>4. g[S \ {Max(S)}] = f[S \ {Max(S)}]
        BY <3>2
      <4> HIDE DEF g
      <4> QED
        BY <4>2, <4>3, <4>4
    <3> QED
      BY <3>1, <3>2
  <2>3. MergesTo(g, 1..n + 1, s)
    <3> DEFINE h == [S \in SUBSET (1..n + 1) |->
                 IF S = {} THEN <<>> ELSE Merge(g[S \ {Max(S)}], s[Max(S)])]
    <3>1. \A S \in SUBSET (1..n + 1) : g[S] = h[S]
      BY <2>2
    <3> HIDE DEF h
    <3>2. g = h
      BY <3>1 DEF h
    <3> QED
      BY <3>2 DEF MergesTo, h
  <2> QED
    BY <2>3
<1> HIDE DEF Has
<1>3. Nat \subseteq Has
  BY <1>1, <1>2, InductionOnNat
<1> QED
  BY <1>3 DEF Has

(* What is asked for: dwells and reversals on a path.                      *)
Requests(dwells, turns, total) ==
  /\ dwells \in SUBSET [s : 0..total, d : Nat] /\ IsFiniteSet(dwells)
  /\ turns \in SUBSET (0..total) /\ IsFiniteSet(turns)
  /\ total \in Nat

(* All that is asked of a walk.                                            *)
Asked(dwells, turns) == dwells \cup {[s |-> t, d |-> 0] : t \in turns}

(* The dwells among the first k requests that are moved to y.              *)
Part(dwells, reg, k, y, total) ==
  {r \in dwells : NearestSample(r.s, total) = y /\ \E j \in 1..k : reg[j] = r}

(* The stops that the first k requests come to.                            *)
Stops(m, dwells, reg, k, total) ==
  /\ m \in Seq([s : Samples(total), d : Nat])
  /\ \A i, j \in 1..Len(m) : i < j => m[i].s < m[j].s
  /\ \A j \in 1..k : \E i \in 1..Len(m) : m[i].s = NearestSample(reg[j].s, total)
  /\ \A i \in 1..Len(m) :
       /\ \E j \in 1..k : m[i].s = NearestSample(reg[j].s, total)
       /\ m[i].d = Sum(Part(dwells, reg, k, m[i].s, total))
  /\ k > 0 => Len(m) > 0 /\ m[Len(m)].s = NearestSample(reg[k].s, total)

(* One request more.                                                       *)
LEMMA PartGrows ==
  ASSUME NEW dwells, NEW turns, NEW total, Requests(dwells, turns, total),
         NEW reg, Lists(reg, Asked(dwells, turns), RequestOrder(Asked(dwells, turns))),
         NEW k \in Nat, k + 1 \in 1..Len(reg), NEW y
  PROVE  /\ Sum(Part(dwells, reg, k, y, total)) \in Nat
         /\ Sum(Part(dwells, reg, k + 1, y, total)) =
              Sum(Part(dwells, reg, k, y, total))
                + (IF y = NearestSample(reg[k + 1].s, total) THEN reg[k + 1].d ELSE 0)
<1> DEFINE S == Asked(dwells, turns)
           x == reg[k + 1]
           before == Part(dwells, reg, k, y, total)
           after == Part(dwells, reg, k + 1, y, total)
<1>1. reg \in Seq(S) /\ x \in S
  BY DEF Lists
<1>2. dwells \in SUBSET [s : Nat, d : Nat] /\ IsFiniteSet(dwells)
  BY DEF Requests
<1>3. after \in SUBSET dwells /\ before \in SUBSET dwells
  BY DEF Part
<1>4. Sum(before) \in Nat
  BY <1>2, <1>3, SumIsNat
<1>5. \A j \in 1..k : reg[j] # x
  <2>1. ASSUME NEW j \in 1..k PROVE reg[j] # x
    <3>1. j \in 1..Len(reg) /\ j < k + 1 /\ Len(reg) \in Nat
      BY <1>1
    <3>2. <<reg[j], x>> \in RequestOrder(S)
      BY <3>1 DEF Lists
    <3>3. x.s \in Int /\ x.d \in Int
      BY <1>1, <1>2 DEF Asked, Requests
    <3> QED
      BY <3>2, <3>3 DEF RequestOrder
  <2> QED
    BY <2>1
<1>6. \A j : j \in 1..k + 1 <=> j \in 1..k \/ j = k + 1
  BY <1>1
<1>7. CASE y = NearestSample(x.s, total) /\ x \in dwells
  <2>1. x \in after /\ after \ {x} = before
    BY <1>5, <1>6, <1>7 DEF Part
  <2>2. after \in SUBSET [s : Nat, d : Nat] /\ IsFiniteSet(after)
    BY <1>2, <1>3, FS_Subset
  <2>3. Sum(after) = x.d + Sum(before)
    BY <2>1, <2>2, SumOfMore
  <2>4. x.d \in Nat
    BY <1>2, <1>7
  <2> HIDE DEF x, before, after
  <2>5. Sum(after) = Sum(before) + x.d
    BY <1>4, <2>3, <2>4
  <2> QED
    BY <1>4, <1>7, <2>5 DEF x, before, after
<1>8. CASE y = NearestSample(x.s, total) /\ x \notin dwells
  <2>1. x.d = 0
    BY <1>1, <1>8 DEF Asked
  <2>2. after = before
    BY <1>6, <1>8 DEF Part
  <2> HIDE DEF x, before, after
  <2>3. Sum(after) = Sum(before) + x.d
    BY <1>4, <2>1, <2>2
  <2> QED
    BY <1>4, <1>8, <2>3 DEF x, before, after
<1>9. CASE y # NearestSample(x.s, total)
  <2>2. after = before
    BY <1>6, <1>9 DEF Part
  <2> HIDE DEF x, before, after
  <2>3. Sum(after) = Sum(before) + 0
    BY <1>4, <2>2
  <2> QED
    BY <1>4, <1>9, <2>3 DEF x, before, after
<1> QED
  BY <1>7, <1>8, <1>9

(* A stop that is merged with the last one, or put after it.               *)
LEMMA StopsGrow ==
  ASSUME NEW dwells, NEW turns, NEW total, Requests(dwells, turns, total),
         NEW reg, Lists(reg, Asked(dwells, turns), RequestOrder(Asked(dwells, turns))),
         NEW k \in Nat, k + 1 \in 1..Len(reg),
         NEW m, Stops(m, dwells, reg, k, total)
  PROVE  Stops(Merge(m, [reg[k + 1] EXCEPT !.s = NearestSample(@, total)]), dwells, reg, k + 1, total)
<1> DEFINE S == Asked(dwells, turns)
           x == reg[k + 1]
           N(p) == NearestSample(p, total)
           stop == [x EXCEPT !.s = N(@)]
           D(n, p) == Sum(Part(dwells, reg, n, p, total))
           T == [s : Samples(total), d : Nat]
<1>0. total \in Nat /\ Samples(total) \in SUBSET (0..total)
  BY DEF Requests, Samples
<1>1. reg \in Seq(S) /\ x \in S /\ Len(reg) \in Nat /\ \A j \in 1..Len(reg) : reg[j] \in S
  BY DEF Lists
<1>2. \A r \in S : r = [s |-> r.s, d |-> r.d] /\ r.s \in 0..total /\ r.d \in Nat
  BY DEF Requests, Asked
<1>3. stop.s = N(x.s) /\ stop.d = x.d /\ stop \in T
  <2>1. N(x.s) \in Samples(total)
    BY <1>0, <1>1, <1>2, NearestIs
  <2> QED
    BY <1>1, <1>2, <2>1
<1>4. \A p : D(k, p) \in Nat /\ D(k + 1, p) = D(k, p) + (IF p = N(x.s) THEN x.d ELSE 0)
  BY PartGrows
<1>5. \A j \in 1..k : N(reg[j].s) <= N(x.s) /\ N(reg[j].s) \in 0..total /\ N(x.s) \in 0..total
  <2>1. ASSUME NEW j \in 1..k
        PROVE  N(reg[j].s) <= N(x.s) /\ N(reg[j].s) \in 0..total /\ N(x.s) \in 0..total
    <3>1. j \in 1..Len(reg) /\ j < k + 1
      BY <1>1
    <3>2. <<reg[j], x>> \in RequestOrder(S)
      BY <3>1 DEF Lists
    <3>3. reg[j].s < x.s \/ reg[j].s = x.s
      BY <3>2 DEF RequestOrder
    <3>4. reg[j].s \in 0..total /\ x.s \in 0..total
      BY <1>1, <1>2, <3>1
    <3>5. reg[j].s <= x.s
      BY <1>0, <3>3, <3>4
    <3> QED
      BY <1>0, <3>4, <3>5, NearestRises, NearestIs
  <2> QED
    BY <2>1
<1>6. /\ m \in Seq(T) /\ Len(m) \in Nat /\ DOMAIN m = 1..Len(m)
      /\ \A i \in 1..Len(m) : m[i] \in T /\ m[i].s \in 0..total /\ m[i].d \in Nat
  <2>1. m \in Seq(T)
    BY DEF Stops
  <2> HIDE DEF T
  <2>2. Len(m) \in Nat /\ DOMAIN m = 1..Len(m) /\ \A i \in 1..Len(m) : m[i] \in T
    BY <2>1
  <2> QED
    BY <1>0, <2>1, <2>2 DEF T
<1>7. /\ \A i, j \in 1..Len(m) : i < j => m[i].s < m[j].s
      /\ \A j \in 1..k : \E i \in 1..Len(m) : m[i].s = N(reg[j].s)
      /\ \A i \in 1..Len(m) : (\E j \in 1..k : m[i].s = N(reg[j].s)) /\ m[i].d = D(k, m[i].s)
      /\ k > 0 => Len(m) > 0 /\ m[Len(m)].s = N(reg[k].s)
  BY DEF Stops
<1>6a. Len(m) \in Nat
  BY <1>6
<1>7a. \A i, j \in 1..Len(m) : i < j => m[i].s < m[j].s
  BY <1>7
<1>8. \A j : j \in 1..k + 1 <=> j \in 1..k \/ j = k + 1
  OBVIOUS
<1>9. CASE m # <<>> /\ m[Len(m)].s = N(x.s)
  <2> DEFINE l == Len(m)
             merged == [m EXCEPT ![l].d = @ + x.d]
  <2>1. l \in 1..Len(m) /\ l > 0
    BY <1>6, <1>9
  <2>2. Merge(m, stop) = merged
    BY <1>3, <1>6, <1>9 DEF Merge, Last
  <2>3. /\ \A i \in 1..Len(m) : merged[i].s = m[i].s
        /\ \A i \in 1..Len(m) : i # l => merged[i].d = m[i].d
        /\ merged[l].d = m[l].d + x.d
        /\ \A i \in 1..Len(m) : merged[i] \in T
        /\ merged \in Seq(T) /\ Len(merged) = Len(m)
    <3>0. x.d \in Nat /\ m[l].d \in Nat
      BY <1>1, <1>2, <1>6, <2>1
    <3>1. m[l] \in T /\ x.d \in Nat /\ m[l].d + x.d \in Nat
      BY <1>6, <2>1, <3>0
    <3>2. [m[l] EXCEPT !.d = @ + x.d] \in T
      BY <3>1
    <3>3. \A i \in 1..Len(m) : merged[i] = IF i = l THEN [m[l] EXCEPT !.d = @ + x.d] ELSE m[i]
      BY <1>6
    <3>4. \A i \in 1..Len(m) : merged[i] \in T
      BY <1>6, <3>2, <3>3
    <3>5. merged = [i \in 1..Len(m) |-> merged[i]]
      BY <1>6
    <3> HIDE DEF merged, T
    <3>6. merged \in [1..Len(m) -> T]
      BY <3>4, <3>5
    <3>7. merged \in Seq(T) /\ Len(merged) = Len(m)
      BY <1>6, <3>6
    <3>8. m[l].d \in Nat /\ m[l] = [s |-> m[l].s, d |-> m[l].d]
      BY <3>1 DEF T
    <3>9. /\ [m[l] EXCEPT !.d = @ + x.d].s = m[l].s
          /\ [m[l] EXCEPT !.d = @ + x.d].d = m[l].d + x.d
      BY <3>8
    <3> QED
      BY <2>1, <3>3, <3>4, <3>7, <3>9
  <2> HIDE DEF merged, D, N, T
  <2>4. \A i, j \in 1..Len(m) : i < j => merged[i].s < merged[j].s
    BY <1>7, <2>3
  <2>5. \A j \in 1..k + 1 : \E i \in 1..Len(m) : merged[i].s = N(reg[j].s)
    BY ZenonT(60), <1>7, <1>8, <1>9, <2>1, <2>3
  <2>6. \A i \in 1..Len(m) : \E j \in 1..k + 1 : merged[i].s = N(reg[j].s)
    BY <1>7, <1>8, <2>3
  <2>7. ASSUME NEW i \in 1..Len(m) PROVE merged[i].d = D(k + 1, merged[i].s)
    <3>1. CASE i = l
      BY <1>4, <1>7, <1>9, <2>3, <3>1
    <3>2. CASE i # l
      <4>0. i < l
        BY <1>6a, <2>1, <3>2
      <4>1. i < l /\ m[i].s < m[l].s /\ m[i].s \in Int /\ m[l].s \in Int
        BY <1>6, <1>7a, <2>1, <4>0
      <4>2. m[i].s # N(x.s)
        BY <1>9, <4>1
      <4>3. D(k + 1, m[i].s) = D(k, m[i].s)
        BY <1>4, <4>2
      <4> QED
        BY <1>7, <2>3, <3>2, <4>3
    <3> QED
      BY <3>1, <3>2
  <2>8. Len(merged) > 0 /\ merged[Len(merged)].s = N(x.s)
    BY <1>9, <2>1, <2>3
  <2>9. Stops(merged, dwells, reg, k + 1, total)
    BY <2>3, <2>4, <2>5, <2>6, <2>7, <2>8 DEF Stops, D, N, T
  <2> QED
    BY <2>2, <2>9 DEF N, x
<1>10. CASE ~(m # <<>> /\ m[Len(m)].s = N(x.s))
  <2> DEFINE l == Len(m)
             longer == Append(m, stop)
  <2>1. Merge(m, stop) = longer
    BY <1>3, <1>6, <1>10 DEF Merge, Last
  <2> HIDE DEF T
  <2>2. /\ longer \in Seq(T) /\ Len(longer) = l + 1
        /\ \A i \in 1..l : longer[i] = m[i]
        /\ longer[l + 1] = stop
    BY <1>3, <1>6, AppendProperties
  <2> HIDE DEF longer, D, N, stop
  <2>3. \A i : i \in 1..l + 1 <=> i \in 1..l \/ i = l + 1
    BY <1>6
  <2>4. \A j \in 1..k : N(reg[j].s) < N(x.s)
    <3>1. ASSUME NEW j \in 1..k, ~(N(reg[j].s) < N(x.s)) PROVE FALSE
      <4>1. N(reg[j].s) = N(x.s) /\ k > 0 /\ k \in 1..k
        BY <1>5, <3>1
      <4>2. l > 0 /\ m[l].s = N(reg[k].s) /\ N(reg[k].s) <= N(x.s) /\ l \in 1..Len(m)
        BY <1>5, <1>6, <1>7, <4>1
      <4>3. PICK i \in 1..Len(m) : m[i].s = N(reg[j].s)
        BY <1>7
      <4>4. i = l \/ m[i].s < m[l].s
        <5>1. i = l \/ i < l
          BY <1>6a
        <5> QED
          BY <1>7a, <4>2, <5>1
      <4>5. m[l].s = N(x.s)
        <5>1. m[i].s \in Int /\ m[l].s \in Int
          BY <1>6, <4>2
        <5> HIDE DEF l
        <5>2. m[l].s <= N(x.s) /\ N(x.s) \in Int /\ m[i].s = N(x.s)
          BY <1>5, <4>1, <4>2, <4>3
        <5> QED
          BY <4>4, <5>1, <5>2
      <4>6. m # <<>>
        BY <4>2
      <4> QED
        BY <1>10, <4>5, <4>6
    <3> QED
      BY <3>1
  <2>5. \A i \in 1..l : m[i].s < N(x.s) /\ m[i].s # N(x.s)
    <3>1. ASSUME NEW i \in 1..l PROVE m[i].s < N(x.s) /\ m[i].s # N(x.s)
      <4>1. PICK j \in 1..k : m[i].s = N(reg[j].s)
        BY <1>7
      <4> QED
        BY <1>5, <2>4, <4>1
    <3> QED
      BY <3>1
  <2>6. \A i, j \in 1..l + 1 : i < j => longer[i].s < longer[j].s
    <3>1. ASSUME NEW i \in 1..l + 1, NEW j \in 1..l + 1, i < j PROVE longer[i].s < longer[j].s
      <4>1. i \in 1..l
        BY <1>6, <3>1
      <4>2. CASE j \in 1..l
        BY <1>7, <2>2, <3>1, <4>1, <4>2
      <4>3. CASE j = l + 1
        BY <1>3, <2>2, <2>5, <4>1, <4>3
      <4> QED
        BY <2>3, <4>2, <4>3
    <3> QED
      BY <3>1
  <2>7. ASSUME NEW j \in 1..k + 1 PROVE \E i \in 1..l + 1 : longer[i].s = N(reg[j].s)
    <3>1. CASE j \in 1..k
      <4>1. PICK i \in 1..l : m[i].s = N(reg[j].s)
        BY <1>7, <3>1
      <4> QED
        BY <2>2, <2>3, <4>1
    <3>2. CASE j = k + 1
      BY <1>3, <2>2, <2>3, <3>2
    <3> QED
      BY <1>8, <3>1, <3>2
  <2>8. ASSUME NEW i \in 1..l + 1
        PROVE  (\E j \in 1..k + 1 : longer[i].s = N(reg[j].s)) /\ longer[i].d = D(k + 1, longer[i].s)
    <3>1. CASE i \in 1..l
      <4>1. PICK j \in 1..k : m[i].s = N(reg[j].s)
        BY <1>7, <3>1
      <4>2. D(k + 1, m[i].s) = D(k, m[i].s)
        BY <1>4, <2>5, <3>1
      <4> QED
        BY <1>7, <1>8, <2>2, <3>1, <4>1, <4>2
    <3>2. CASE i = l + 1
      <4>1. Part(dwells, reg, k, N(x.s), total) = {}
        <5>1. \A j \in 1..k : N(reg[j].s) # N(x.s)
          BY <1>5, <2>4
        <5> QED
          BY <5>1 DEF Part, N
      <4>2. D(k, N(x.s)) = 0
        BY <4>1, SumStep DEF D
      <4>3. D(k + 1, N(x.s)) = x.d
        BY <1>1, <1>2, <1>4, <4>2
      <4> QED
        BY <1>3, <1>8, <2>2, <3>2, <4>3
    <3> QED
      BY <2>3, <3>1, <3>2
  <2>9. Len(longer) > 0 /\ longer[Len(longer)].s = N(x.s)
    BY <1>3, <1>6, <2>2
  <2>10. \A j \in 1..k + 1 : \E i \in 1..Len(longer) : longer[i].s = N(reg[j].s)
    BY <2>2, <2>7
  <2>11. Stops(longer, dwells, reg, k + 1, total)
    BY <2>2, <2>6, <2>10, <2>8, <2>9 DEF Stops, D, N, T
  <2> QED
    BY <2>1, <2>11 DEF N, x, stop
<1> QED
  BY <1>9, <1>10

(* The stops of a walk: samples in rising order, one for every sample that *)
(* a dwell or a reversal is nearest to, for the sum of its dwells.         *)
StopsAre(stops, dwells, turns, total) ==
  /\ stops \in Seq([s : Samples(total), d : Nat])
  /\ \A i, j \in 1..Len(stops) : i < j => stops[i].s < stops[j].s
  /\ \A r \in dwells : \E i \in 1..Len(stops) : stops[i].s = NearestSample(r.s, total)
  /\ \A t \in turns : \E i \in 1..Len(stops) : stops[i].s = NearestSample(t, total)
  /\ \A i \in 1..Len(stops) :
       /\ \/ \E r \in dwells : NearestSample(r.s, total) = stops[i].s
          \/ \E t \in turns : NearestSample(t, total) = stops[i].s
       /\ stops[i].d = Sum({r \in dwells : NearestSample(r.s, total) = stops[i].s})

(* The stops that are snapped are the stops of the request.                 *)
LEMMA SnappedStops ==
  ASSUME NEW dwells, NEW turns, NEW total, Requests(dwells, turns, total)
  PROVE  StopsAre(SnapStops(Registered(dwells, turns), total), dwells, turns, total)
<1> DEFINE reg == Registered(dwells, turns)
           S == Asked(dwells, turns)
           s == [i \in DOMAIN reg |-> [reg[i] EXCEPT !.s = NearestSample(@, total)]]
           f == CHOOSE g : MergesTo(g, 1..Len(reg), s)
           m == SnapStops(reg, total)
<1>1. Lists(reg, S, RequestOrder(S))
  <2>1. dwells \in SUBSET [s : Nat, d : Nat] /\ turns \in SUBSET Nat
        /\ IsFiniteSet(dwells) /\ IsFiniteSet(turns)
    BY DEF Requests
  <2> QED
    BY <2>1, RegisteredLists DEF Asked
<1> HIDE DEF reg
<1>2. reg \in Seq(S) /\ Len(reg) \in Nat /\ DOMAIN reg = 1..Len(reg)
  BY <1>1 DEF Lists
<1>3. m = f[1..Len(reg)]
  <2>1. DOMAIN s = 1..Len(reg)
    BY <1>2
  <2> QED
    BY <2>1 DEF SnapStops, FoldLeft, MapThenFoldSet, MergesTo
<1>4. MergesTo(f, 1..Len(reg), s)
  BY <1>2, MergingExists
<1> HIDE DEF f
<1> DEFINE Has == {n \in Nat : n <= Len(reg) => Stops(f[1..n], dwells, reg, n, total)}
<1>5. 0 \in Has
  <2>1. 1..0 = {} /\ f[{}] = <<>>
    BY <1>4 DEF MergesTo
  <2>2. <<>> \in Seq([s : Samples(total), d : Nat]) /\ Len(<<>>) = 0
    OBVIOUS
  <2>3. Stops(<<>>, dwells, reg, 0, total)
    BY <2>1, <2>2 DEF Stops
  <2> QED
    BY <2>1, <2>3
<1>6. ASSUME NEW n \in Nat, n \in Has PROVE n + 1 \in Has
  <2> SUFFICES ASSUME n + 1 <= Len(reg) PROVE Stops(f[1..n + 1], dwells, reg, n + 1, total)
    OBVIOUS
  <2>1. Stops(f[1..n], dwells, reg, n, total)
    BY <1>2, <1>6
  <2>2. f[1..n + 1] = Merge(f[1..n], s[n + 1])
    <3>1. 1..n + 1 \in SUBSET (1..Len(reg)) /\ n + 1 \in 1..n + 1 /\ 1..n + 1 # {}
      <4>1. \A i \in 1..n + 1 : i \in 1..Len(reg)
        BY <1>2
      <4>2. n + 1 \in 1..n + 1
        OBVIOUS
      <4> QED
        BY <4>1, <4>2
    <3>2. Max(1..n + 1) = n + 1
      BY <3>1, MaxOfInterval
    <3>3. (1..n + 1) \ {n + 1} = 1..n
      OBVIOUS
    <3> HIDE DEF s
    <3> QED
      BY <1>4, <3>1, <3>2, <3>3 DEF MergesTo
  <2>3. n + 1 \in 1..Len(reg)
    BY <1>2
  <2>4. s[n + 1] = [reg[n + 1] EXCEPT !.s = NearestSample(@, total)]
    BY <1>2, <2>3
  <2> DEFINE acc == f[1..n]
  <2> HIDE DEF acc, s
  <2>5. Stops(acc, dwells, reg, n, total)
    BY <2>1 DEF acc
  <2>6. Stops(Merge(acc, [reg[n + 1] EXCEPT !.s = NearestSample(@, total)]), dwells, reg, n + 1, total)
    BY <1>1, <2>3, <2>5, StopsGrow
  <2> QED
    BY <2>2, <2>4, <2>6 DEF acc
<1> HIDE DEF Has
<1>7. Len(reg) \in Has
  BY <1>2, <1>5, <1>6, InductionOnNat
<1>8. Stops(m, dwells, reg, Len(reg), total)
  BY <1>2, <1>3, <1>7 DEF Has
<1> HIDE DEF m
<1>9. \A r \in S : \E j \in 1..Len(reg) : reg[j] = r
  BY <1>1 DEF Lists
<1>10. \A y : Part(dwells, reg, Len(reg), y, total) = {r \in dwells : NearestSample(r.s, total) = y}
  BY <1>9 DEF Part, Asked
<1>11. ASSUME NEW r \in S PROVE \E i \in 1..Len(m) : m[i].s = NearestSample(r.s, total)
  <2>1. PICK j \in 1..Len(reg) : reg[j] = r
    BY <1>9
  <2> QED
    BY <1>8, <2>1 DEF Stops
<1>12. ASSUME NEW i \in 1..Len(m)
       PROVE  \/ \E r \in dwells : NearestSample(r.s, total) = m[i].s
              \/ \E t \in turns : NearestSample(t, total) = m[i].s
  <2>1. PICK j \in 1..Len(reg) : m[i].s = NearestSample(reg[j].s, total)
    BY <1>8 DEF Stops
  <2>2. reg[j] \in S
    BY <1>2
  <2> QED
    BY <2>1, <2>2 DEF Asked
<1>13. \A t \in turns : \E i \in 1..Len(m) : m[i].s = NearestSample(t, total)
  <2>1. ASSUME NEW t \in turns PROVE \E i \in 1..Len(m) : m[i].s = NearestSample(t, total)
    <3>1. [s |-> t, d |-> 0] \in S
      BY DEF Asked
    <3> QED
      BY <1>11, <3>1
  <2> QED
    BY <2>1
<1>14. \A r \in dwells : \E i \in 1..Len(m) : m[i].s = NearestSample(r.s, total)
  BY <1>11 DEF Asked
<1>15. StopsAre(m, dwells, turns, total)
  BY ZenonT(60), <1>8, <1>10, <1>12, <1>13, <1>14 DEF Stops, StopsAre
<1> QED
  BY <1>15 DEF m, reg

(* A reversal is turned on the stop that it registered.                    *)
LEMMA PivotIsStop ==
  ASSUME NEW dwells, NEW turns, NEW total, Requests(dwells, turns, total),
         NEW stops, StopsAre(stops, dwells, turns, total), NEW t \in turns
  PROVE  StopArcNear(stops, t) = NearestSample(t, total)
<1> DEFINE n == NearestSample(t, total)
           near == {stops[i].s : i \in {j \in DOMAIN stops : Gap(stops[j].s, t) <= Spacing}}
           T == {y \in near : \A z \in near : Gap(y, t) <= Gap(z, t)}
<1>1. total \in Nat /\ t \in 0..total /\ Samples(total) \in SUBSET (0..total)
  BY DEF Requests, Samples
<1>2. /\ n \in Samples(total) /\ n \in 0..total /\ Gap(t, n) < Spacing
      /\ \A z \in Samples(total) : Gap(t, n) <= Gap(t, z) /\ (Gap(t, z) = Gap(t, n) => n <= z)
  BY <1>1, NearestIs
<1> HIDE DEF n
<1>3. DOMAIN stops = 1..Len(stops) /\ \A i \in DOMAIN stops : stops[i].s \in Samples(total)
  <2> DEFINE Q == [s : Samples(total), d : Nat]
  <2>1. stops \in Seq(Q)
    BY DEF StopsAre
  <2> HIDE DEF Q
  <2>2. DOMAIN stops = 1..Len(stops) /\ \A i \in DOMAIN stops : stops[i] \in Q
    BY <2>1
  <2> QED
    BY <2>2 DEF Q
<1>4. \E i \in DOMAIN stops : stops[i].s = n
  BY <1>3 DEF StopsAre, n
<1>5. \A z \in 0..total : Gap(z, t) = Gap(t, z) /\ Gap(z, t) \in Nat
  BY <1>1 DEF Gap
<1>6. n \in near
  <2>1. Gap(n, t) <= Spacing
    BY <1>2, <1>5, WalkAssumption
  <2> QED
    BY <1>4, <2>1
<1>7. near \in SUBSET Samples(total)
  BY <1>3
<1> HIDE DEF near
<1>8. n \in T /\ T \in SUBSET Samples(total)
  BY <1>1, <1>2, <1>5, <1>6, <1>7
<1>9. \A z \in T : n <= z
  <2>1. ASSUME NEW z \in T PROVE n <= z
    <3>1. z \in Samples(total) /\ Gap(z, t) <= Gap(n, t) /\ z \in 0..total
      BY <1>1, <1>6, <1>7
    <3>2. Gap(t, z) = Gap(t, n)
      <4>1. Gap(t, z) <= Gap(t, n) /\ Gap(t, n) <= Gap(t, z) /\ Gap(t, z) \in Nat /\ Gap(t, n) \in Nat
        BY <1>2, <1>5, <3>1
      <4> QED
        BY <4>1
    <3> QED
      BY <1>2, <3>1, <3>2
  <2> QED
    BY <2>1
<1>10. near # {} /\ StopArcNear(stops, t) = Min(T)
  BY <1>6 DEF StopArcNear, near
<1> HIDE DEF T
<1>11. Min(T) \in T /\ \A m \in T : Min(T) <= m
  <2>1. T \in SUBSET Nat /\ T # {}
    BY <1>1, <1>8
  <2> QED
    BY <2>1, MinIs
<1>12. Min(T) <= n /\ n <= Min(T) /\ Min(T) \in Int /\ n \in Int
  <2>1. Min(T) \in Samples(total) /\ Min(T) <= n /\ n <= Min(T)
    BY <1>8, <1>9, <1>11
  <2> QED
    BY <1>1, <1>2, <2>1
<1> QED
  BY <1>10, <1>12 DEF n

(* The reversals of a path and where each is turned.                       *)
Pivots(turns, total) == {[of |-> t, s |-> NearestSample(t, total)] : t \in turns}

(* The reversals ahead of a walk are all of them, in the order of their stops. *)
LEMMA PendingLists ==
  ASSUME NEW dwells, NEW turns, NEW total, Requests(dwells, turns, total),
         NEW stops, StopsAre(stops, dwells, turns, total)
  PROVE  Lists(PendingTurns(stops, turns), Pivots(turns, total), TurnOrder(Pivots(turns, total)))
<1> DEFINE S == Pivots(turns, total)
           R == TurnOrder(S)
<1>1. \A t \in turns : StopArcNear(stops, t) = NearestSample(t, total)
  BY PivotIsStop
<1>2. S = {[of |-> t, s |-> StopArcNear(stops, t)] : t \in turns}
  BY <1>1 DEF Pivots
<1>3. IsFiniteSet(S)
  <2> DEFINE f == [t \in turns |-> [of |-> t, s |-> NearestSample(t, total)]]
  <2>1. f \in Surjection(turns, S)
    BY DEF Surjection, Pivots
  <2>2. IsFiniteSet(turns)
    BY DEF Requests
  <2> HIDE DEF f, S
  <2> QED
    BY <2>1, <2>2, FS_Surjection
<1>4. \A a \in S : a = [of |-> a.of, s |-> a.s] /\ a.of \in Int /\ a.s \in Int
  <2>1. ASSUME NEW t \in turns PROVE t \in Int /\ NearestSample(t, total) \in Int
    <3>1. total \in Nat /\ t \in 0..total
      BY DEF Requests
    <3> QED
      BY <3>1, NearestIs
  <2> QED
    BY <2>1 DEF Pivots
<1> HIDE DEF S
<1>5. \A a, b \in S : <<a, b>> \in R <=> a.s < b.s \/ (a.s = b.s /\ a.of < b.of)
  BY DEF TurnOrder
<1> HIDE DEF R
<1>6. IsTotal(S, R)
  <2>2. \A a \in S : <<a, a>> \notin R
    BY <1>4, <1>5
  <2>3. \A a, b, c \in S : <<a, b>> \in R /\ <<b, c>> \in R => <<a, c>> \in R
    BY <1>4, <1>5
  <2>4. \A a, b \in S : a # b => <<a, b>> \in R \/ <<b, a>> \in R
    <3>1. ASSUME NEW a \in S, NEW b \in S, a # b PROVE <<a, b>> \in R \/ <<b, a>> \in R
      <4>1. a.s # b.s \/ a.of # b.of
        BY <1>4, <3>1
      <4> QED
        BY <1>4, <1>5, <4>1
    <3> QED
      BY <3>1
  <2> QED
    BY <2>2, <2>3, <2>4 DEF IsTotal
<1>7. PendingTurns(stops, turns) = InRank(S, R)
  <2>1. \A r \in S : Ahead(S, R, r) = {q \in S : q.s < r.s \/ (q.s = r.s /\ q.of < r.of)}
    BY <1>5 DEF Ahead
  <2>2. PendingTurns(stops, turns) =
          [k \in 1..Cardinality(S) |->
             CHOOSE r \in S : Cardinality({q \in S : q.s < r.s \/ (q.s = r.s /\ q.of < r.of)}) = k - 1]
    BY <1>2 DEF PendingTurns, Sorted
  <2> QED
    BY <2>1, <2>2 DEF InRank
<1> QED
  BY <1>3, <1>6, <1>7, RankLists DEF S, R

-----------------------------------------------------------------------------
(* The walk (MotionWalk).                                                  *)

(* What is walked: the stops of a request, where the profile is zero.      *)
RunIs ==
  /\ Requests(run.dwells, run.turns, run.total) /\ run.total > 0
  /\ run.total \in Lengths /\ run.mode \in Modes
  /\ StopsAre(run.stops, run.dwells, run.turns, run.total)
  /\ \A i \in 1..Len(run.stops) : run.stops[i].s \in run.zeros
  /\ run.mode # "periodic" => run.total \in run.zeros

(* The clock shows the stamp after the last sample.                        *)
ClockInv ==
  /\ time \in Nat /\ count \in Nat /\ last.stamp \in Int /\ last.from \in Int
  /\ ~StopAtEnd => last.stamp = time - 1

(* The walk is between the stop it held last and the next one.             *)
ArcInv ==
  /\ arc \in 0..run.total /\ nextStop \in 1..Len(run.stops) + 1
  /\ \A i \in 1..Len(run.stops) : IF i < nextStop THEN run.stops[i].s <= arc ELSE arc <= run.stops[i].s
  /\ last.at \in 0..arc /\ (arc > 0 => count > 0)
  /\ stage \in {"start", "walk", "end", "done", "stuck", "exhausted"}
  /\ stage \in {"end", "done"} => arc = run.total /\ (run.mode # "periodic" => last.at = run.total)
  /\ stage = "done" => ~EndStopDue

(* The stops passed were held, each once, in order.                        *)
HoldInv ==
  /\ held \in Seq([at : 0..run.total, n : Nat])
  /\ ~(run.mode = "periodic" /\ StopAtEnd) =>
       /\ Len(held) = nextStop - 1
       /\ \A i \in 1..Len(held) : held[i] = [at |-> run.stops[i].s, n |-> Ticks(run.stops[i])]

(* The reversals passed were turned where they stand, each once, and the   *)
(* others are ahead, in order.                                             *)
TurnsAre(r, a, ahead, done) ==
  /\ ahead \in Seq(Pivots(r.turns, r.total))
  /\ done \in Seq([of : r.turns, at : 0..r.total])
  /\ \A i \in 1..Len(ahead) : a <= ahead[i].s
  /\ \A i, j \in 1..Len(ahead) : i < j => ahead[i].s <= ahead[j].s /\ ahead[i].of # ahead[j].of
  /\ \A i \in 1..Len(done) : done[i].at = NearestSample(done[i].of, r.total)
  /\ \A i, j \in 1..Len(done) : done[i].of = done[j].of => i = j
  /\ \A i \in 1..Len(done), j \in 1..Len(ahead) : done[i].of # ahead[j].of
  /\ \A t \in r.turns : \/ \E i \in 1..Len(done) : done[i].of = t
                        \/ \E j \in 1..Len(ahead) : ahead[j].of = t

PivotInv == TurnsAre(run, arc, pending, turned)

(* What a walk keeps.                                                      *)
WalkInv == RunIs /\ ClockInv /\ ArcInv /\ HoldInv /\ PivotInv

(* What is known of the stops of a run.                                     *)
LEMMA RunFacts ==
  ASSUME RunIs
  PROVE  /\ run.total \in Nat \ {0} /\ Len(run.stops) \in Nat /\ DOMAIN run.stops = 1..Len(run.stops)
         /\ \A i \in 1..Len(run.stops) :
              /\ run.stops[i].s \in Samples(run.total) /\ run.stops[i].s \in 0..run.total
              /\ run.stops[i].d \in Nat /\ Ticks(run.stops[i]) \in Nat
         /\ \A i, j \in 1..Len(run.stops) : i < j => run.stops[i].s < run.stops[j].s
         /\ \A t \in run.turns : t \in 0..run.total
<1> DEFINE Q == [s : Samples(run.total), d : Nat]
<1>1. run.total \in Nat \ {0} /\ \A t \in run.turns : t \in 0..run.total
  BY DEF RunIs, Requests
<1>2. run.stops \in Seq(Q) /\ \A i, j \in 1..Len(run.stops) : i < j => run.stops[i].s < run.stops[j].s
  BY DEF RunIs, StopsAre
<1> HIDE DEF Q
<1>3. /\ Len(run.stops) \in Nat /\ DOMAIN run.stops = 1..Len(run.stops)
      /\ \A i \in 1..Len(run.stops) : run.stops[i] \in Q
  BY <1>2
<1>4. \A q \in Q : q.s \in Samples(run.total) /\ q.s \in 0..run.total /\ q.d \in Nat /\ Ticks(q) \in Nat
  BY <1>1 DEF Q, Samples, Ticks
<1> QED
  BY <1>1, <1>2, <1>3, <1>4

(* A walk starts with all of its stops and reversals ahead.                 *)
LEMMA StartsWalk ==
  ASSUME WalkInit PROVE WalkInv
<1>1. PICK total \in Lengths, mode \in Modes :
        \E dwells \in Dwells(total, mode), turns \in Turns(total) : run = Run(total, mode, dwells, turns)
  BY DEF WalkInit
<1>2. PICK dwells \in Dwells(total, mode), turns \in Turns(total) : run = Run(total, mode, dwells, turns)
  BY <1>1
<1>3. total \in Nat /\ total > 0
  BY WalkAssumption
<1>4. dwells \in SUBSET [s : 0..total, d : Nat] /\ IsFiniteSet(dwells)
  <2> DEFINE D == [s : 0..total, d : Durations]
  <2>1. CASE mode = "periodic"
    BY <2>1, FS_EmptySet DEF Dwells
  <2>2. CASE mode # "periodic"
    <3>1. dwells \in SUBSET D
      BY <2>2 DEF Dwells, kSubset
    <3>2. IsFiniteSet(D)
      <4> DEFINE f == [p \in (0..total) \X Durations |-> [s |-> p[1], d |-> p[2]]]
      <4>1. IsFiniteSet((0..total) \X Durations)
        <5>1. IsFiniteSet(0..total)
          BY <1>3, FS_Interval
        <5>2. IsFiniteSet(Durations)
          BY WalkAssumption
        <5> QED
          BY <5>1, <5>2, FS_Product
      <4>2. f \in Surjection((0..total) \X Durations, D)
        <5>1. f \in [(0..total) \X Durations -> D]
          OBVIOUS
        <5>2. ASSUME NEW r \in D PROVE \E p \in (0..total) \X Durations : f[p] = r
          <6>1. <<r.s, r.d>> \in (0..total) \X Durations /\ f[<<r.s, r.d>>] = r
            OBVIOUS
          <6> QED
            BY <6>1
        <5> QED
          BY <5>1, <5>2 DEF Surjection
      <4> HIDE DEF f, D
      <4> QED
        BY <4>1, <4>2, FS_Surjection
    <3>3. IsFiniteSet(dwells)
      BY <3>1, <3>2, FS_Subset
    <3>4. D \in SUBSET [s : 0..total, d : Nat]
      BY WalkAssumption
    <3> QED
      BY <3>1, <3>3, <3>4
  <2> QED
    BY <2>1, <2>2
<1>5. turns \in SUBSET (0..total) /\ IsFiniteSet(turns)
  <2>1. turns \in SUBSET (0..total - 1)
    BY DEF Turns, kSubset
  <2>2. IsFiniteSet(0..total - 1)
    BY <1>3, FS_Interval
  <2>3. IsFiniteSet(turns)
    BY <2>1, <2>2, FS_Subset
  <2> QED
    BY <1>3, <2>1, <2>3
<1>6. Requests(dwells, turns, total)
  BY <1>3, <1>4, <1>5 DEF Requests
<1> DEFINE stops == SnapStops(Registered(dwells, turns), total)
<1>7. StopsAre(stops, dwells, turns, total)
  BY <1>6, SnappedStops
<1> HIDE DEF stops
<1>8. /\ run.total = total /\ run.mode = mode /\ run.dwells = dwells /\ run.turns = turns
      /\ run.stops = stops /\ run.zeros = Zeros(stops, total, mode = "standard", mode # "periodic")
  BY <1>2 DEF Run, stops
<1>9. RunIs
  <2> DEFINE Q == [s : Samples(total), d : Nat]
  <2>1. stops \in Seq(Q)
    BY <1>7 DEF StopsAre
  <2> HIDE DEF Q
  <2>2. DOMAIN stops = 1..Len(stops) /\ \A i \in 1..Len(stops) : stops[i] \in Q
    BY <2>1
  <2>3. \A i \in 1..Len(stops) : stops[i].s \in Samples(total) /\ 2 * Gap(stops[i].s, stops[i].s) < Spacing
    BY SMTT(30), <2>2, WalkAssumption DEF Q, Gap, Samples
  <2>4. \A i \in 1..Len(stops) : stops[i].s \in run.zeros
    BY <1>8, <2>2, <2>3 DEF Zeros
  <2>5. mode # "periodic" => total \in run.zeros
    BY <1>8 DEF Zeros
  <2> QED
    BY <1>3, <1>6, <1>7, <1>8, <2>4, <2>5 DEF RunIs
<1>10. ClockInv
  BY DEF WalkInit, ClockInv
<1>11. ArcInv
  BY <1>9, RunFacts DEF WalkInit, ArcInv
<1>12. HoldInv
  BY DEF WalkInit, HoldInv
<1>13. PivotInv
  <2> DEFINE P == Pivots(turns, total)
  <2>1. pending = PendingTurns(stops, turns) /\ turned = <<>> /\ arc = 0
    BY <1>8 DEF WalkInit
  <2>2. Lists(pending, P, TurnOrder(P))
    BY <1>6, <1>7, <2>1, PendingLists
  <2>3. \A p \in P : p.of \in turns /\ p.s = NearestSample(p.of, total) /\ p.s \in 0..total /\ p.of \in Int
    BY <1>3, <1>5, NearestIs DEF Pivots
  <2>4. \A t \in turns : \E p \in P : p.of = t
    <3>1. ASSUME NEW t \in turns PROVE \E p \in P : p.of = t
      <4>1. [of |-> t, s |-> NearestSample(t, total)] \in P
        BY DEF Pivots
      <4> QED
        BY <4>1
    <3> QED
      BY <3>1
  <2> HIDE DEF P
  <2>5. pending \in Seq(P) /\ Len(pending) \in Nat /\ \A i \in 1..Len(pending) : pending[i] \in P
    BY <2>2 DEF Lists
  <2>6. \A i \in 1..Len(pending) : arc <= pending[i].s
    BY <2>1, <2>3, <2>5
  <2>7. ASSUME NEW i \in 1..Len(pending), NEW j \in 1..Len(pending), i < j
        PROVE  pending[i].s <= pending[j].s /\ pending[i].of # pending[j].of
    <3>1. <<pending[i], pending[j]>> \in TurnOrder(P)
      BY <2>2, <2>7 DEF Lists
    <3>2. \/ pending[i].s < pending[j].s
          \/ pending[i].s = pending[j].s /\ pending[i].of < pending[j].of
      BY <3>1 DEF TurnOrder
    <3>3. /\ pending[i].s \in Int /\ pending[j].s \in Int /\ pending[i].of \in Int /\ pending[j].of \in Int
          /\ pending[i].s = NearestSample(pending[i].of, total)
          /\ pending[j].s = NearestSample(pending[j].of, total)
      BY <2>3, <2>5
    <3> QED
      BY <3>2, <3>3
  <2>8. \A t \in turns : \E j \in 1..Len(pending) : pending[j].of = t
    BY <2>2, <2>4 DEF Lists
  <2> QED
    BY <1>8, <2>1, <2>5, <2>6, <2>7, <2>8 DEF PivotInv, TurnsAre, P
<1> QED
  BY <1>9, <1>10, <1>11, <1>12, <1>13 DEF WalkInv

(* A step never goes past the end or past the next stop.                   *)
LEMMA RoomIs ==
  ASSUME RunIs, NEW a \in 0..run.total, a < run.total, NEW next \in 1..Len(run.stops) + 1,
         arc = a
  PROVE  /\ Min({MaxStep, Room(next)}) \in Nat /\ Min({MaxStep, Room(next)}) <= run.total - a
         /\ next <= Len(run.stops) /\ run.stops[next].s > a =>
              Min({MaxStep, Room(next)}) <= run.stops[next].s - a
<1> DEFINE J == {next} \cap {j \in DOMAIN run.stops : run.stops[j].s > arc}
           T == {run.total - arc} \cup {run.stops[i].s - arc : i \in J}
<1>1. /\ run.total \in Nat /\ Len(run.stops) \in Nat /\ DOMAIN run.stops = 1..Len(run.stops)
      /\ \A i \in 1..Len(run.stops) : run.stops[i].s \in 0..run.total
  BY RunFacts
<1>2. Room(next) = Min(T)
  BY DEF Room
<1>3. T \in SUBSET Nat /\ run.total - arc \in T
  BY <1>1
<1>4. next <= Len(run.stops) /\ run.stops[next].s > a => run.stops[next].s - arc \in T
  BY <1>1
<1> HIDE DEF T
<1>5. Min(T) \in T /\ \A m \in T : Min(T) <= m
  BY <1>3, MinIs
<1> DEFINE m == Min(T)
           P == {MaxStep, m}
<1>6. m \in Nat /\ m <= run.total - a /\ MaxStep \in Nat
      /\ (next <= Len(run.stops) /\ run.stops[next].s > a => m <= run.stops[next].s - a)
  BY <1>3, <1>4, <1>5, WalkAssumption
<1> HIDE DEF m
<1>7. P \in SUBSET Nat /\ m \in P /\ P # {}
  BY <1>6
<1> HIDE DEF P
<1>8. Min(P) \in P /\ \A k \in P : Min(P) <= k
  BY <1>7, MinIs
<1>9. Min(P) \in Nat /\ Min(P) <= m
  BY <1>7, <1>8
<1>10. Min(P) = Min({MaxStep, Room(next)})
  BY <1>2 DEF P, m
<1> DEFINE q == Min({MaxStep, Room(next)})
<1>11. q \in Nat /\ q <= m
  BY <1>9, <1>10
<1> HIDE DEF q
<1>12. q <= run.total - a
  BY <1>1, <1>6, <1>11
<1>13. next <= Len(run.stops) /\ run.stops[next].s > a => q <= run.stops[next].s - a
  <2>1. ASSUME next <= Len(run.stops), run.stops[next].s > a PROVE q <= run.stops[next].s - a
    <3>1. run.stops[next].s \in Int /\ m <= run.stops[next].s - a
      BY <1>1, <1>6, <2>1
    <3> QED
      BY <1>6, <1>11, <3>1
  <2> QED
    BY <2>1
<1> QED
  BY <1>11, <1>12, <1>13 DEF q

(* The reversals ahead stay ahead as long as none of them is passed.        *)
LEMMA PivotStays ==
  ASSUME PivotInv, run' = run, pending' = pending, turned' = turned,
         \A i \in 1..Len(pending) : arc' <= pending[i].s
  PROVE  PivotInv'
<1>1. TurnsAre(run, arc', pending, turned)
  BY DEF PivotInv, TurnsAre
<1> QED
  BY <1>1 DEF PivotInv

(* Nothing but the clock changes for a run that starts.                    *)
LEMMA StartWalk == ASSUME WalkInv, StandingStart PROVE WalkInv'
<1>1. /\ run' = run /\ arc' = arc /\ nextStop' = nextStop /\ pending' = pending
      /\ held' = held /\ turned' = turned /\ stage = "start" /\ stage' = "walk"
      /\ time' = time + StartStand /\ count' = count + StartStand
      /\ last' = IF StartStand = 0 THEN last
                 ELSE [at |-> 0, from |-> time, stamp |-> time + StartStand - 1]
  BY DEF StandingStart, Emit
<1>2. /\ StartStand \in Nat /\ time \in Nat /\ count \in Nat /\ arc \in Nat
      /\ last.stamp \in Int /\ last.from \in Int
  BY WalkAssumption, RunFacts DEF WalkInv, ClockInv, ArcInv
<1>3. RunIs'
  BY <1>1 DEF WalkInv, RunIs, Requests, StopsAre
<1>4. last'.at \in 0..arc /\ last'.stamp \in Int /\ last'.from \in Int /\ (~StopAtEnd => last'.stamp = time' - 1)
      /\ time' \in Nat /\ count' \in Nat /\ (arc > 0 => count' > 0)
  BY <1>1, <1>2 DEF WalkInv, ClockInv, ArcInv
<1>5. StopAtEnd' <=> StopAtEnd
  BY <1>1 DEF StopAtEnd
<1>6. ClockInv' /\ ArcInv'
  BY <1>1, <1>4, <1>5 DEF WalkInv, ClockInv, ArcInv
<1>7. HoldInv'
  BY <1>1, <1>5 DEF WalkInv, HoldInv, Ticks
<1>8. PivotInv'
  <2>1. \A i \in 1..Len(pending) : arc' <= pending[i].s
    BY <1>1 DEF WalkInv, PivotInv, TurnsAre
  <2> QED
    BY <1>1, <2>1, PivotStays DEF WalkInv
<1> QED
  BY <1>3, <1>6, <1>7, <1>8 DEF WalkInv

(* A walk that gives up changes its stage only.                            *)
LEMMA StoppedWalk == ASSUME WalkInv, GiveUp \/ OutOfBudget PROVE WalkInv'
<1>1. /\ run' = run /\ arc' = arc /\ nextStop' = nextStop /\ pending' = pending
      /\ held' = held /\ turned' = turned /\ stage' \in {"stuck", "exhausted"}
      /\ time' = time /\ count' = count /\ last' = last
  BY DEF GiveUp, OutOfBudget
<1>3. RunIs'
  BY <1>1 DEF WalkInv, RunIs, Requests, StopsAre
<1>5. StopAtEnd' <=> StopAtEnd
  BY <1>1 DEF StopAtEnd
<1>6. ClockInv' /\ ArcInv'
  BY <1>1, <1>5 DEF WalkInv, ClockInv, ArcInv
<1>7. HoldInv'
  BY <1>1, <1>5 DEF WalkInv, HoldInv, Ticks
<1>8. PivotInv'
  <2>1. \A i \in 1..Len(pending) : arc' <= pending[i].s
    BY <1>1 DEF WalkInv, PivotInv, TurnsAre
  <2> QED
    BY <1>1, <2>1, PivotStays DEF WalkInv
<1> QED
  BY <1>3, <1>6, <1>7, <1>8 DEF WalkInv

(* A step of nobody.                                                       *)
LEMMA StillWalk == ASSUME WalkInv, UNCHANGED walkVars PROVE WalkInv'
<1>1. /\ run' = run /\ arc' = arc /\ nextStop' = nextStop /\ pending' = pending
      /\ held' = held /\ turned' = turned /\ stage' = stage
      /\ time' = time /\ count' = count /\ last' = last
  BY DEF walkVars
<1>3. RunIs'
  BY <1>1 DEF WalkInv, RunIs, Requests, StopsAre
<1>5. (StopAtEnd' <=> StopAtEnd) /\ (EndStopDue' <=> EndStopDue)
  BY <1>1 DEF StopAtEnd, EndStopDue
<1>6. ClockInv' /\ ArcInv'
  BY <1>1, <1>5 DEF WalkInv, ClockInv, ArcInv
<1>7. HoldInv'
  BY <1>1, <1>5 DEF WalkInv, HoldInv, Ticks
<1>8. PivotInv'
  <2>1. \A i \in 1..Len(pending) : arc' <= pending[i].s
    BY <1>1 DEF WalkInv, PivotInv, TurnsAre
  <2> QED
    BY <1>1, <2>1, PivotStays DEF WalkInv
<1> QED
  BY <1>3, <1>6, <1>7, <1>8 DEF WalkInv

(* A turn: the first of the reversals ahead, on its stop.                  *)
LEMMA TurnWalk == ASSUME WalkInv, Turn PROVE WalkInv'
<1> DEFINE P == Pivots(run.turns, run.total)
           l == Len(pending)
           m == Len(turned)
           Q == [of : run.turns, at : 0..run.total]
<1>1. /\ run' = run /\ arc' = arc /\ nextStop' = nextStop /\ pending' = Tail(pending)
      /\ held' = held /\ stage = "walk" /\ stage' = stage
      /\ turned' = Append(turned, [of |-> Head(pending).of, at |-> arc])
      /\ time' = time + TurnTicks /\ count' = count + TurnTicks
      /\ last' = IF TurnTicks = 0 THEN last ELSE [at |-> arc, from |-> time, stamp |-> time + TurnTicks - 1]
      /\ pending # <<>> /\ arc >= Head(pending).s
  BY DEF Turn, Emit, Walking, TurnDue
<1>2. TurnTicks \in Nat \ {0} /\ time \in Nat /\ count \in Nat /\ arc \in Nat
  BY WalkAssumption, RunFacts DEF WalkInv, ClockInv, ArcInv
<1>3. RunIs'
  BY <1>1 DEF WalkInv, RunIs, Requests, StopsAre
<1>4. last'.at \in 0..arc /\ last'.stamp \in Int /\ last'.from \in Int /\ last'.stamp = time' - 1
      /\ time' \in Nat /\ count' \in Nat /\ (arc > 0 => count' > 0)
  BY <1>1, <1>2
<1>5. (StopAtEnd' <=> StopAtEnd) /\ (EndStopDue' <=> EndStopDue)
  BY <1>1 DEF StopAtEnd, EndStopDue
<1>6. ClockInv' /\ ArcInv'
  BY <1>1, <1>4, <1>5 DEF WalkInv, ClockInv, ArcInv
<1>7. HoldInv'
  BY <1>1, <1>5 DEF WalkInv, HoldInv, Ticks
<1>8. PivotInv'
  <2>1. /\ pending \in Seq(P) /\ turned \in Seq(Q)
        /\ \A i \in 1..l : arc <= pending[i].s
        /\ \A i, j \in 1..l : i < j => pending[i].s <= pending[j].s /\ pending[i].of # pending[j].of
    BY DEF WalkInv, PivotInv, TurnsAre
  <2>2. /\ \A i \in 1..m : turned[i].at = NearestSample(turned[i].of, run.total)
        /\ \A i, j \in 1..m : turned[i].of = turned[j].of => i = j
        /\ \A i \in 1..m, j \in 1..l : turned[i].of # pending[j].of
    BY DEF WalkInv, PivotInv, TurnsAre
  <2>3. \A t \in run.turns : (\E i \in 1..m : turned[i].of = t) \/ (\E j \in 1..l : pending[j].of = t)
    BY DEF WalkInv, PivotInv, TurnsAre
  <2>4. /\ arc \in 0..run.total
        /\ \A p \in P : p.of \in run.turns /\ p.s = NearestSample(p.of, run.total) /\ p.s \in 0..run.total
    <3>1. run.total \in Nat /\ \A t \in run.turns : t \in 0..run.total
      BY RunFacts DEF WalkInv
    <3>2. arc \in 0..run.total
      BY DEF WalkInv, ArcInv
    <3> QED
      BY <3>1, <3>2, NearestIs DEF Pivots
  <2> DEFINE turn == [of |-> Head(pending).of, at |-> arc]
             rest == Tail(pending)
             done == Append(turned, turn)
  <2> HIDE DEF P
  <2>5. /\ l \in Nat /\ l > 0 /\ Head(pending) = pending[1] /\ pending[1] \in P
        /\ rest \in Seq(P) /\ Len(rest) = l - 1 /\ \A i \in 1..l - 1 : rest[i] = pending[i + 1]
    <3>1. pending \in Seq(P) /\ pending # <<>>
      BY <1>1, <2>1
    <3>2. l \in Nat /\ l > 0 /\ Head(pending) = pending[1] /\ pending[1] \in P
      BY <3>1
    <3>3. rest \in Seq(P) /\ Len(rest) = l - 1 /\ \A i \in 1..l - 1 : rest[i] = pending[i + 1]
      BY <3>1, HeadTailProperties
    <3> QED
      BY <3>2, <3>3
  <2>6. /\ turn \in Q /\ turn.of = pending[1].of /\ turn.at = NearestSample(turn.of, run.total)
    <3>1. arc = pending[1].s
      <4>1. arc <= pending[1].s /\ arc >= pending[1].s /\ pending[1].s \in Int /\ arc \in Int
        BY <1>1, <2>1, <2>4, <2>5
      <4> QED
        BY <4>1
    <3> QED
      BY <2>4, <2>5, <3>1
  <2> HIDE DEF Q, turn
  <2>7. /\ m \in Nat /\ done \in Seq(Q) /\ Len(done) = m + 1
        /\ \A i \in 1..m : done[i] = turned[i]
        /\ done[m + 1] = turn
    BY <2>1, <2>6, AppendProperties
  <2> HIDE DEF rest, done, l, m
  <2>8. \A i \in 1..l - 1 : i + 1 \in 1..l /\ 1 \in 1..l /\ 1 < i + 1
    BY <2>5
  <2>9. \A i \in 1..m + 1 : i \in 1..m \/ i = m + 1
    BY <2>7
  <2>10. \A i \in 1..l - 1 : arc <= rest[i].s
    BY <2>1, <2>5, <2>8
  <2>11. \A i, j \in 1..l - 1 : i < j => rest[i].s <= rest[j].s /\ rest[i].of # rest[j].of
    <3>1. ASSUME NEW i \in 1..l - 1, NEW j \in 1..l - 1, i < j
          PROVE  rest[i].s <= rest[j].s /\ rest[i].of # rest[j].of
      <4>1. i + 1 \in 1..l /\ j + 1 \in 1..l /\ i + 1 < j + 1
        BY <2>8, <3>1
      <4>2. \A a, b \in 1..l : a < b => pending[a].s <= pending[b].s /\ pending[a].of # pending[b].of
        BY <2>1 DEF l
      <4>3. rest[i] = pending[i + 1] /\ rest[j] = pending[j + 1]
        BY <2>5
      <4> QED
        BY <4>1, <4>2, <4>3
    <3> QED
      BY <3>1
  <2>12. \A i \in 1..m + 1 : done[i].at = NearestSample(done[i].of, run.total)
    BY <2>2, <2>6, <2>7, <2>9 DEF m
  <2>13. \A i \in 1..m : turned[i].of # turn.of
    BY <2>2, <2>5, <2>6 DEF l, m
  <2>14. \A i, j \in 1..m + 1 : done[i].of = done[j].of => i = j
    BY <2>2, <2>7, <2>9, <2>13 DEF m
  <2>15. \A i \in 1..m + 1, j \in 1..l - 1 : done[i].of # rest[j].of
    <3>1. ASSUME NEW i \in 1..m + 1, NEW j \in 1..l - 1 PROVE done[i].of # rest[j].of
      <4>1. rest[j] = pending[j + 1] /\ j + 1 \in 1..l /\ 1 \in 1..l /\ 1 < j + 1
        BY <2>5, <2>8
      <4>2. pending[1].of # pending[j + 1].of
        BY <2>1, <4>1 DEF l
      <4>3. \A k \in 1..m : turned[k].of # pending[j + 1].of
        BY <2>2, <4>1 DEF l, m
      <4> QED
        BY <2>6, <2>7, <2>9, <4>1, <4>2, <4>3
    <3> QED
      BY <3>1
  <2>16. ASSUME NEW t \in run.turns
         PROVE  (\E i \in 1..m + 1 : done[i].of = t) \/ (\E j \in 1..l - 1 : rest[j].of = t)
    <3>1. CASE \E i \in 1..m : turned[i].of = t
      <4>1. PICK i \in 1..m : turned[i].of = t
        BY <3>1
      <4>2. i \in 1..m + 1 /\ done[i] = turned[i]
        BY <2>7
      <4> QED
        BY <4>1, <4>2
    <3>2. CASE \E j \in 1..l : pending[j].of = t
      <4>1. PICK j \in 1..l : pending[j].of = t
        BY <3>2
      <4>2. CASE j = 1
        <5>1. m + 1 \in 1..m + 1 /\ done[m + 1].of = t
          BY <2>6, <2>7, <4>1, <4>2
        <5> QED
          BY <5>1
      <4>3. CASE j # 1
        <5> DEFINE k == j - 1
        <5>1. k \in 1..l - 1 /\ k + 1 = j
          BY <2>5, <4>3
        <5> HIDE DEF k
        <5>2. rest[k] = pending[j]
          BY <2>5, <5>1
        <5> QED
          BY <4>1, <5>1, <5>2
      <4> QED
        BY <4>2, <4>3
    <3> QED
      BY <2>3, <3>1, <3>2 DEF l, m
  <2>17. /\ run' = run /\ arc' = arc /\ pending' = rest /\ turned' = done
    BY <1>1 DEF rest, done, turn
  <2>18. TurnsAre(run, arc, rest, done)
    BY <2>5, <2>7, <2>10, <2>11, <2>12, <2>14, <2>15, <2>16 DEF TurnsAre, P, Q
  <2> QED
    BY <2>17, <2>18 DEF PivotInv
<1> QED
  BY <1>3, <1>6, <1>7, <1>8 DEF WalkInv

(* One more stop is held, where it stands and for as long as it asks.      *)
LEMMA HoldsOne ==
  ASSUME RunIs, HoldInv, nextStop \in 1..Len(run.stops), run' = run, nextStop' = nextStop + 1,
         NEW at \in 0..run.total, ~(run.mode = "periodic" /\ StopAtEnd) => at = run.stops[nextStop].s,
         held' = Append(held, [at |-> at, n |-> Ticks(run.stops[nextStop])])
  PROVE  HoldInv'
<1> DEFINE H == [at : 0..run.total, n : Nat]
           h == [at |-> at, n |-> Ticks(run.stops[nextStop])]
           k == Len(held)
           more == Append(held, h)
<1>1. held \in Seq(H) /\ h \in H
  BY RunFacts DEF HoldInv
<1>2. ~(run.mode = "periodic" /\ StopAtEnd) =>
        /\ k = nextStop - 1
        /\ \A i \in 1..k : held[i] = [at |-> run.stops[i].s, n |-> Ticks(run.stops[i])]
        /\ h = [at |-> run.stops[nextStop].s, n |-> Ticks(run.stops[nextStop])]
  BY DEF HoldInv
<1>3. nextStop \in Nat
  OBVIOUS
<1> HIDE DEF H, h
<1>4. /\ k \in Nat /\ more \in Seq(H) /\ Len(more) = k + 1 /\ more[k + 1] = h
      /\ \A i \in 1..k : more[i] = held[i]
  BY <1>1, AppendProperties
<1> HIDE DEF more, k
<1>5. ~(run.mode = "periodic" /\ StopAtEnd) =>
        /\ Len(more) = nextStop
        /\ \A i \in 1..Len(more) : more[i] = [at |-> run.stops[i].s, n |-> Ticks(run.stops[i])]
  <2>1. ASSUME ~(run.mode = "periodic" /\ StopAtEnd)
        PROVE  /\ Len(more) = nextStop
               /\ \A i \in 1..Len(more) : more[i] = [at |-> run.stops[i].s, n |-> Ticks(run.stops[i])]
    <3>1. k = nextStop - 1 /\ Len(more) = k + 1 /\ Len(more) = nextStop
      BY <1>2, <1>3, <1>4, <2>1
    <3>2. \A i \in 1..k + 1 : i \in 1..k \/ i = k + 1
      BY <1>4
    <3>3. more[k + 1] = [at |-> run.stops[k + 1].s, n |-> Ticks(run.stops[k + 1])]
      BY <1>2, <1>3, <1>4, <2>1, <3>1
    <3> QED
      BY <1>2, <1>4, <2>1, <3>1, <3>2, <3>3
  <2> QED
    BY <2>1
<1>6. held' = more /\ (StopAtEnd' <=> StopAtEnd)
  BY DEF more, h, StopAtEnd
<1> QED
  BY <1>3, <1>4, <1>5, <1>6 DEF HoldInv, H

(* A moving sample: the stop here is held, and the step that follows ends  *)
(* at the next stop at the latest.                                         *)
LEMMA AdvanceWalk == ASSUME WalkInv, Advance PROVE WalkInv'
<1> DEFINE hold == IF HoldDue THEN Ticks(run.stops[nextStop]) ELSE 0
           L == Len(run.stops)
<1>1. /\ run' = run /\ stage = "walk" /\ stage' = stage /\ pending' = pending /\ turned' = turned
      /\ arc < run.total /\ (pending = <<>> \/ ~(arc >= Head(pending).s))
      /\ count' = count + (1 + hold)
      /\ last' = IF 1 + hold = 0 THEN last ELSE [at |-> arc, from |-> time, stamp |-> time + (1 + hold) - 1]
      /\ held' = IF HoldDue THEN Append(held, [at |-> arc, n |-> hold]) ELSE held
      /\ nextStop' = IF HoldDue THEN nextStop + 1 ELSE nextStop
      /\ time' = time + 1 + hold
      /\ \E step \in 1..Min({MaxStep, Room(nextStop')}) : arc' = arc + step
  BY DEF Advance, Walking, TurnDue, SampleHere, Emit
<1>2. /\ run.total \in Nat /\ L \in Nat /\ arc \in 0..run.total /\ nextStop \in 1..L + 1
      /\ \A i \in 1..L : run.stops[i].s \in 0..run.total /\ Ticks(run.stops[i]) \in Nat
      /\ \A i, j \in 1..L : i < j => run.stops[i].s < run.stops[j].s
      /\ \A i \in 1..L : IF i < nextStop THEN run.stops[i].s <= arc ELSE arc <= run.stops[i].s
  BY RunFacts DEF WalkInv, ArcInv
<1>3. HoldDue <=> nextStop <= L /\ run.stops[nextStop].s = arc
  BY DEF HoldDue
<1>4. hold \in Nat /\ (HoldDue => hold = Ticks(run.stops[nextStop]))
  BY <1>2, <1>3
<1> HIDE DEF hold, L
<1> DEFINE n == nextStop'
<1>5. n \in 1..L + 1 /\ n \in Nat
  BY <1>1, <1>2, <1>3
<1>6. \A i \in 1..L : IF i < n THEN run.stops[i].s <= arc ELSE arc < run.stops[i].s
  <2>1. ASSUME NEW i \in 1..L PROVE IF i < n THEN run.stops[i].s <= arc ELSE arc < run.stops[i].s
    <3>1. CASE HoldDue
      <4>1. n = nextStop + 1 /\ nextStop \in 1..L /\ run.stops[nextStop].s = arc
        BY <1>1, <1>2, <1>3, <3>1
      <4>2. CASE i < nextStop
        BY <1>2, <4>1, <4>2
      <4>3. CASE i = nextStop
        BY <1>2, <4>1, <4>3
      <4>4. CASE i > nextStop
        <5>1. run.stops[nextStop].s < run.stops[i].s
          BY <1>2, <4>1, <4>4
        <5> QED
          BY <1>2, <4>1, <4>4, <5>1
      <4> QED
        BY <1>2, <4>2, <4>3, <4>4
    <3>2. CASE ~HoldDue
      <4>1. n = nextStop
        BY <1>1, <3>2
      <4>2. CASE i < nextStop
        BY <1>2, <4>1, <4>2
      <4>3. CASE i >= nextStop
        <5>1. nextStop \in 1..L /\ run.stops[nextStop].s # arc /\ arc <= run.stops[nextStop].s
          BY <1>2, <1>3, <3>2, <4>3
        <5>2. i = nextStop \/ run.stops[nextStop].s < run.stops[i].s
          BY <1>2, <4>3, <5>1
        <5>3. arc < run.stops[nextStop].s
          BY <1>2, <5>1
        <5> QED
          BY <1>2, <4>1, <4>3, <5>1, <5>2, <5>3
      <4> QED
        BY <1>2, <4>2, <4>3
    <3> QED
      BY <3>1, <3>2
  <2> QED
    BY <2>1
<1>7. PICK step \in 1..Min({MaxStep, Room(n)}) : arc' = arc + step
  BY <1>1
<1> HIDE DEF n
<1>8. /\ Min({MaxStep, Room(n)}) \in Nat /\ Min({MaxStep, Room(n)}) <= run.total - arc
      /\ n <= L /\ run.stops[n].s > arc => Min({MaxStep, Room(n)}) <= run.stops[n].s - arc
  BY <1>1, <1>2, <1>5, RoomIs DEF WalkInv, L
<1> DEFINE q == Min({MaxStep, Room(n)})
<1>9. step \in 1..q /\ q \in Nat /\ q <= run.total - arc
      /\ (n <= L /\ run.stops[n].s > arc => q <= run.stops[n].s - arc)
  BY <1>8
<1> HIDE DEF q
<1>10. arc' \in 0..run.total /\ arc < arc' /\ arc' > 0
  BY <1>2, <1>7, <1>9
<1>11. \A i \in 1..L : IF i < n THEN run.stops[i].s <= arc' ELSE arc' <= run.stops[i].s
  <2>1. ASSUME NEW i \in 1..L PROVE IF i < n THEN run.stops[i].s <= arc' ELSE arc' <= run.stops[i].s
    <3>1. CASE i < n
      BY <1>2, <1>6, <1>10, <3>1
    <3>2. CASE ~(i < n)
      <4>1. n \in 1..L /\ arc < run.stops[n].s
        BY <1>2, <1>5, <1>6, <3>2
      <4>2. arc' <= run.stops[n].s
        BY <1>2, <1>7, <1>9, <4>1
      <4>3. i = n \/ run.stops[n].s < run.stops[i].s
        BY <1>2, <1>5, <3>2, <4>1
      <4> QED
        BY <1>2, <1>10, <3>2, <4>1, <4>2, <4>3
    <3> QED
      BY <3>1, <3>2
  <2> QED
    BY <2>1
<1>12. RunIs'
  BY <1>1 DEF WalkInv, RunIs, Requests, StopsAre
<1>13. ClockInv'
  <2>1. time \in Nat /\ count \in Nat
    BY DEF WalkInv, ClockInv
  <2>2. last' = [at |-> arc, from |-> time, stamp |-> time + (1 + hold) - 1]
    BY <1>1, <1>4
  <2>3. /\ time' \in Nat /\ count' \in Nat /\ last'.stamp \in Int /\ last'.from \in Int
        /\ last'.stamp = time' - 1
    BY <1>1, <1>4, <2>1, <2>2
  <2> QED
    BY <2>3 DEF ClockInv
<1>14. ArcInv'
  <2>1. last'.at = arc /\ count' > 0 /\ last'.at \in 0..arc'
    <3>1. count \in Nat
      BY DEF WalkInv, ClockInv
    <3> QED
      BY <1>1, <1>2, <1>4, <1>10, <3>1
  <2>2. stage' = "walk" /\ Len(run'.stops) = L /\ run' = run
    BY <1>1 DEF L
  <2> QED
    BY <1>5, <1>10, <1>11, <2>1, <2>2 DEF ArcInv, n
<1>15. HoldInv'
  <2>1. CASE HoldDue
    <3>1. /\ nextStop \in 1..Len(run.stops) /\ arc = run.stops[nextStop].s /\ nextStop' = nextStop + 1
          /\ held' = Append(held, [at |-> arc, n |-> Ticks(run.stops[nextStop])])
      <4>1. nextStop \in 1..L /\ arc = run.stops[nextStop].s /\ nextStop' = nextStop + 1
        BY <1>1, <1>2, <1>3, <2>1
      <4>2. hold = Ticks(run.stops[nextStop]) /\ held' = Append(held, [at |-> arc, n |-> hold])
        BY <1>1, <1>4, <2>1
      <4> QED
        BY <4>1, <4>2 DEF L
    <3> QED
      BY <1>1, <1>2, <3>1, HoldsOne DEF WalkInv
  <2>2. CASE ~HoldDue
    <3>1. StopAtEnd' <=> StopAtEnd
      BY <1>1 DEF StopAtEnd
    <3> QED
      BY <1>1, <2>2, <3>1 DEF WalkInv, HoldInv, Ticks
  <2> QED
    BY <2>1, <2>2
<1>16. PivotInv'
  <2> DEFINE P == Pivots(run.turns, run.total)
  <2>1. /\ pending \in Seq(P)
        /\ \A i, j \in 1..Len(pending) : i < j => pending[i].s <= pending[j].s
    BY DEF WalkInv, PivotInv, TurnsAre
  <2>2. ASSUME NEW p \in P
        PROVE  p.s \in 0..run.total /\ \E j \in 1..L : run.stops[j].s = p.s
    <3>1. PICK t \in run.turns : p = [of |-> t, s |-> NearestSample(t, run.total)]
      BY DEF Pivots
    <3>2. \E j \in 1..L : run.stops[j].s = NearestSample(t, run.total)
      BY DEF WalkInv, RunIs, StopsAre, L
    <3> QED
      BY <1>2, <3>1, <3>2
  <2> HIDE DEF P
  <2>3. Len(pending) \in Nat /\ \A i \in 1..Len(pending) : pending[i] \in P
    BY <2>1
  <2>4. ASSUME NEW i \in 1..Len(pending) PROVE arc' <= pending[i].s
    <3>1. 1 \in 1..Len(pending) /\ pending # <<>> /\ Head(pending) = pending[1]
      BY <2>1, <2>3
    <3>2. pending[1] \in P /\ pending[i] \in P
      BY <2>3, <3>1
    <3>3. pending[1].s \in 0..run.total /\ pending[i].s \in 0..run.total
      BY <2>2, <3>2
    <3>4. arc < pending[1].s
      BY <1>1, <1>2, <3>1, <3>3
    <3>5. i = 1 \/ pending[1].s <= pending[i].s
      BY <2>1, <3>1
    <3>6. PICK j \in 1..L : run.stops[j].s = pending[i].s
      BY <2>2, <3>2
    <3>7. arc < run.stops[j].s
      BY <1>2, <3>3, <3>4, <3>5, <3>6
    <3>8. ~(j < n)
      BY <1>2, <1>6, <3>7
    <3> QED
      BY <1>11, <3>6, <3>8
  <2> QED
    BY <1>1, <2>4, PivotStays DEF WalkInv
<1> QED
  BY <1>12, <1>13, <1>14, <1>15, <1>16 DEF WalkInv

(* The Max of the library is the greatest member of a set.                 *)
LEMMA TopIs ==
  ASSUME NEW t \in Nat, NEW B \in SUBSET (0..t), t \in B
  PROVE  Max(B) = t
<1>1. Max(B) \in B /\ \A k \in B : Max(B) >= k
  <2>1. \A k \in B : t >= k
    OBVIOUS
  <2> QED
    BY <2>1 DEF Max
<1>2. \A m \in B : m >= t => m = t
  OBVIOUS
<1> QED
  BY <1>1, <1>2

(* The walk arrives with a sample on the end, unless it is a lap.          *)
LEMMA ArriveWalk == ASSUME WalkInv, Arrive PROVE WalkInv'
<1> DEFINE n == IF Still(run.total) /\ run.mode # "periodic" /\ count > 0 /\ last.at < run.total THEN 1 ELSE 0
<1>1. /\ run' = run /\ arc' = arc /\ nextStop' = nextStop /\ pending' = pending
      /\ held' = held /\ turned' = turned /\ stage = "walk" /\ stage' = "end" /\ arc >= run.total
      /\ time' = time + n /\ count' = count + n
      /\ last' = IF n = 0 THEN last ELSE [at |-> run.total, from |-> time, stamp |-> time + n - 1]
  BY DEF Arrive, Emit
<1>2. /\ run.total \in Nat \ {0} /\ arc \in 0..run.total /\ arc = run.total /\ time \in Nat /\ count \in Nat
      /\ count > 0 /\ last.at \in 0..arc /\ last.stamp \in Int /\ last.from \in Int
      /\ (~StopAtEnd => last.stamp = time - 1)
  BY <1>1, RunFacts DEF WalkInv, ClockInv, ArcInv
<1>3. run.mode # "periodic" => Still(run.total)
  <2> DEFINE grid == Samples(run.total)
             B == {y \in grid : y <= run.total}
             A == {y \in grid : y >= run.total}
  <2>1. grid \in SUBSET (0..run.total) /\ run.total \in grid
    BY <1>2 DEF Samples
  <2>2. A = {run.total} /\ run.total \in B /\ A \in SUBSET Nat /\ A # {} /\ B \in SUBSET (0..run.total)
    BY <1>2, <2>1
  <2> HIDE DEF A, B
  <2>3. Min(A) = run.total
    BY <2>2, MinIs
  <2>4. Max(B) = run.total
    BY <1>2, <2>2, TopIs
  <2> HIDE DEF grid
  <2>5. Still(run.total) <=> {Max(B), Min(A)} \subseteq run.zeros
    BY <1>2 DEF Still, A, B, grid
  <2> QED
    BY <2>3, <2>4, <2>5 DEF WalkInv, RunIs
<1>4. n \in Nat /\ (run.mode # "periodic" /\ last.at < run.total => n = 1)
  BY <1>2, <1>3
<1> HIDE DEF n
<1>5. RunIs'
  BY <1>1 DEF WalkInv, RunIs, Requests, StopsAre
<1>6. StopAtEnd' <=> StopAtEnd
  BY <1>1 DEF StopAtEnd
<1>7. /\ time' \in Nat /\ count' \in Nat /\ last'.stamp \in Int /\ last'.from \in Int
      /\ (~StopAtEnd => last'.stamp = time' - 1)
      /\ count' > 0 /\ last'.at \in 0..arc /\ (run.mode # "periodic" => last'.at = run.total)
  BY <1>1, <1>2, <1>4
<1>8. ClockInv' /\ ArcInv'
  BY <1>1, <1>2, <1>6, <1>7 DEF WalkInv, ClockInv, ArcInv
<1>9. HoldInv'
  BY <1>1, <1>6 DEF WalkInv, HoldInv, Ticks
<1>10. PivotInv'
  <2>1. \A i \in 1..Len(pending) : arc' <= pending[i].s
    BY <1>1 DEF WalkInv, PivotInv, TurnsAre
  <2> QED
    BY <1>1, <2>1, PivotStays DEF WalkInv
<1> QED
  BY <1>5, <1>8, <1>9, <1>10 DEF WalkInv

(* A stop on the end of the path is held after the arrival.                *)
LEMMA HoldWalk == ASSUME WalkInv, HoldAtEnd PROVE WalkInv'
<1> DEFINE n == Ticks(run.stops[nextStop])
           L == Len(run.stops)
<1>1. /\ run' = run /\ arc' = arc /\ nextStop' = nextStop + 1 /\ pending' = pending
      /\ held' = Append(held, [at |-> last.at, n |-> n]) /\ turned' = turned
      /\ stage = "end" /\ stage' = stage /\ time' = time + n /\ count' = count + n
      /\ last' = IF n = 0 THEN last
                 ELSE [at |-> last.at, from |-> time + 1, stamp |-> time + 1 + n - 1]
  BY DEF HoldAtEnd, Emit
<1>2. nextStop <= L /\ run.stops[nextStop].s = run.total
  BY DEF HoldAtEnd, EndStopDue
<1>3. /\ run.total \in Nat \ {0} /\ L \in Nat /\ arc = run.total /\ time \in Nat /\ count \in Nat
      /\ count > 0 /\ last.at \in 0..arc /\ last.stamp \in Int /\ last.from \in Int
      /\ (run.mode # "periodic" => last.at = run.total) /\ nextStop \in 1..L + 1
      /\ \A i \in 1..L : run.stops[i].s \in 0..run.total /\ Ticks(run.stops[i]) \in Nat
      /\ \A i, j \in 1..L : i < j => run.stops[i].s < run.stops[j].s
  <2>1. RunIs /\ ClockInv /\ ArcInv
    BY DEF WalkInv
  <2>2. arc = run.total /\ (run.mode # "periodic" => last.at = run.total)
    BY <1>1, <2>1 DEF ArcInv
  <2>3. /\ run.total \in Nat \ {0} /\ L \in Nat
        /\ \A i \in 1..L : run.stops[i].s \in 0..run.total /\ Ticks(run.stops[i]) \in Nat
        /\ \A i, j \in 1..L : i < j => run.stops[i].s < run.stops[j].s
    BY <2>1, RunFacts
  <2>4. /\ time \in Nat /\ count \in Nat /\ last.stamp \in Int /\ last.from \in Int
        /\ last.at \in 0..arc /\ (arc > 0 => count > 0) /\ nextStop \in 1..L + 1
    BY <2>1 DEF ClockInv, ArcInv
  <2> QED
    BY <2>2, <2>3, <2>4
<1>4. nextStop \in 1..L /\ n \in Nat
  BY <1>2, <1>3
<1>5. StopAtEnd /\ (StopAtEnd' <=> StopAtEnd)
  BY <1>1, <1>2, <1>4, RunFacts DEF StopAtEnd, L, WalkInv
<1> HIDE DEF n, L
<1>6. /\ time' \in Nat /\ count' \in Nat /\ count' > 0
      /\ last'.stamp \in Int /\ last'.from \in Int /\ last'.at = last.at
  BY SMTT(30), <1>1, <1>3, <1>4
<1>7. RunIs'
  BY <1>1 DEF WalkInv, RunIs, Requests, StopsAre
<1>8. ClockInv'
  BY <1>5, <1>6 DEF ClockInv
<1>9. ArcInv'
  <2>1. nextStop' \in 1..L + 1
    BY <1>1, <1>3, <1>4
  <2>2. \A i \in 1..L : IF i < nextStop' THEN run.stops[i].s <= arc ELSE arc <= run.stops[i].s
    <3>1. ASSUME NEW i \in 1..L
          PROVE  IF i < nextStop' THEN run.stops[i].s <= arc ELSE arc <= run.stops[i].s
      <4>1. run.stops[i].s <= arc
        BY <1>3
      <4>2. ~(i > nextStop)
        <5>1. i > nextStop => run.stops[nextStop].s < run.stops[i].s
          BY <1>3, <1>4
        <5> QED
          BY <1>2, <1>3, <4>1, <5>1
      <4> QED
        BY <1>1, <1>3, <4>1, <4>2
    <3> QED
      BY <3>1
  <2>3. ~EndStopDue' \/ stage' = "end"
    BY <1>1
  <2> QED
    BY <1>1, <1>3, <1>6, <2>1, <2>2 DEF ArcInv, L
<1>10. HoldInv'
  <2>1. /\ nextStop \in 1..Len(run.stops) /\ last.at \in 0..run.total
        /\ held' = Append(held, [at |-> last.at, n |-> Ticks(run.stops[nextStop])])
    BY <1>1, <1>3, <1>4 DEF L, n
  <2>2. ~(run.mode = "periodic" /\ StopAtEnd) => last.at = run.stops[nextStop].s
    BY <1>2, <1>3, <1>5
  <2> QED
    BY <1>1, <2>1, <2>2, HoldsOne DEF WalkInv
<1>11. PivotInv'
  <2>1. \A i \in 1..Len(pending) : arc' <= pending[i].s
    BY <1>1 DEF WalkInv, PivotInv, TurnsAre
  <2> QED
    BY <1>1, <2>1, PivotStays DEF WalkInv
<1> QED
  BY <1>7, <1>8, <1>9, <1>10, <1>11 DEF WalkInv

(* The standing end is the last of it.                                     *)
LEMMA EndWalk == ASSUME WalkInv, StandingEnd PROVE WalkInv'
<1>1. /\ run' = run /\ arc' = arc /\ nextStop' = nextStop /\ pending' = pending
      /\ held' = held /\ turned' = turned /\ stage = "end" /\ stage' = "done" /\ ~EndStopDue
      /\ time' = time + EndStand /\ count' = count + EndStand
      /\ last' = IF EndStand = 0 THEN last
                 ELSE [at |-> run.total, from |-> time, stamp |-> time + EndStand - 1]
  BY DEF StandingEnd, Emit
<1>2. EndStand \in Nat /\ time \in Nat /\ count \in Nat /\ last.stamp \in Int /\ last.from \in Int
  BY WalkAssumption DEF WalkInv, ClockInv
<1>3. RunIs'
  BY <1>1 DEF WalkInv, RunIs, Requests, StopsAre
<1>4. /\ run.total \in Nat \ {0} /\ arc = run.total /\ last.at \in 0..arc /\ count > 0
      /\ (run.mode # "periodic" => last.at = run.total)
  BY <1>1, RunFacts DEF WalkInv, ArcInv
<1>5. /\ time' \in Nat /\ count' \in Nat /\ last'.stamp \in Int /\ last'.from \in Int /\ count' > 0
      /\ (~StopAtEnd => last'.stamp = time' - 1) /\ last'.at \in 0..arc
      /\ (run.mode # "periodic" => last'.at = run.total)
  BY <1>1, <1>2, <1>4 DEF WalkInv, ClockInv
<1>6. (StopAtEnd' <=> StopAtEnd) /\ (EndStopDue' <=> EndStopDue)
  BY <1>1 DEF StopAtEnd, EndStopDue
<1>7. ClockInv' /\ ArcInv'
  BY <1>1, <1>4, <1>5, <1>6 DEF WalkInv, ClockInv, ArcInv
<1>8. HoldInv'
  BY <1>1, <1>6 DEF WalkInv, HoldInv, Ticks
<1>9. PivotInv'
  <2>1. \A i \in 1..Len(pending) : arc' <= pending[i].s
    BY <1>1 DEF WalkInv, PivotInv, TurnsAre
  <2> QED
    BY <1>1, <2>1, PivotStays DEF WalkInv
<1> QED
  BY <1>3, <1>7, <1>8, <1>9 DEF WalkInv

(* The walk keeps what is between its stops, its clock and its turns.      *)
THEOREM WalkIsInductive == WalkSpec => []WalkInv
<1>1. WalkInit => WalkInv
  BY StartsWalk
<1>2. WalkInv /\ [WalkNext]_walkVars => WalkInv'
  BY StartWalk, TurnWalk, AdvanceWalk, StoppedWalk, ArriveWalk, HoldWalk, EndWalk, StillWalk DEF WalkNext
<1> QED
  BY <1>1, <1>2, PTL DEF WalkSpec

(* A sample is stamped with the clock.                                     *)
THEOREM StampsAreInOrder == WalkSpec => StampsFollow
<1> DEFINE A == [count' > count => last'.from = last.stamp + 1 \/ StopAtEnd]_walkVars
<1>1. ASSUME WalkInv, [WalkNext]_walkVars PROVE A
  <2>1. ASSUME ~StopAtEnd, count' > count, WalkNext PROVE last'.from = last.stamp + 1
    <3>1. time \in Nat /\ count \in Nat /\ last.stamp = time - 1
      BY <1>1, <2>1 DEF WalkInv, ClockInv
    <3>2. last.stamp + 1 = time
      BY <3>1
    <3>3. RunIs /\ ArcInv
      BY <1>1 DEF WalkInv
    <3>4. CASE StandingStart
      BY <2>1, <3>1, <3>2, <3>4 DEF StandingStart, Emit
    <3>5. CASE Turn
      BY <2>1, <3>1, <3>2, <3>5 DEF Turn, Emit
    <3>6. CASE Advance
      <4> DEFINE k == 1 + IF HoldDue THEN Ticks(run.stops[nextStop]) ELSE 0
      <4>1. count' = count + k /\ last' = IF k = 0 THEN last ELSE [at |-> arc, from |-> time, stamp |-> time + k - 1]
        BY <3>6 DEF Advance, SampleHere, Emit
      <4> HIDE DEF k
      <4>2. k # 0
        BY <2>1, <3>1, <4>1
      <4> QED
        BY <3>2, <4>1, <4>2
    <3>7. CASE GiveUp \/ OutOfBudget
      BY <2>1, <3>1, <3>7 DEF GiveUp, OutOfBudget
    <3>8. CASE Arrive
      BY <2>1, <3>1, <3>2, <3>8 DEF Arrive, Emit
    <3>9. CASE HoldAtEnd
      BY <2>1, <3>3, <3>9, RunFacts DEF HoldAtEnd, EndStopDue, StopAtEnd, ArcInv
    <3>10. CASE StandingEnd
      BY <2>1, <3>1, <3>2, <3>10 DEF StandingEnd, Emit
    <3> QED
      BY <2>1, <3>4, <3>5, <3>6, <3>7, <3>8, <3>9, <3>10 DEF WalkNext
  <2> QED
    BY <1>1, <2>1
<1>2. WalkInv /\ [WalkNext]_walkVars => A
  BY <1>1
<1> QED
  BY <1>2, WalkIsInductive, PTL DEF WalkSpec, StampsFollow

(* Every variable of the walk keeps its type.                              *)
THEOREM WalkIsTyped == WalkSpec => []WalkTypeOK
<1>1. ASSUME WalkInv PROVE WalkTypeOK
  <2>1. /\ run.total \in Lengths /\ run.mode \in Modes /\ arc \in 0..run.total
        /\ time \in Nat /\ count \in Nat /\ nextStop \in 1..Len(run.stops) + 1
        /\ last.at \in 0..run.total /\ last.stamp \in Int /\ last.from \in Int
    <3>1. RunIs /\ ClockInv /\ ArcInv
      BY <1>1 DEF WalkInv
    <3>2. run.total \in Nat /\ arc \in 0..run.total /\ last.at \in 0..arc
      BY <3>1, RunFacts DEF ArcInv
    <3> QED
      BY <3>1, <3>2 DEF RunIs, ClockInv, ArcInv
  <2> DEFINE H == [at : 0..run.total, n : Nat]
             P == Pivots(run.turns, run.total)
             Q == [of : run.turns, at : 0..run.total]
  <2>2. held \in Seq(H) /\ pending \in Seq(P) /\ turned \in Seq(Q)
    BY <1>1 DEF WalkInv, HoldInv, PivotInv, TurnsAre
  <2>3. /\ \A h \in H : h.at \in 0..run.total /\ h.n \in Nat
        /\ \A p \in P : p.of \in run.turns
        /\ \A q \in Q : q.of \in run.turns
    BY DEF Pivots
  <2> HIDE DEF H, P, Q
  <2>4. /\ \A i \in DOMAIN held : held[i] \in H
        /\ \A i \in DOMAIN pending : pending[i] \in P
        /\ \A i \in DOMAIN turned : turned[i] \in Q
    BY <2>2
  <2>5. stage \in {"start", "walk", "end", "done", "stuck", "exhausted"}
    BY <1>1 DEF WalkInv, ArcInv
  <2> QED
    BY <2>1, <2>3, <2>4, <2>5 DEF WalkTypeOK
<1>2. WalkInv => WalkTypeOK
  BY <1>1
<1> QED
  BY <1>2, WalkIsInductive, PTL

(* The longer of one sample and a duration.                                *)
LEMMA AtLeastOne ==
  ASSUME NEW d \in Nat PROVE Max({1, d}) = IF d = 0 THEN 1 ELSE d
<1>1. Max({1, d}) \in {1, d} /\ \A k \in {1, d} : Max({1, d}) >= k
  <2>1. CASE d >= 1
    <3>1. \A k \in {1, d} : d >= k
      BY <2>1
    <3> QED
      BY <3>1 DEF Max
  <2>2. CASE d = 0
    <3>1. \A k \in {1, d} : 1 >= k
      BY <2>2
    <3> QED
      BY <3>1 DEF Max
  <2> QED
    BY <2>1, <2>2
<1> QED
  BY <1>1

(* Once the walk is over, the holds are the stops.                         *)
LEMMA AllAreHeld ==
  ASSUME WalkInv, stage = "done", ~(run.mode = "periodic" /\ StopAtEnd)
  PROVE  /\ Len(held) = Len(run.stops) /\ DOMAIN held = 1..Len(run.stops)
         /\ \A i \in 1..Len(run.stops) : held[i].at = run.stops[i].s /\ held[i].n = Ticks(run.stops[i])
<1>1. /\ run.total \in Nat /\ Len(run.stops) \in Nat
      /\ \A i \in 1..Len(run.stops) : run.stops[i].s \in 0..run.total
  BY RunFacts DEF WalkInv
<1>2. /\ arc = run.total /\ ~EndStopDue /\ nextStop \in 1..Len(run.stops) + 1
      /\ \A i \in 1..Len(run.stops) : ~(i < nextStop) => arc <= run.stops[i].s
  BY DEF WalkInv, ArcInv
<1>3. nextStop = Len(run.stops) + 1
  <2>1. ASSUME nextStop <= Len(run.stops) PROVE FALSE
    <3>1. nextStop \in 1..Len(run.stops) /\ run.stops[nextStop].s # run.total
      BY <1>1, <1>2, <2>1 DEF EndStopDue
    <3>2. run.total <= run.stops[nextStop].s /\ run.stops[nextStop].s \in 0..run.total
      BY <1>1, <1>2, <3>1
    <3> QED
      BY <1>1, <3>1, <3>2
  <2> QED
    BY <1>1, <1>2, <2>1
<1> DEFINE H == [at : 0..run.total, n : Nat]
<1>4. held \in Seq(H) /\ Len(held) = nextStop - 1
      /\ \A i \in 1..Len(held) : held[i] = [at |-> run.stops[i].s, n |-> Ticks(run.stops[i])]
  BY DEF WalkInv, HoldInv
<1> HIDE DEF H
<1>5. Len(held) = Len(run.stops) /\ DOMAIN held = 1..Len(held)
  BY <1>1, <1>3, <1>4
<1> QED
  BY <1>4, <1>5

(* Every standstill asked for is one, where and as long as asked.          *)
THEOREM StandsAreHeld == WalkSpec => []StandsAsAsked
<1>1. ASSUME WalkInv PROVE NextStopAhead
  <2>1. /\ DOMAIN run.stops = 1..Len(run.stops)
        /\ \A i, j \in 1..Len(run.stops) : i < j => run.stops[i].s < run.stops[j].s
    BY <1>1, RunFacts DEF WalkInv
  <2>2. nextStop \in Int /\ \A i \in 1..Len(run.stops) : ~(i < nextStop) => arc <= run.stops[i].s
    BY <1>1 DEF WalkInv, ArcInv
  <2> QED
    BY <2>1, <2>2 DEF NextStopAhead
<1>2. ASSUME WalkInv PROVE HeldAsAsked
  <2> SUFFICES ASSUME stage = "done", ~(run.mode = "periodic" /\ StopAtEnd), NEW y \in 0..run.total
               PROVE  LET wanted == {r \in run.dwells : NearestSample(r.s, run.total) = y}
                          due    == MapThenSumSet(LAMBDA r : r.d, wanted)
                          asked  == wanted # {} \/ \E t \in run.turns : NearestSample(t, run.total) = y
                          given  == {i \in DOMAIN held : held[i].at = y}
                      IN  IF asked
                          THEN \E i \in given : given = {i} /\ held[i].n = Max({1, due})
                          ELSE given = {}
    BY DEF HeldAsAsked
  <2> DEFINE L == Len(run.stops)
             wanted == {r \in run.dwells : NearestSample(r.s, run.total) = y}
             asked == wanted # {} \/ \E t \in run.turns : NearestSample(t, run.total) = y
             given == {i \in DOMAIN held : held[i].at = y}
  <2>1. /\ DOMAIN held = 1..L
        /\ \A i \in 1..L : held[i].at = run.stops[i].s /\ held[i].n = Ticks(run.stops[i])
    BY <1>2, AllAreHeld
  <2>2. /\ L \in Nat /\ \A i \in 1..L : run.stops[i].d \in Nat /\ run.stops[i].s \in 0..run.total
        /\ \A i, j \in 1..L : i < j => run.stops[i].s < run.stops[j].s
    BY <1>2, RunFacts DEF WalkInv
  <2>3. asked => \E i \in 1..L : run.stops[i].s = y
    BY SMTT(30), <1>2 DEF WalkInv, RunIs, StopsAre
  <2>4. \A i \in 1..L : run.stops[i].s = y =>
          asked /\ run.stops[i].d = Sum({r \in run.dwells : NearestSample(r.s, run.total) = y})
    BY ZenonT(60), <1>2 DEF WalkInv, RunIs, StopsAre
  <2>5. \A i, j \in 1..L : run.stops[i].s = y /\ run.stops[j].s = y => i = j
    <3>1. ASSUME NEW i \in 1..L, NEW j \in 1..L, run.stops[i].s = y, run.stops[j].s = y PROVE i = j
      <4>1. ~(i < j) /\ ~(j < i)
        BY <2>2, <3>1
      <4> QED
        BY <2>2, <4>1
    <3> QED
      BY <3>1
  <2>6. MapThenSumSet(LAMBDA r : r.d, wanted) = Sum(wanted)
    BY DEF Sum
  <2> HIDE DEF L, asked
  <2>7. CASE asked
    <3>1. PICK i \in 1..L : run.stops[i].s = y
      BY <2>3, <2>7
    <3>2. i \in given /\ given = {i}
      BY <2>1, <2>5, <3>1
    <3>3. run.stops[i].d = Sum(wanted) /\ Sum(wanted) \in Nat
      BY <2>2, <2>4, <3>1
    <3>4. held[i].n = Max({1, Sum(wanted)})
      BY <2>1, <3>3, AtLeastOne DEF Ticks
    <3> HIDE DEF given
    <3> QED
      BY <2>6, <2>7, <3>2, <3>4 DEF asked, given
  <2>8. CASE ~asked
    <3>1. given = {}
      BY <2>1, <2>4, <2>8
    <3> QED
      BY <2>8, <3>1 DEF asked
  <2> QED
    BY <2>7, <2>8
<1>3. ASSUME WalkInv PROVE TurnsAtStandstill
  <2> DEFINE P == Pivots(run.turns, run.total)
             Q == [of : run.turns, at : 0..run.total]
             m == Len(turned)
             l == Len(pending)
  <2>1. /\ pending \in Seq(P) /\ turned \in Seq(Q)
        /\ \A i \in 1..l : arc <= pending[i].s
        /\ \A i \in 1..m : turned[i].at = NearestSample(turned[i].of, run.total)
        /\ \A i, j \in 1..m : turned[i].of = turned[j].of => i = j
        /\ \A t \in run.turns : (\E i \in 1..m : turned[i].of = t) \/ (\E j \in 1..l : pending[j].of = t)
    BY <1>3 DEF WalkInv, PivotInv, TurnsAre
  <2>2. run.total \in Nat /\ \A t \in run.turns : t \in 0..run.total
    BY <1>3, RunFacts DEF WalkInv
  <2>3. \A p \in P : p.s = NearestSample(p.of, run.total) /\ p.of \in run.turns
    BY DEF Pivots
  <2>4. \A q \in Q : q.of \in run.turns
    OBVIOUS
  <2> HIDE DEF P, Q
  <2>5. /\ DOMAIN turned = 1..m /\ \A i \in 1..m : turned[i] \in Q
        /\ \A i \in 1..l : pending[i] \in P
    BY <2>1
  <2> HIDE DEF l, m
  <2>6. ASSUME NEW t \in run.turns
        PROVE  /\ NearestSample(t, run.total) \in run.zeros /\ NearestSample(t, run.total) \in 0..run.total
               /\ Gap(NearestSample(t, run.total), t) < Spacing
    <3> DEFINE n == NearestSample(t, run.total)
    <3>1. n \in 0..run.total /\ Gap(t, n) < Spacing /\ t \in 0..run.total
      BY <2>2, NearestIs
    <3>2. \E i \in 1..Len(run.stops) : run.stops[i].s = n
      BY <1>3 DEF WalkInv, RunIs, StopsAre
    <3>3. n \in run.zeros
      BY <1>3, <3>2 DEF WalkInv, RunIs
    <3> HIDE DEF n
    <3>4. Gap(n, t) < Spacing
      BY <3>1, GapIs
    <3> QED
      BY <3>1, <3>3, <3>4 DEF n
  <2>7. ASSUME NEW i \in DOMAIN turned
        PROVE  /\ turned[i].at \in run.zeros /\ Gap(turned[i].at, turned[i].of) < Spacing
               /\ \A j \in DOMAIN turned : turned[i].of = turned[j].of => i = j
    BY <2>1, <2>4, <2>5, <2>6
  <2>8. ASSUME stage = "done", NEW t \in run.turns, NearestSample(t, run.total) < run.total
        PROVE  \E i \in DOMAIN turned : turned[i].of = t
    <3>1. arc = run.total
      BY <1>3, <2>8 DEF WalkInv, ArcInv
    <3>2. ASSUME NEW j \in 1..l, pending[j].of = t PROVE FALSE
      <4>1. run.total <= NearestSample(t, run.total)
        BY <2>1, <2>3, <2>5, <3>1, <3>2
      <4> QED
        BY <2>2, <2>6, <2>8, <4>1
    <3> QED
      BY <2>1, <2>5, <3>2
  <2> QED
    BY <2>7, <2>8 DEF TurnsAtStandstill
<1>4. WalkInv => StandsAsAsked
  BY <1>1, <1>2, <1>3 DEF StandsAsAsked, StopsAreMet
<1> QED
  BY <1>4, WalkIsInductive, PTL
================================================================================
