------------------------------- MODULE MapProofs -------------------------------
(***************************************************************************)
(* What MapImage promises, for any layers, chunks, contents and builds and *)
(* any number of patches, images and cache slots: an image that opens says *)
(* what was built and patched into it (EditsAreKept), and a reader hands   *)
(* out what its image says and refuses a derived layer exactly when a      *)
(* source of it moved (ReadsAreTrue).                                      *)
(*                                                                         *)
(* The builder and the patch fold over sequences.  What a fold comes to is *)
(* an induction over its length: every non-empty set of numbers has a      *)
(* least one (WFMin of the library), hence what holds of 0 and of n + 1    *)
(* whenever of n holds throughout; the function FoldLeft chooses exists    *)
(* by that induction, and a second one says what it holds after n records  *)
(* (AppendChunksHolds, BuilderCollects).                                   *)
(*                                                                         *)
(* The invariant, ImageInv, speaks of the image a hash was taken of: that  *)
(* one is Good, and what lies on disk differs from it in payloads only.    *)
(*                                                                         *)
(* The second half is what ImageEdits promises: a merge, a fold too, keeps *)
(* what was there and puts in the last of every key (MergedIs), so that an *)
(* edited image means what the script asked for (EditsMeanWhatWasAsked),   *)
(* and the structure on show is that of the source (StructureIsOfSource).  *)
(*                                                                         *)
(* The third part is what the planner reads from the mask of an image: the *)
(* distance transform is exact on a map of any size (TheClearanceIsKnown), *)
(* and the search that stops early still finds the nearest passable cell   *)
(* (TheNearestIsFound).                                                    *)
(***************************************************************************)
EXTENDS MapImage, ImageEdits, Clearance, WellFoundedInduction, SequenceTheorems, FiniteSetTheorems, TLAPS

(* A set of numbers has a least one, and what holds of 0 and of n + 1       *)
(* whenever it holds of n holds of all of them.                             *)
LEMMA LeastNatural ==
  ASSUME NEW T \in SUBSET Nat, T # {}
  PROVE  \E n \in T : \A m \in T : n <= m
<1> DEFINE R == OpToRel(<, Nat)
<1>1. IsWellFoundedOn(R, Nat)
  BY NatLessThanWellFounded
<1>2. \A i, j \in Nat : i < j => <<i, j>> \in R
  BY DEF OpToRel
<1> HIDE DEF R
<1>3. PICK n \in T : \A m \in T : ~(<<m, n>> \in R)
  BY <1>1, WFMin
<1>4. n \in Nat /\ \A m \in T : m \in Nat
  OBVIOUS
<1>5. ASSUME NEW m \in T PROVE n <= m
  <2>1. ~(m < n)
    BY <1>2, <1>3, <1>4
  <2> QED
    BY <2>1, <1>4
<1> QED
  BY <1>5

(* Induction, over a set instead of a predicate.                            *)
LEMMA InductionOnNat ==
  ASSUME NEW S, 0 \in S, \A n \in Nat : n \in S => n + 1 \in S
  PROVE  Nat \subseteq S
<1> DEFINE T == Nat \ S
<1>1. SUFFICES ASSUME T # {} PROVE FALSE
  OBVIOUS
<1>2. PICK n \in T : \A m \in T : n <= m
  BY <1>1, LeastNatural
<1>3. n # 0 /\ n - 1 \in Nat
  OBVIOUS
<1>4. n - 1 \in S
  BY <1>2, <1>3
<1> QED
  BY <1>4, <1>3

(* A set of numbers up to n has a greatest one.                             *)
LEMMA GreatestBelow ==
  ASSUME NEW n \in Nat, NEW T \in SUBSET (1..n), T # {}
  PROVE  \E m \in T : \A k \in T : k <= m
<1> DEFINE D == {n - k : k \in T}
<1>1. D \in SUBSET Nat /\ D # {}
  <2>1. \A k \in T : k \in Nat /\ n - k \in Nat
    OBVIOUS
  <2> QED
    BY <2>1
<1>2. PICK d \in D : \A e \in D : d <= e
  BY <1>1, LeastNatural
<1>3. PICK m \in T : d = n - m
  OBVIOUS
<1>4. ASSUME NEW k \in T PROVE k <= m
  <2>1. n - m <= n - k
    BY <1>2, <1>3
  <2> QED
    BY <2>1
<1> QED
  BY <1>4

(* The Max of the library is the greatest member.                           *)
LEMMA MaxOfInterval ==
  ASSUME NEW n \in Nat, NEW T \in SUBSET (1..n + 1), n + 1 \in T
  PROVE  Max(T) = n + 1
<1>1. Max(T) \in T /\ \A k \in T : Max(T) >= k
  <2>1. \A k \in T : n + 1 >= k
    OBVIOUS
  <2> QED
    BY <2>1 DEF Max
<1>2. \A m \in T : m >= n + 1 => m = n + 1
  OBVIOUS
<1> QED
  BY <1>1, <1>2

(* One step of the two folds of the model: a chunk that is appended, a      *)
(* layer that is added.                                                     *)
Appended(acc, c) ==
  [blocks |-> Append(acc.blocks, Payload(c.data)),
   dir |-> Upsert(acc.dir, c.key, [at |-> Len(acc.blocks) + 1, crc |-> c.data])]

Folded(what, acc, c) ==
  CASE what = "layer" -> AddLayer(acc, c)
    [] what = "chunk" -> Appended(acc, c)
    [] OTHER -> Upserted(acc, c, what)

(* The function FoldLeft is defined by.                                     *)
FoldsTo(f, D, what, base, s) ==
  f = [S \in SUBSET D |-> IF S = {} THEN base
                          ELSE Folded(what, f[S \ {Max(S)}], s[Max(S)])]

(* The function FoldLeft chooses exists, for a sequence of any length.      *)
LEMMA FoldExists ==
  ASSUME NEW what, NEW base, NEW s
  PROVE  \A n \in Nat : \E f : FoldsTo(f, 1..n, what, base, s)
<1> DEFINE Has == {n \in Nat : \E f : FoldsTo(f, 1..n, what, base, s)}
<1>1. 0 \in Has
  <2> DEFINE f == [S \in SUBSET (1..0) |-> base]
  <2>1. \A S \in SUBSET (1..0) : S = {}
    OBVIOUS
  <2>2. FoldsTo(f, 1..0, what, base, s)
    BY <2>1 DEF FoldsTo
  <2> QED
    BY <2>2
<1>2. ASSUME NEW n \in Nat, n \in Has PROVE n + 1 \in Has
  <2>1. PICK f : FoldsTo(f, 1..n, what, base, s)
    BY <1>2
  <2> DEFINE g == [S \in SUBSET (1..n + 1) |->
                     IF n + 1 \in S THEN Folded(what, f[S \ {n + 1}], s[n + 1]) ELSE f[S]]
  <2>2. ASSUME NEW S \in SUBSET (1..n + 1)
        PROVE  g[S] = IF S = {} THEN base ELSE Folded(what, g[S \ {Max(S)}], s[Max(S)])
    <3>1. CASE n + 1 \in S
      <4>1. Max(S) = n + 1
        BY <3>1, MaxOfInterval
      <4>2. S \ {n + 1} \in SUBSET (1..n + 1) /\ n + 1 \notin S \ {n + 1} /\ S # {}
        BY <3>1
      <4>3. g[S \ {n + 1}] = f[S \ {n + 1}]
        BY <4>2
      <4> HIDE DEF g
      <4>4. g[S] = Folded(what, f[S \ {n + 1}], s[n + 1])
        BY <3>1 DEF g
      <4> QED
        BY <4>1, <4>2, <4>3, <4>4
    <3>2. CASE n + 1 \notin S
      <4>1. S \in SUBSET (1..n)
        BY <3>2
      <4>2. g[S] = f[S]
        BY <3>2
      <4>3. f[S] = IF S = {} THEN base ELSE Folded(what, f[S \ {Max(S)}], s[Max(S)])
        BY <2>1, <4>1 DEF FoldsTo
      <4>4. g[S \ {Max(S)}] = f[S \ {Max(S)}]
        BY <3>2
      <4> HIDE DEF g
      <4> QED
        BY <4>2, <4>3, <4>4
    <3> QED
      BY <3>1, <3>2
  <2>3. FoldsTo(g, 1..n + 1, what, base, s)
    <3> DEFINE h == [S \in SUBSET (1..n + 1) |->
                 IF S = {} THEN base ELSE Folded(what, g[S \ {Max(S)}], s[Max(S)])]
    <3>1. \A S \in SUBSET (1..n + 1) : g[S] = h[S]
      BY <2>2
    <3> HIDE DEF h
    <3>2. g = h
      BY <3>1 DEF h
    <3> QED
      BY <3>2 DEF FoldsTo, h
  <2> QED
    BY <2>3
<1> HIDE DEF Has
<1>3. Nat \subseteq Has
  BY <1>1, <1>2, InductionOnNat
<1> QED
  BY <1>3 DEF Has

(* What a fold comes to is reached through what it comes to on the way.     *)
FoldOf(what, base, s) ==
  (CHOOSE g : FoldsTo(g, DOMAIN s, what, base, s))[DOMAIN s]

(* A fold is reached step by step, over the prefixes of its sequence.       *)
LEMMA FoldLeftIs ==
  ASSUME NEW T, NEW s \in Seq(T), NEW what, NEW base
  PROVE  \E f : /\ f[{}] = base
                /\ \A n \in 1..Len(s) : f[1..n] = Folded(what, f[1..n - 1], s[n])
                /\ FoldOf(what, base, s) = f[1..Len(s)]
<1> DEFINE f == CHOOSE g : FoldsTo(g, 1..Len(s), what, base, s)
<1>0. DOMAIN s = 1..Len(s) /\ Len(s) \in Nat
  OBVIOUS
<1>1. FoldsTo(f, 1..Len(s), what, base, s)
  BY <1>0, FoldExists
<1>2. FoldOf(what, base, s) = f[1..Len(s)]
  BY <1>0 DEF FoldOf
<1> HIDE DEF f
<1>4. f[{}] = base
  BY <1>1 DEF FoldsTo
<1>5. ASSUME NEW n \in 1..Len(s) PROVE f[1..n] = Folded(what, f[1..n - 1], s[n])
  <2>1. 1..n \in SUBSET (1..Len(s)) /\ n \in 1..n /\ 1..n # {}
    BY <1>0
  <2>2. Max(1..n) = n
    <3>1. n - 1 \in Nat /\ n = (n - 1) + 1
      BY <1>0
    <3> QED
      BY <2>1, <3>1, MaxOfInterval
  <2>3. (1..n) \ {n} = 1..n - 1
    BY <1>0
  <2> QED
    BY <1>1, <2>1, <2>2, <2>3 DEF FoldsTo
<1> QED
  BY <1>2, <1>4, <1>5

(* Blocks that were written stay where they are, the new ones follow in     *)
(* order, and the directory has of every key its last record.               *)
IsLast(s, n) == \A j \in DOMAIN s : s[j].key = s[n].key => j <= n

Holds(r, blocks, dir, s, n) ==
  /\ \E S : r.blocks \in Seq(S)
  /\ Len(r.blocks) = Len(blocks) + n
  /\ \A j \in 1..Len(blocks) : r.blocks[j] = blocks[j]
  /\ \A j \in 1..n : r.blocks[Len(blocks) + j] = Payload(s[j].data)
  /\ DOMAIN r.dir = DOMAIN dir \cup {s[j].key : j \in 1..n}
  /\ \A k \in DOMAIN dir : (\A j \in 1..n : s[j].key # k) => r.dir[k] = dir[k]
  /\ \A j \in 1..n : (\A i \in 1..n : s[i].key = s[j].key => i <= j)
        => r.dir[s[j].key] = [at |-> Len(blocks) + j, crc |-> s[j].data]

(* One more chunk is appended.                                              *)
LEMMA AppendedHolds ==
  ASSUME NEW S, NEW blocks \in Seq(S), NEW dir, NEW T, NEW s \in Seq(T),
         NEW n \in 1..Len(s), NEW acc, Holds(acc, blocks, dir, s, n - 1)
  PROVE  Holds(Appended(acc, s[n]), blocks, dir, s, n)
<1> DEFINE c == s[n]
           r == Appended(acc, c)
           record == [at |-> Len(acc.blocks) + 1, crc |-> c.data]
<1>1. r.blocks = Append(acc.blocks, Payload(c.data)) /\ r.dir = Upsert(acc.dir, c.key, record)
  BY DEF Appended
<1>2. PICK A : acc.blocks \in Seq(A)
  BY DEF Holds
<1>3. /\ r.blocks \in Seq(A \cup {Payload(c.data)})
      /\ Len(r.blocks) = Len(acc.blocks) + 1
      /\ \A j \in 1..Len(acc.blocks) : r.blocks[j] = acc.blocks[j]
      /\ r.blocks[Len(acc.blocks) + 1] = Payload(c.data)
  <2>1. acc.blocks \in Seq(A \cup {Payload(c.data)})
    BY <1>2
  <2> QED
    BY <1>1, <2>1, AppendProperties
<1>4. n \in Nat /\ n >= 1 /\ n <= Len(s) /\ Len(s) \in Nat /\ Len(blocks) \in Nat
  OBVIOUS
<1>5. Len(acc.blocks) = Len(blocks) + (n - 1)
  BY DEF Holds
<1>6. /\ DOMAIN r.dir = DOMAIN acc.dir \cup {c.key}
      /\ r.dir[c.key] = record
      /\ \A k \in DOMAIN acc.dir : k # c.key => r.dir[k] = acc.dir[k]
  BY <1>1 DEF Upsert
<1> HIDE DEF r
<1>7. Len(r.blocks) = Len(blocks) + n
  BY <1>3, <1>4, <1>5
<1>8. \A j \in 1..Len(blocks) : r.blocks[j] = blocks[j]
  BY <1>3, <1>4, <1>5 DEF Holds
<1>9. \A j \in 1..n : r.blocks[Len(blocks) + j] = Payload(s[j].data)
  <2>1. \A j \in 1..n - 1 : r.blocks[Len(blocks) + j] = Payload(s[j].data)
    BY <1>3, <1>4, <1>5 DEF Holds
  <2>2. r.blocks[Len(blocks) + n] = Payload(s[n].data)
    BY <1>3, <1>4, <1>5
  <2>3. \A j \in 1..n : j = n \/ j \in 1..n - 1
    BY <1>4
  <2> QED
    BY <2>1, <2>2, <2>3
<1>10. DOMAIN r.dir = DOMAIN dir \cup {s[j].key : j \in 1..n}
  <2>1. 1..n = (1..n - 1) \cup {n}
    BY <1>4
  <2> QED
    BY <1>6, <2>1 DEF Holds
<1>11. ASSUME NEW k \in DOMAIN dir, \A j \in 1..n : s[j].key # k PROVE r.dir[k] = dir[k]
  <2>1. k # c.key /\ \A j \in 1..n - 1 : s[j].key # k
    BY <1>4, <1>11
  <2>2. k \in DOMAIN acc.dir /\ acc.dir[k] = dir[k]
    BY <2>1 DEF Holds
  <2> QED
    BY <1>6, <2>1, <2>2
<1>12. ASSUME NEW j \in 1..n, \A i \in 1..n : s[i].key = s[j].key => i <= j
       PROVE  r.dir[s[j].key] = [at |-> Len(blocks) + j, crc |-> s[j].data]
  <2>1. CASE j = n
    <3>1. Len(acc.blocks) + 1 = Len(blocks) + j
      BY <1>4, <1>5, <2>1
    <3> QED
      BY <1>6, <2>1, <3>1
  <2>2. CASE j # n
    <3>1. j \in 1..n - 1 /\ s[n].key # s[j].key
      BY <1>4, <1>12, <2>2
    <3>2. \A i \in 1..n - 1 : s[i].key = s[j].key => i <= j
      BY <1>4, <1>12
    <3>3. acc.dir[s[j].key] = [at |-> Len(blocks) + j, crc |-> s[j].data]
      BY <3>1, <3>2 DEF Holds
    <3>4. s[j].key \in DOMAIN acc.dir
      BY <3>1 DEF Holds
    <3> QED
      BY <1>6, <3>1, <3>3, <3>4
  <2> QED
    BY <2>1, <2>2
<1> QED
  BY <1>3, <1>7, <1>8, <1>9, <1>10, <1>11, <1>12 DEF Holds, r

(* All of them are.                                                         *)
LEMMA AppendChunksHolds ==
  ASSUME NEW S, NEW blocks \in Seq(S), NEW dir, NEW T, NEW s \in Seq(T)
  PROVE  Holds(AppendChunks(blocks, dir, s), blocks, dir, s, Len(s))
<1> DEFINE base == [blocks |-> blocks, dir |-> dir]
<1>1. AppendChunks(blocks, dir, s) = FoldOf("chunk", base, s)
  BY DEF AppendChunks, FoldLeft, MapThenFoldSet, FoldOf, FoldsTo, Folded, Appended
<1>2. PICK f : /\ f[{}] = base
               /\ \A n \in 1..Len(s) : f[1..n] = Folded("chunk", f[1..n - 1], s[n])
               /\ FoldOf("chunk", base, s) = f[1..Len(s)]
  BY FoldLeftIs
<1> DEFINE Has == {n \in Nat : n <= Len(s) => Holds(f[1..n], blocks, dir, s, n)}
<1>3. 0 \in Has
  <2>1. 1..0 = {} /\ base.blocks = blocks /\ base.dir = dir
    OBVIOUS
  <2>2. (\E A : base.blocks \in Seq(A)) /\ Len(blocks) + 0 = Len(blocks)
    OBVIOUS
  <2> HIDE DEF base
  <2>3. Holds(base, blocks, dir, s, 0)
    BY <2>1, <2>2 DEF Holds
  <2> QED
    BY <1>2, <2>1, <2>3
<1>4. ASSUME NEW n \in Nat, n \in Has PROVE n + 1 \in Has
  <2>1. SUFFICES ASSUME n + 1 <= Len(s) PROVE Holds(f[1..n + 1], blocks, dir, s, n + 1)
    OBVIOUS
  <2>2. n + 1 \in 1..Len(s) /\ (n + 1) - 1 = n /\ n <= Len(s)
    BY <2>1
  <2>3. f[1..n + 1] = Appended(f[1..n], s[n + 1])
    BY <1>2, <2>2 DEF Folded
  <2>4. Holds(f[1..n], blocks, dir, s, n)
    BY <1>4, <2>2
  <2> QED
    BY <2>2, <2>3, <2>4, AppendedHolds
<1> HIDE DEF Has
<1>5. Len(s) \in Has
  BY <1>3, <1>4, InductionOnNat
<1>6. Holds(f[1..Len(s)], blocks, dir, s, Len(s))
  BY <1>5 DEF Has
<1> QED
  BY <1>1, <1>2, <1>6

-----------------------------------------------------------------------------
(* The chunks a builder has collected.                                      *)

Record == [key : Key, data : Content]

(* A layer is added with all of its chunks.                                 *)
WholeLayers(keys) == \A k \in keys : KeysOf(k[1]) \subseteq keys

KeysIn(s) == {s[j].key : j \in DOMAIN s}

Collected(s) == s \in Seq(Record) /\ WholeLayers(KeysIn(s))

(* A finite set is listed without gaps, every member of it once.            *)
LEMMA SetToSeqIs ==
  ASSUME NEW S, IsFiniteSet(S)
  PROVE  /\ SetToSeq(S) \in [1..Cardinality(S) -> S] /\ Cardinality(S) \in Nat
         /\ \A k \in S : \E i \in 1..Cardinality(S) : SetToSeq(S)[i] = k
<1> DEFINE n == Cardinality(S)
           f == SetToSeq(S)
<1>1. n \in Nat /\ ExistsBijection(1..n, S)
  BY FS_CardinalityType
<1>2. \E g \in [1..n -> S] : IsInjective(g)
  BY <1>1 DEF ExistsBijection, Bijection, Injection, IsInjective
<1>3. f \in [1..n -> S] /\ IsInjective(f)
  BY <1>1, <1>2 DEF SetToSeq
<1>4. IsFiniteSet(1..n) /\ Cardinality(1..n) = n
  BY <1>1, FS_Interval
<1> HIDE DEF n, f
<1>5. f \in Injection(1..n, S)
  BY <1>3 DEF Injection
<1>6. f \in Surjection(1..n, S)
  BY <1>4, <1>5, FS_Injection DEF n
<1> QED
  BY <1>1, <1>3, <1>6 DEF Surjection, n, f

(* MapBuilder::add_layer adds whole layers.                                 *)
LEMMA AddLayerCollects ==
  ASSUME NEW chunks, Collected(chunks), NEW add \in Addition
  PROVE  Collected(AddLayer(chunks, add))
<1>1. PICK l \in Layer : add \in [layer : {l}, data : [KeysOf(l) -> Content]]
  BY DEF Addition
<1>2. add.layer = l /\ add.data \in [KeysOf(l) -> Content]
  BY <1>1
<1>3. IsFiniteSet(KeysOf(l))
  BY MapAssumption, FS_Product, FS_Singleton DEF KeysOf
<1> DEFINE keys == SetToSeq(KeysOf(l))
           n == Cardinality(KeysOf(l))
<1>4. /\ keys \in [1..n -> KeysOf(l)] /\ n \in Nat
      /\ \A k \in KeysOf(l) : \E i \in 1..n : keys[i] = k
  BY <1>3, SetToSeqIs
<1>5. KeysOf(l) \subseteq Key
  BY DEF Key
<1> HIDE DEF keys, n
<1> DEFINE more == [i \in DOMAIN keys |-> [key |-> keys[i], data |-> add.data[keys[i]]]]
<1>6. more \in Seq(Record) /\ Len(more) = n
  <2>1. \A i \in 1..n : [key |-> keys[i], data |-> add.data[keys[i]]] \in Record
    BY <1>2, <1>4, <1>5 DEF Record
  <2>2. more \in [1..n -> Record]
    BY <1>4, <2>1
  <2> QED
    BY <1>4, <2>2, SeqDef
<1>7. {more[i].key : i \in 1..n} = KeysOf(l)
  <2>1. \A i \in 1..n : more[i].key = keys[i]
    BY <1>4
  <2> HIDE DEF more
  <2> QED
    BY <1>4, <2>1
<1>8. AddLayer(chunks, add) = chunks \o more
  BY <1>2 DEF AddLayer, keys
<1> HIDE DEF more
<1>9. /\ chunks \o more \in Seq(Record) /\ Len(chunks \o more) = Len(chunks) + n
      /\ \A i \in 1..Len(chunks) + n :
           (chunks \o more)[i] = IF i <= Len(chunks) THEN chunks[i] ELSE more[i - Len(chunks)]
  BY <1>6, ConcatProperties DEF Collected
<1> DEFINE all == chunks \o more
<1> HIDE DEF all
<1>10. KeysIn(all) = KeysIn(chunks) \cup KeysOf(l)
  <2>1. DOMAIN all = 1..Len(chunks) + n /\ DOMAIN chunks = 1..Len(chunks) /\ Len(chunks) \in Nat
    BY <1>9 DEF Collected, all
  <2>2. \A i \in 1..Len(chunks) : i \in DOMAIN all /\ all[i] = chunks[i]
    BY <1>4, <1>9, <2>1 DEF all
  <2>3. \A i \in 1..n : Len(chunks) + i \in DOMAIN all /\ all[Len(chunks) + i] = more[i]
    BY <1>4, <1>9, <2>1 DEF all
  <2>4. \A i \in DOMAIN all : \/ i \in 1..Len(chunks) 
                              \/ i - Len(chunks) \in 1..n /\ i = Len(chunks) + (i - Len(chunks))
    BY <1>4, <2>1
  <2>5. KeysIn(all) \subseteq KeysIn(chunks) \cup {more[i].key : i \in 1..n}
    <3>1. ASSUME NEW i \in DOMAIN all
          PROVE  all[i].key \in KeysIn(chunks) \cup {more[j].key : j \in 1..n}
      BY <2>1, <2>2, <2>3, <2>4 DEF KeysIn
    <3> QED
      BY <3>1 DEF KeysIn
  <2>6. KeysIn(chunks) \subseteq KeysIn(all) /\ {more[i].key : i \in 1..n} \subseteq KeysIn(all)
    BY <2>1, <2>2, <2>3 DEF KeysIn
  <2> QED
    BY <1>7, <2>5, <2>6
<1>11. \A k \in KeysOf(l) : k[1] = l
  BY DEF KeysOf
<1>12. WholeLayers(KeysIn(all))
  BY <1>10, <1>11 DEF Collected, WholeLayers
<1> QED
  BY <1>8, <1>9, <1>12 DEF Collected, all

(* So does any series of additions.                                         *)
LEMMA BuilderCollects ==
  ASSUME NEW adds \in Builds
  PROVE  Collected(FoldLeft(AddLayer, <<>>, adds))
<1>1. adds \in Seq(Addition)
  BY BuildsAssumption
<1>2. FoldLeft(AddLayer, <<>>, adds) = FoldOf("layer", <<>>, adds)
  BY DEF FoldLeft, MapThenFoldSet, FoldOf, FoldsTo, Folded
<1>3. PICK f : /\ f[{}] = <<>>
               /\ \A n \in 1..Len(adds) : f[1..n] = Folded("layer", f[1..n - 1], adds[n])
               /\ FoldOf("layer", <<>>, adds) = f[1..Len(adds)]
  BY <1>1, FoldLeftIs
<1> DEFINE Has == {n \in Nat : n <= Len(adds) => Collected(f[1..n])}
<1>4. 0 \in Has
  <2>1. 1..0 = {} /\ <<>> \in Seq(Record) /\ DOMAIN <<>> = {}
    OBVIOUS
  <2>2. Collected(<<>>)
    BY <2>1 DEF Collected, WholeLayers, KeysIn
  <2> QED
    BY <1>3, <2>1, <2>2
<1>5. ASSUME NEW n \in Nat, n \in Has PROVE n + 1 \in Has
  <2>1. SUFFICES ASSUME n + 1 <= Len(adds) PROVE Collected(f[1..n + 1])
    OBVIOUS
  <2>2. n + 1 \in 1..Len(adds) /\ (n + 1) - 1 = n /\ n <= Len(adds)
    BY <1>1, <2>1
  <2>3. f[1..n + 1] = AddLayer(f[1..n], adds[n + 1])
    BY <1>3, <2>2 DEF Folded
  <2>4. Collected(f[1..n]) /\ adds[n + 1] \in Addition
    BY <1>1, <1>5, <2>2
  <2> QED
    BY <2>3, <2>4, AddLayerCollects
<1> HIDE DEF Has
<1>6. Len(adds) \in Has /\ Len(adds) \in Nat
  BY <1>1, <1>4, <1>5, InductionOnNat
<1>7. Collected(f[1..Len(adds)])
  BY <1>6 DEF Has
<1> QED
  BY <1>2, <1>3, <1>7

(* Every key has a last record, and LastOf takes that one.                  *)
LEMMA LastOfIs ==
  ASSUME NEW T, NEW s \in Seq(T)
  PROVE  /\ DOMAIN LastOf(s) = {s[i].key : i \in 1..Len(s)}
         /\ \A n \in 1..Len(s) : IsLast(s, n) => LastOf(s)[s[n].key] = s[n].data
         /\ \A i \in 1..Len(s) : \E n \in 1..Len(s) : s[n].key = s[i].key /\ IsLast(s, n)
         /\ LastOf(s) = [k \in DOMAIN LastOf(s) |-> LastOf(s)[k]]
<1>0. DOMAIN s = 1..Len(s) /\ Len(s) \in Nat
  OBVIOUS
<1>1. ASSUME NEW i \in 1..Len(s)
      PROVE  \E n \in 1..Len(s) : s[n].key = s[i].key /\ IsLast(s, n)
  <2> DEFINE same == {j \in 1..Len(s) : s[j].key = s[i].key}
  <2>1. same \in SUBSET (1..Len(s)) /\ same # {}
    OBVIOUS
  <2>2. PICK n \in same : \A j \in same : j <= n
    BY <1>0, <2>1, GreatestBelow
  <2> QED
    BY <1>0, <2>2 DEF IsLast
<1>2. ASSUME NEW n \in 1..Len(s), IsLast(s, n) PROVE LastOf(s)[s[n].key] = s[n].data
  <2> DEFINE last == CHOOSE i \in DOMAIN s :
                       /\ s[i].key = s[n].key
                       /\ \A j \in DOMAIN s : s[j].key = s[n].key => j <= i
  <2>1. /\ last \in 1..Len(s) /\ s[last].key = s[n].key
        /\ \A j \in DOMAIN s : s[j].key = s[n].key => j <= last
    BY <1>0, <1>2 DEF IsLast
  <2>2. LastOf(s)[s[n].key] = s[last].data
    BY <1>0 DEF LastOf
  <2>3. last <= n /\ n <= last
    BY <1>0, <1>2, <2>1 DEF IsLast
  <2>4. last = n
    BY <1>0, <2>1, <2>3
  <2> QED
    BY <2>2, <2>4
<1>3. DOMAIN LastOf(s) = {s[i].key : i \in 1..Len(s)}
  BY <1>0 DEF LastOf
<1>4. LastOf(s) = [k \in DOMAIN LastOf(s) |-> LastOf(s)[k]]
  BY DEF LastOf
<1> QED
  BY <1>1, <1>2, <1>3, <1>4

-----------------------------------------------------------------------------
(* What an image is, as it was sealed, and what it says.                    *)

IsBlock(b) == b = [kind |-> b.kind, data |-> b.data]

IsImage(m) ==
  m = [blocks |-> m.blocks, metaAt |-> m.metaAt, extAt |-> m.extAt, dirAt |-> m.dirAt,
       hash |-> m.hash]

(* The image a hash was taken of.                                           *)
SealedAs(hash) ==
  [blocks |-> hash[1], metaAt |-> hash[2], extAt |-> hash[3], dirAt |-> hash[4]]

(* The header points at blocks of their kinds, the skeleton lies behind the *)
(* extension area, and the directory points at payloads.                    *)
Laid(m) ==
  /\ \E S : m.blocks \in Seq(S)
  /\ \A j \in 1..Len(m.blocks) : IsBlock(m.blocks[j])
  /\ m.metaAt \in Nat \ {0} /\ m.extAt = m.metaAt + 1 /\ m.metaAt + 2 < m.dirAt
  /\ m.dirAt = Len(m.blocks)
  /\ m.blocks[m.metaAt].kind = "meta" /\ m.blocks[m.metaAt + 1].kind = "ext"
  /\ m.blocks[m.metaAt + 2].kind = "skeleton" /\ m.blocks[m.dirAt].kind = "dir"

(* The directory has every chunk of t, its CRC and where it is.             *)
Holding(m, t) ==
  /\ t.content = [k \in DOMAIN t.content |-> t.content[k]]
  /\ DOMAIN DirectoryOf(m) = DOMAIN t.content
  /\ \A k \in DOMAIN t.content :
       /\ DirectoryOf(m)[k].at \in 1..Len(m.blocks)
       /\ DirectoryOf(m)[k].crc = t.content[k]
       /\ m.blocks[DirectoryOf(m)[k].at] = Payload(t.content[k])

LayersOf(content) == {k[1] : k \in DOMAIN content}

(* The table of derived layers is of the contents o at the time of the      *)
(* build.                                                                   *)
DerivedOf(layers, o) ==
  [l \in layers \cap Derived |-> DerivedFingerprint(SourceLayersOf(l, layers), layers, o)]

Describes(m, t, o) ==
  /\ DOMAIN o = DOMAIN t.content
  /\ MetaOf(m) = [layers |-> LayersOf(t.content), derived |-> DerivedOf(LayersOf(t.content), o),
                  info |-> t.info]

Good(m, t, o) ==
  /\ Laid(m) /\ Holding(m, t) /\ Describes(m, t, o)
  /\ SkeletonOf(m) = Skeleton(t.nodes)

(* What damage leaves of it: everything but payloads.                       *)
KeptSealed(m) ==
  LET w == SealedAs(m.hash)
  IN  /\ IsImage(m)
      /\ m.metaAt = w.metaAt /\ m.extAt = w.extAt /\ m.dirAt = w.dirAt
      /\ \E S : m.blocks \in Seq(S)
      /\ Len(m.blocks) = Len(w.blocks)
      /\ \A j \in 1..Len(m.blocks) :
           /\ IsBlock(m.blocks[j])
           /\ \/ m.blocks[j] = w.blocks[j]
              \/ w.blocks[j].kind = "payload" /\ m.blocks[j].kind = "payload"

ImagesSound ==
  /\ (\E S : images \in Seq(S)) /\ (\E S : truth \in Seq(S))
  /\ Len(truth) = Len(images)
  /\ \A i \in 1..Len(images) :
       Good(SealedAs(images[i].hash), truth[i], origin) /\ KeptSealed(images[i])

(* A patch was made for an image that is still there, whatever became of    *)
(* its payloads, and replaces chunks that image has.                        *)
PatchSound(p) ==
  /\ \E i \in 1..Len(images) : p.base = images[i].hash /\ p.madeFor = truth[i]
  /\ p.chunks \in Seq([key : DOMAIN p.madeFor.content, data : Content])

PatchesSound == \A p \in patches : PatchSound(p)

(* An image whose hash checks is the one the hash was taken of.             *)
LEMMA IntactIsSealed ==
  ASSUME NEW m, Intact(m)
  PROVE  SealedAs(m.hash) = [blocks |-> m.blocks, metaAt |-> m.metaAt, extAt |-> m.extAt,
                             dirAt |-> m.dirAt]
BY DEF Intact, SealedAs, FileHash

(* A footer that was just written seals what lies there.                    *)
LEMMA SealedIsKept ==
  ASSUME NEW blocks, NEW metaAt, NEW extAt, NEW dirAt, NEW S, blocks \in Seq(S),
         \A j \in 1..Len(blocks) : IsBlock(blocks[j])
  PROVE  /\ KeptSealed(Sealed(blocks, metaAt, extAt, dirAt))
         /\ SealedAs(Sealed(blocks, metaAt, extAt, dirAt).hash) =
              [blocks |-> blocks, metaAt |-> metaAt, extAt |-> extAt, dirAt |-> dirAt]
BY DEF KeptSealed, Sealed, SealedAs, FileHash, IsImage

(* The builder.                                                             *)
BuiltAs(body, blocks, meta, nodes) ==
  /\ meta = [layers |-> PresentLayers, derived |-> DerivedTable, info |-> FirstInfo]
  /\ body = AppendChunks(<<MetaBlock(meta), Extension, Skeleton(nodes)>>, <<>>, pending)
  /\ blocks = Append(body.blocks, Directory(body.dir))

(* MapBuilder::build_to_bytes writes what was added, by the last record of  *)
(* a key.                                                                   *)
LEMMA BuildIsGood ==
  ASSUME NEW T, pending \in Seq(T), NEW body, NEW blocks, NEW meta, NEW nodes,
         BuiltAs(body, blocks, meta, nodes)
  PROVE  /\ Good([blocks |-> blocks, metaAt |-> 1, extAt |-> 2, dirAt |-> Len(blocks)],
                 [content |-> LastOf(pending), info |-> FirstInfo, nodes |-> nodes],
                 LastOf(pending))
         /\ \E S : blocks \in Seq(S)
<1> DEFINE prologue == <<MetaBlock(meta), Extension, Skeleton(nodes)>>
           content == LastOf(pending)
           m == [blocks |-> blocks, metaAt |-> 1, extAt |-> 2, dirAt |-> Len(blocks)]
           t == [content |-> content, info |-> FirstInfo, nodes |-> nodes]
           n == Len(pending)
<1>1. /\ prologue \in Seq({MetaBlock(meta), Extension, Skeleton(nodes)})
      /\ Len(prologue) = 3
      /\ prologue[1] = MetaBlock(meta) /\ prologue[2] = Extension /\ prologue[3] = Skeleton(nodes)
  OBVIOUS
<1>2. Holds(body, prologue, <<>>, pending, n)
  BY <1>1, AppendChunksHolds DEF BuiltAs
<1>3. n \in Nat /\ DOMAIN pending = 1..n /\ DOMAIN <<>> = {}
  OBVIOUS
<1>0. /\ m.blocks = blocks /\ m.metaAt = 1 /\ m.extAt = 2 /\ m.dirAt = Len(blocks)
      /\ t.content = content /\ t.info = FirstInfo /\ t.nodes = nodes
      /\ meta.layers = PresentLayers /\ meta.derived = DerivedTable /\ meta.info = FirstInfo
  BY DEF BuiltAs
<1> HIDE DEF prologue, n, m, t, content
<1>4. PICK A : body.blocks \in Seq(A)
  BY <1>2 DEF Holds
<1> DEFINE B == A \cup {Directory(body.dir)}
<1>5. /\ blocks \in Seq(B) /\ Len(blocks) = n + 4
      /\ \A j \in 1..n + 3 : blocks[j] = body.blocks[j]
      /\ blocks[n + 4] = Directory(body.dir)
  <2>1. body.blocks \in Seq(B) /\ Directory(body.dir) \in B
    BY <1>4
  <2>2. Len(body.blocks) = n + 3
    BY <1>1, <1>2, <1>3 DEF Holds
  <2>3. blocks = Append(body.blocks, Directory(body.dir))
    BY DEF BuiltAs
  <2> HIDE DEF B
  <2>4. /\ Append(body.blocks, Directory(body.dir)) \in Seq(B)
        /\ Len(Append(body.blocks, Directory(body.dir))) = Len(body.blocks) + 1
        /\ \A j \in 1..Len(body.blocks) :
             Append(body.blocks, Directory(body.dir))[j] = body.blocks[j]
        /\ Append(body.blocks, Directory(body.dir))[Len(body.blocks) + 1] = Directory(body.dir)
    BY <2>1, AppendProperties
  <2>5. (n + 3) + 1 = n + 4
    BY <1>3
  <2> QED
    BY <2>2, <2>3, <2>4, <2>5
<1> HIDE DEF B
<1>50. Len(blocks) = n + 4 /\ n + 4 \in Nat
  BY <1>3, <1>5
<1>6. /\ blocks[1] = MetaBlock(meta) /\ blocks[2] = Extension /\ blocks[3] = Skeleton(nodes)
      /\ \A j \in 1..n : blocks[3 + j] = Payload(pending[j].data)
  BY <1>1, <1>2, <1>3, <1>5 DEF Holds
<1>7. Laid(m)
  <2>1. \A j \in 1..Len(blocks) : j \in {1, 2, 3, n + 4} \/ (j - 3 \in 1..n /\ j = 3 + (j - 3))
    BY <1>3, <1>5
  <2>2. \A j \in 1..Len(blocks) : IsBlock(blocks[j])
    <3>1. /\ \A d : IsBlock(Payload(d)) /\ IsBlock(MetaBlock(d)) /\ IsBlock(Directory(d))
          /\ IsBlock(Extension) /\ IsBlock(Skeleton(nodes))
      BY DEF IsBlock, MetaBlock, Extension, Skeleton, Payload, Directory
    <3>2. \A j \in 1..n : IsBlock(blocks[3 + j])
      BY <1>6, <3>1
    <3>3. IsBlock(blocks[1]) /\ IsBlock(blocks[2]) /\ IsBlock(blocks[3]) /\ IsBlock(blocks[n + 4])
      BY <1>5, <1>6, <3>1
    <3> QED
      BY <2>1, <3>2, <3>3
  <2>3. blocks[Len(blocks)].kind = "dir"
    BY <1>5 DEF Directory
  <2> QED
    BY <1>0, <1>3, <1>5, <1>6, <2>2, <2>3 DEF Laid, MetaBlock, Extension, Skeleton
<1>8. /\ DOMAIN content = {pending[i].key : i \in 1..n}
      /\ \A i \in 1..n : IsLast(pending, i) => content[pending[i].key] = pending[i].data
      /\ \A i \in 1..n : \E j \in 1..n : pending[j].key = pending[i].key /\ IsLast(pending, j)
      /\ content = [k \in DOMAIN content |-> content[k]]
  BY LastOfIs DEF n, content
<1>9. PresentLayers = LayersOf(content)
  BY <1>3, <1>8 DEF PresentLayers, LayersOf
<1>10. DirectoryOf(m) = body.dir /\ MetaOf(m) = meta /\ SkeletonOf(m) = Skeleton(nodes)
  BY <1>0, <1>5, <1>6 DEF DirectoryOf, MetaOf, SkeletonOf, Directory, MetaBlock
<1>11. Holding(m, t)
  <2>1. DOMAIN body.dir = DOMAIN content
    BY <1>2, <1>3, <1>8 DEF Holds
  <2>2. ASSUME NEW k \in DOMAIN content
        PROVE  /\ body.dir[k].at \in 1..Len(blocks)
               /\ body.dir[k].crc = content[k]
               /\ blocks[body.dir[k].at] = Payload(content[k])
    <3>1. PICK i \in 1..n : pending[i].key = k /\ IsLast(pending, i)
      BY <1>8, <2>2
    <3>2. body.dir[k] = [at |-> 3 + i, crc |-> pending[i].data]
      BY <1>1, <1>2, <1>3, <3>1 DEF Holds, IsLast
    <3>3. content[k] = pending[i].data
      BY <1>8, <3>1
    <3>4. 3 + i \in 1..Len(blocks) /\ blocks[3 + i] = Payload(pending[i].data)
      BY <1>3, <1>50, <1>6
    <3> QED
      BY <3>2, <3>3, <3>4
  <2> QED
    BY <1>0, <1>8, <1>10, <2>1, <2>2 DEF Holding
<1>12. Describes(m, t, content)
  <2>1. DerivedTable = DerivedOf(LayersOf(content), content)
    BY <1>9 DEF DerivedTable, DerivedOf, FingerprintedChunks, content
  <2>2. meta = [layers |-> LayersOf(content), derived |-> DerivedOf(LayersOf(content), content),
                info |-> FirstInfo]
    BY <1>9, <2>1 DEF BuiltAs
  <2> QED
    BY <1>0, <1>10, <2>2 DEF Describes
<1> QED
  BY <1>0, <1>5, <1>7, <1>10, <1>11, <1>12 DEF Good, m, t, content

(* A patch.                                                                 *)
LEMMA MovedLaid ==
  ASSUME NEW m, NEW b, NEW S, b \in Seq(S), Laid(m), NEW info,
         Len(b) >= Len(m.blocks), \A j \in 1..Len(m.blocks) : b[j] = m.blocks[j],
         \A j \in 1..Len(b) : IsBlock(b[j])
  PROVE  LET moved == MovedMeta(b, m, info)
         IN  /\ \E A : moved.blocks \in Seq(A)
             /\ Len(moved.blocks) = Len(b) + 3
             /\ \A j \in 1..Len(b) : moved.blocks[j] = b[j]
             /\ \A j \in 1..Len(b) + 3 : IsBlock(moved.blocks[j])
             /\ moved.metaAt = Len(b) + 1 /\ moved.extAt = Len(b) + 2
             /\ moved.blocks[Len(b) + 1] = MetaBlock([MetaOf(m) EXCEPT !.info = info])
             /\ moved.blocks[Len(b) + 2] = m.blocks[m.extAt]
             /\ moved.blocks[Len(b) + 3] = SkeletonOf(m)
<1> DEFINE meta == MetaBlock([MetaOf(m) EXCEPT !.info = info])
           tail == <<meta, m.blocks[m.extAt], SkeletonOf(m)>>
           A == S \cup {meta, m.blocks[m.extAt], SkeletonOf(m)}
           moved == MovedMeta(b, m, info)
<1>1. moved.blocks = b \o tail /\ moved.metaAt = Len(b) + 1 /\ moved.extAt = Len(b) + 2
  BY DEF MovedMeta
<1>2. /\ b \in Seq(A) /\ tail \in Seq(A) /\ Len(tail) = 3
      /\ tail[1] = meta /\ tail[2] = m.blocks[m.extAt] /\ tail[3] = SkeletonOf(m)
  OBVIOUS
<1>3. Len(b) \in Nat
  OBVIOUS
<1>4. IsBlock(meta) /\ IsBlock(m.blocks[m.extAt]) /\ IsBlock(SkeletonOf(m))
  <2>1. m.extAt \in 1..Len(m.blocks) /\ m.metaAt + 2 \in 1..Len(m.blocks)
    <3>1. Len(m.blocks) \in Nat
      BY DEF Laid
    <3> QED
      BY SMTT(30), <3>1 DEF Laid
  <2> QED
    BY <2>1 DEF Laid, SkeletonOf, IsBlock, MetaBlock
<1> HIDE DEF A, tail, meta, moved
<1>5. /\ b \o tail \in Seq(A) /\ Len(b \o tail) = Len(b) + Len(tail)
      /\ \A j \in 1..Len(b) + Len(tail) :
           (b \o tail)[j] = IF j <= Len(b) THEN b[j] ELSE tail[j - Len(b)]
  BY <1>2, ConcatProperties
<1> DEFINE c == b \o tail
<1> HIDE DEF c
<1>6. /\ c \in Seq(A) /\ Len(c) = Len(b) + 3
      /\ \A j \in 1..Len(b) + 3 : c[j] = IF j <= Len(b) THEN b[j] ELSE tail[j - Len(b)]
  BY <1>2, <1>5 DEF c
<1>7. \A j \in 1..Len(b) : c[j] = b[j]
  BY <1>3, <1>6
<1>8. c[Len(b) + 1] = meta /\ c[Len(b) + 2] = m.blocks[m.extAt] /\ c[Len(b) + 3] = SkeletonOf(m)
  <2>1. /\ (Len(b) + 1) - Len(b) = 1 /\ (Len(b) + 2) - Len(b) = 2 /\ (Len(b) + 3) - Len(b) = 3
        /\ ~(Len(b) + 1 <= Len(b)) /\ ~(Len(b) + 2 <= Len(b)) /\ ~(Len(b) + 3 <= Len(b))
        /\ {Len(b) + 1, Len(b) + 2, Len(b) + 3} \subseteq 1..Len(b) + 3
    BY <1>3
  <2> QED
    BY <1>2, <1>6, <2>1
<1>9. \A j \in 1..Len(b) + 3 : IsBlock(c[j])
  <2>1. \A j \in 1..Len(b) + 3 : j \in 1..Len(b) \/ j \in {Len(b) + 1, Len(b) + 2, Len(b) + 3}
    BY <1>3
  <2> QED
    BY <1>4, <1>7, <1>8, <2>1
<1>10. moved.blocks = c
  BY <1>1 DEF c
<1> QED
  BY <1>1, <1>6, <1>7, <1>8, <1>9, <1>10 DEF moved, meta

(* What a patch leaves in the place of the header's blocks, moved or not.   *)
Carries(moved, m, b, info) ==
  /\ \E A : moved.blocks \in Seq(A)
  /\ Len(moved.blocks) >= Len(b)
  /\ \A j \in 1..Len(b) : moved.blocks[j] = b[j]
  /\ \A j \in 1..Len(moved.blocks) : IsBlock(moved.blocks[j])
  /\ moved.metaAt \in Nat \ {0} /\ moved.extAt = moved.metaAt + 1
  /\ moved.metaAt + 2 <= Len(moved.blocks)
  /\ moved.blocks[moved.metaAt].kind = "meta" /\ moved.blocks[moved.metaAt + 1].kind = "ext"
  /\ moved.blocks[moved.metaAt + 2] = SkeletonOf(m)
  /\ moved.blocks[moved.metaAt + 2].kind = "skeleton"
  /\ moved.blocks[moved.metaAt].data =
       IF info = None THEN MetaOf(m) ELSE [MetaOf(m) EXCEPT !.info = info]

MovedBy(m, b, info) ==
  IF info = None THEN [blocks |-> b, metaAt |-> m.metaAt, extAt |-> m.extAt]
  ELSE MovedMeta(b, m, info)

(* The header of a patched image points at its meta block, extension and    *)
(* skeleton.                                                                *)
LEMMA MovedCarries ==
  ASSUME NEW m, NEW b, NEW S, b \in Seq(S), Laid(m), NEW info,
         Len(b) >= Len(m.blocks), \A j \in 1..Len(m.blocks) : b[j] = m.blocks[j],
         \A j \in 1..Len(b) : IsBlock(b[j])
  PROVE  Carries(MovedBy(m, b, info), m, b, info)
<1>1. Len(b) \in Nat /\ Len(m.blocks) \in Nat /\ m.metaAt \in Nat /\ m.metaAt + 2 <= Len(m.blocks)
  BY DEF Laid
<1>2. CASE info = None
  <2> DEFINE moved == [blocks |-> b, metaAt |-> m.metaAt, extAt |-> m.extAt]
  <2>1. MovedBy(m, b, info) = moved
    BY <1>2 DEF MovedBy
  <2>2. moved.blocks = b /\ moved.metaAt = m.metaAt /\ moved.extAt = m.extAt
    OBVIOUS
  <2>3. {m.metaAt, m.metaAt + 1, m.metaAt + 2} \subseteq 1..Len(m.blocks)
    BY SMTT(30), <1>1 DEF Laid
  <2>4. /\ b[m.metaAt] = m.blocks[m.metaAt] /\ b[m.metaAt + 1] = m.blocks[m.metaAt + 1]
        /\ b[m.metaAt + 2] = m.blocks[m.metaAt + 2]
    BY <2>3
  <2> HIDE DEF moved
  <2> QED
    BY <1>1, <1>2, <2>1, <2>2, <2>4 DEF Carries, Laid, MetaOf, SkeletonOf
<1>3. CASE info # None
  <2> DEFINE moved == MovedMeta(b, m, info)
  <2>1. MovedBy(m, b, info) = moved
    BY <1>3 DEF MovedBy
  <2>2. /\ \E A : moved.blocks \in Seq(A)
        /\ Len(moved.blocks) = Len(b) + 3
        /\ \A j \in 1..Len(b) : moved.blocks[j] = b[j]
        /\ \A j \in 1..Len(b) + 3 : IsBlock(moved.blocks[j])
        /\ moved.metaAt = Len(b) + 1 /\ moved.extAt = Len(b) + 2
        /\ moved.blocks[Len(b) + 1] = MetaBlock([MetaOf(m) EXCEPT !.info = info])
        /\ moved.blocks[Len(b) + 2] = m.blocks[m.extAt]
        /\ moved.blocks[Len(b) + 3] = SkeletonOf(m)
    BY MovedLaid
  <2> HIDE DEF moved
  <2>3. /\ moved.metaAt + 1 = Len(b) + 2 /\ moved.metaAt + 2 = Len(b) + 3
        /\ moved.metaAt \in Nat \ {0} /\ moved.extAt = moved.metaAt + 1
        /\ Len(moved.blocks) >= Len(b) /\ moved.metaAt + 2 <= Len(moved.blocks)
    BY <1>1, <2>2
  <2>4. /\ moved.blocks[moved.metaAt].kind = "meta"
        /\ moved.blocks[moved.metaAt].data = [MetaOf(m) EXCEPT !.info = info]
    BY <2>2 DEF MetaBlock
  <2>5. moved.blocks[moved.metaAt + 1].kind = "ext"
    BY <2>2, <2>3 DEF Laid
  <2>6. SkeletonOf(m).kind = "skeleton"
    BY DEF Laid, SkeletonOf
  <2> QED
    BY <1>3, <2>1, <2>2, <2>3, <2>4, <2>5, <2>6 DEF Carries
<1> QED
  BY <1>2, <1>3

(* Patch::apply on an image that says t writes one that says Says(t, p).    *)
LEMMA PatchedIsGood ==
  ASSUME NEW m, NEW t, NEW o, NEW p, Good(m, t, o),
         p.chunks \in Seq([key : DOMAIN t.content, data : Content])
  PROVE  /\ KeptSealed(Patched(p, m))
         /\ Good(SealedAs(Patched(p, m).hash), Says(t, p), o)
<1> DEFINE n == Len(p.chunks)
           body == AppendChunks(m.blocks, DirectoryOf(m), p.chunks)
           moved == MovedBy(m, body.blocks, p.info)
           blocks == Append(moved.blocks, Directory(body.dir))
           w == [blocks |-> blocks, metaAt |-> moved.metaAt, extAt |-> moved.extAt,
                 dirAt |-> Len(blocks)]
           u == Says(t, p)
<1>1. Patched(p, m) = Sealed(blocks, moved.metaAt, moved.extAt, Len(blocks))
  BY DEF Patched, MovedBy
<1>2. n \in Nat /\ DOMAIN p.chunks = 1..n /\ Len(m.blocks) \in Nat
  BY DEF Good, Laid
<1>3. Holds(body, m.blocks, DirectoryOf(m), p.chunks, n)
  BY AppendChunksHolds DEF Good, Laid
<1>4. PICK B : body.blocks \in Seq(B)
  BY <1>3 DEF Holds
<1>20. \A j \in 1..n : p.chunks[j].key \in DOMAIN t.content
  <2> DEFINE R == [key : DOMAIN t.content, data : Content]
  <2>1. p.chunks \in Seq(R) /\ \A r \in R : r.key \in DOMAIN t.content
    OBVIOUS
  <2> HIDE DEF R
  <2> QED
    BY <2>1
<1> HIDE DEF n, body
<1>5. \A j \in 1..Len(body.blocks) : IsBlock(body.blocks[j])
  <2>1. \A d : IsBlock(Payload(d))
    BY DEF IsBlock, Payload
  <2>2. \A j \in 1..n : IsBlock(body.blocks[Len(m.blocks) + j])
    BY <1>3, <2>1 DEF Holds
  <2>3. \A j \in 1..Len(m.blocks) : IsBlock(body.blocks[j])
    BY <1>3 DEF Holds, Good, Laid
  <2>4. \A j \in 1..Len(body.blocks) :
          j \in 1..Len(m.blocks)
            \/ (j - Len(m.blocks) \in 1..n /\ j = Len(m.blocks) + (j - Len(m.blocks)))
    BY <1>2, <1>3 DEF Holds
  <2> QED
    BY <2>2, <2>3, <2>4
<1>6. Carries(moved, m, body.blocks, p.info)
  <2>1. Len(body.blocks) >= Len(m.blocks) /\ \A j \in 1..Len(m.blocks) : body.blocks[j] = m.blocks[j]
    BY <1>2, <1>3 DEF Holds
  <2> QED
    BY <1>4, <1>5, <2>1, MovedCarries DEF Good
<1>7. PICK C : moved.blocks \in Seq(C)
  BY <1>6 DEF Carries
<1> HIDE DEF moved
<1> DEFINE D == C \cup {Directory(body.dir)}
           e == Len(moved.blocks)
<1>8. /\ blocks \in Seq(D) /\ Len(blocks) = e + 1 /\ e \in Nat
      /\ \A j \in 1..e : blocks[j] = moved.blocks[j]
      /\ blocks[e + 1] = Directory(body.dir)
  <2>1. moved.blocks \in Seq(D) /\ Directory(body.dir) \in D
    BY <1>7
  <2> HIDE DEF D
  <2> QED
    BY <2>1, AppendProperties
<1>9. /\ w.blocks = blocks /\ w.metaAt = moved.metaAt /\ w.extAt = moved.extAt
      /\ w.dirAt = Len(blocks)
  OBVIOUS
<1> HIDE DEF blocks, w, u, D, e
<1>10. \A j \in 1..Len(blocks) : IsBlock(blocks[j])
  <2>1. \A j \in 1..e : IsBlock(blocks[j])
    BY <1>6, <1>8 DEF Carries, e
  <2>2. IsBlock(blocks[e + 1])
    BY <1>8 DEF IsBlock, Directory
  <2> QED
    BY <1>8, <2>1, <2>2
<1>11. KeptSealed(Patched(p, m)) /\ SealedAs(Patched(p, m).hash) = w
  BY <1>1, <1>8, <1>10, SealedIsKept DEF w
<1>12. /\ blocks[moved.metaAt] = moved.blocks[moved.metaAt]
       /\ blocks[moved.metaAt + 1] = moved.blocks[moved.metaAt + 1]
       /\ blocks[moved.metaAt + 2] = moved.blocks[moved.metaAt + 2]
       /\ moved.metaAt + 2 < e + 1
  <2>1. {moved.metaAt, moved.metaAt + 1, moved.metaAt + 2} \subseteq 1..e /\ moved.metaAt + 2 < e + 1
    BY SMTT(30), <1>6, <1>8 DEF Carries, e
  <2> QED
    BY <1>8, <2>1
<1>13. Laid(w)
  <2>1. blocks[Len(blocks)].kind = "dir"
    BY <1>8 DEF Directory
  <2> QED
    BY <1>6, <1>8, <1>9, <1>10, <1>12, <2>1 DEF Laid, Carries
<1>14. DirectoryOf(w) = body.dir /\ SkeletonOf(w) = SkeletonOf(m)
  BY <1>6, <1>8, <1>9, <1>12 DEF DirectoryOf, SkeletonOf, Directory, Carries
<1>15. /\ u.content = [k \in DOMAIN t.content |->
                        IF k \in {c.key : c \in Range(p.chunks)} THEN LastOf(p.chunks)[k]
                        ELSE t.content[k]]
       /\ DOMAIN u.content = DOMAIN t.content
       /\ u.info = (IF p.info = None THEN t.info ELSE p.info) /\ u.nodes = t.nodes
  <2>1. {c.key : c \in Range(p.chunks)} \subseteq DOMAIN t.content
    BY <1>2, <1>20 DEF Range
  <2>2. DOMAIN t.content \cup {c.key : c \in Range(p.chunks)} = DOMAIN t.content
    BY <2>1
  <2> QED
    BY <2>2 DEF u, Says
<1>16. Describes(w, u, o)
  <2>1. MetaOf(m) = [layers |-> LayersOf(t.content), derived |-> DerivedOf(LayersOf(t.content), o),
                     info |-> t.info]
    BY DEF Good, Describes
  <2>2. LayersOf(u.content) = LayersOf(t.content)
    BY <1>15 DEF LayersOf
  <2>3. MetaOf(w) = IF p.info = None THEN MetaOf(m) ELSE [MetaOf(m) EXCEPT !.info = p.info]
    BY <1>6, <1>9, <1>12 DEF MetaOf, Carries
  <2>4. MetaOf(w) = [layers |-> LayersOf(t.content), derived |-> DerivedOf(LayersOf(t.content), o),
                     info |-> u.info]
    BY <1>15, <2>1, <2>3
  <2> QED
    BY <1>15, <2>2, <2>4 DEF Describes, Good
<1>17. Holding(w, u)
  <2>1. DOMAIN body.dir = DOMAIN t.content
    BY <1>3, <1>20 DEF Holds, Good, Holding
  <2>2. ASSUME NEW k \in DOMAIN t.content
        PROVE  /\ body.dir[k].at \in 1..Len(blocks)
               /\ body.dir[k].crc = u.content[k]
               /\ blocks[body.dir[k].at] = Payload(u.content[k])
    <3>1. CASE \A j \in 1..n : p.chunks[j].key # k
      <4>1. k \notin {c.key : c \in Range(p.chunks)}
        BY <1>2, <3>1 DEF Range
      <4>2. u.content[k] = t.content[k]
        BY <1>15, <4>1
      <4>3. body.dir[k] = DirectoryOf(m)[k]
        BY <1>3, <3>1 DEF Holds, Good, Holding
      <4>4. DirectoryOf(m)[k].at \in 1..Len(m.blocks) /\ 1..Len(m.blocks) \subseteq 1..Len(body.blocks)
            /\ 1..Len(body.blocks) \subseteq 1..e /\ 1..e \subseteq 1..Len(blocks)
        <5>1. Len(m.blocks) <= Len(body.blocks) /\ Len(body.blocks) \in Nat
          BY <1>2, <1>3 DEF Holds
        <5>2. Len(body.blocks) <= e
          BY <1>6, <5>1 DEF Carries, e
        <5> QED
          BY <1>2, <1>8, <5>1, <5>2 DEF Good, Holding
      <4>5. blocks[DirectoryOf(m)[k].at] = m.blocks[DirectoryOf(m)[k].at]
        BY <1>3, <1>6, <1>8, <4>4 DEF Holds, Carries
      <4> QED
        BY <4>2, <4>3, <4>4, <4>5 DEF Good, Holding
    <3>2. CASE \E j \in 1..n : p.chunks[j].key = k
      <4>1. PICK j \in 1..n : p.chunks[j].key = k /\ IsLast(p.chunks, j)
        BY <3>2, LastOfIs DEF n
      <4>2. LastOf(p.chunks)[k] = p.chunks[j].data
        BY <4>1, LastOfIs DEF n
      <4>3. k \in {c.key : c \in Range(p.chunks)}
        BY <1>2, <4>1 DEF Range
      <4>4. u.content[k] = p.chunks[j].data
        BY <1>15, <4>2, <4>3
      <4>5. body.dir[k] = [at |-> Len(m.blocks) + j, crc |-> p.chunks[j].data]
        BY <1>2, <1>3, <4>1 DEF Holds, IsLast
      <4>6. body.blocks[Len(m.blocks) + j] = Payload(p.chunks[j].data)
        BY <1>3 DEF Holds
      <4>7. Len(m.blocks) + j \in 1..Len(body.blocks) /\ Len(m.blocks) + j \in 1..e
            /\ Len(m.blocks) + j \in 1..Len(blocks)
        <5>1. Len(body.blocks) = Len(m.blocks) + n
          BY <1>3 DEF Holds
        <5>2. Len(body.blocks) <= e
          BY <1>6, <1>2, <5>1 DEF Carries, e
        <5> QED
          BY <1>2, <1>8, <5>1, <5>2
      <4>8. blocks[Len(m.blocks) + j] = Payload(p.chunks[j].data)
        BY <1>6, <1>8, <4>6, <4>7 DEF Carries
      <4> QED
        BY <4>4, <4>5, <4>7, <4>8
    <3> QED
      BY <3>1, <3>2
  <2>3. u.content = [k \in DOMAIN u.content |-> u.content[k]]
    BY <1>15
  <2> QED
    BY ZenonT(60), <1>9, <1>14, <1>15, <2>1, <2>2, <2>3 DEF Holding
<1> QED
  BY <1>11, <1>13, <1>14, <1>15, <1>16, <1>17 DEF Good, u

(* An intact image is the one that was sealed.                              *)
LEMMA IntactIsGood ==
  ASSUME NEW m, NEW t, NEW o, Intact(m), Good(SealedAs(m.hash), t, o)
  PROVE  Good(m, t, o)
<1> DEFINE w == SealedAs(m.hash)
<1>1. w.blocks = m.blocks /\ w.metaAt = m.metaAt /\ w.extAt = m.extAt /\ w.dirAt = m.dirAt
  <2>1. w = [blocks |-> m.blocks, metaAt |-> m.metaAt, extAt |-> m.extAt, dirAt |-> m.dirAt]
    BY IntactIsSealed
  <2> QED
    BY <2>1
<1> HIDE DEF w
<1>2. DirectoryOf(w) = DirectoryOf(m) /\ MetaOf(w) = MetaOf(m) /\ SkeletonOf(w) = SkeletonOf(m)
  BY <1>1 DEF DirectoryOf, MetaOf, SkeletonOf
<1>3. Good(w, t, o)
  BY DEF w
<1>4. Laid(m)
  BY <1>1, <1>3 DEF Good, Laid
<1>5. Holding(m, t)
  BY <1>1, <1>2, <1>3 DEF Good, Holding
<1>6. Describes(m, t, o)
  BY <1>2, <1>3 DEF Good, Describes
<1> QED
  BY <1>2, <1>3, <1>4, <1>5, <1>6 DEF Good

(* Damage or not, the header's blocks, the directory and the skeleton are   *)
(* those that were sealed.                                                  *)
LEMMA KeptReads ==
  ASSUME NEW m, NEW t, NEW o, KeptSealed(m), Good(SealedAs(m.hash), t, o)
  PROVE  LET w == SealedAs(m.hash)
         IN  /\ DirectoryOf(m) = DirectoryOf(w) /\ MetaOf(m) = MetaOf(w)
             /\ SkeletonOf(m) = SkeletonOf(w)
             /\ m.metaAt = w.metaAt /\ m.dirAt = w.dirAt /\ Len(m.blocks) = Len(w.blocks)
<1> DEFINE w == SealedAs(m.hash)
<1>1. /\ m.metaAt = w.metaAt /\ m.dirAt = w.dirAt /\ Len(m.blocks) = Len(w.blocks)
      /\ \A j \in 1..Len(m.blocks) : m.blocks[j] = w.blocks[j] \/ w.blocks[j].kind = "payload"
  BY DEF KeptSealed
<1> HIDE DEF w
<1>2. Laid(w)
  BY DEF Good, w
<1>3. {w.metaAt, w.metaAt + 2, w.dirAt} \subseteq 1..Len(m.blocks)
  <2>1. Len(w.blocks) \in Nat
    BY <1>2 DEF Laid
  <2> QED
    BY <1>1, <1>2, <2>1 DEF Laid
<1>4. /\ m.blocks[w.metaAt] = w.blocks[w.metaAt] /\ m.blocks[w.dirAt] = w.blocks[w.dirAt]
      /\ m.blocks[w.metaAt + 2] = w.blocks[w.metaAt + 2]
  BY <1>1, <1>2, <1>3 DEF Laid
<1> QED
  BY <1>1, <1>4 DEF w, DirectoryOf, MetaOf, SkeletonOf

-----------------------------------------------------------------------------
(* Fingerprints tell two contents of the same chunks apart.                 *)
LEMMA FingerprintTells ==
  ASSUME NEW sources, NEW present, NEW a, NEW b, DOMAIN a = DOMAIN b
  PROVE  DerivedFingerprint(sources, present, a) = DerivedFingerprint(sources, present, b)
           <=> \A s \in sources \cap present : \A k \in DOMAIN a : k[1] = s => a[k] = b[k]
<1> DEFINE F(s, c) == LayerFingerprint(s, c)
<1>1. ASSUME NEW s, \A k \in DOMAIN a : k[1] = s => a[k] = b[k]
      PROVE  LayerFingerprint(s, a) = LayerFingerprint(s, b)
  <2>1. {<<k, a[k]>> : k \in {q \in DOMAIN a : q[1] = s}}
          = {<<k, b[k]>> : k \in {q \in DOMAIN b : q[1] = s}}
    BY <1>1
  <2> QED
    BY <2>1 DEF LayerFingerprint
<1>2. ASSUME NEW s, NEW q, LayerFingerprint(s, a) = LayerFingerprint(q, b),
             NEW k \in DOMAIN a, k[1] = s
      PROVE  a[k] = b[k]
  <2>1. {<<j, a[j]>> : j \in {i \in DOMAIN a : i[1] = s}}
          = {<<j, b[j]>> : j \in {i \in DOMAIN b : i[1] = q}}
    BY <1>2 DEF LayerFingerprint
  <2>2. <<k, a[k]>> \in {<<j, a[j]>> : j \in {i \in DOMAIN a : i[1] = s}}
    BY <1>2
  <2>3. PICK j \in DOMAIN b : <<k, a[k]>> = <<j, b[j]>>
    BY <2>1, <2>2
  <2> QED
    BY <2>3
<1>3. ASSUME \A s \in sources \cap present : \A k \in DOMAIN a : k[1] = s => a[k] = b[k]
      PROVE  DerivedFingerprint(sources, present, a) = DerivedFingerprint(sources, present, b)
  BY <1>1, <1>3 DEF DerivedFingerprint
<1>4. ASSUME DerivedFingerprint(sources, present, a) = DerivedFingerprint(sources, present, b),
             NEW s \in sources \cap present, NEW k \in DOMAIN a, k[1] = s
      PROVE  a[k] = b[k]
  <2>1. PICK q \in sources \cap present : LayerFingerprint(s, a) = LayerFingerprint(q, b)
    BY <1>4 DEF DerivedFingerprint
  <2> QED
    BY <1>2, <1>4, <2>1
<1> QED
  BY <1>3, <1>4

(* What the reader refuses, said of contents.                               *)
Moved(said, o, l) == \E k \in DOMAIN said : k[1] = l /\ said[k] # o[k]

(* Map::verify_derived refuses a layer exactly when a source of it moved.   *)
LEMMA StaleIsMoved ==
  ASSUME NEW w, NEW t, NEW o, Good(w, t, o)
  PROVE  FindStaleDerived(MetaOf(w), DirectoryOf(w)) =
           {l \in LayersOf(t.content) \cap Derived :
              \E s \in SourceLayersOf(l, LayersOf(t.content)) :
                s \in LayersOf(t.content) /\ Moved(t.content, o, s)}
<1> DEFINE said == t.content
           present == LayersOf(t.content)
           meta == MetaOf(w)
           dir == DirectoryOf(w)
<1>1. /\ DOMAIN o = DOMAIN said /\ meta.layers = present
      /\ meta.derived = DerivedOf(present, o)
  BY DEF Good, Describes
<1>2. CrcOf(dir) = said
  <2>1. /\ said = [k \in DOMAIN said |-> said[k]] /\ DOMAIN dir = DOMAIN said
        /\ \A k \in DOMAIN said : dir[k].crc = said[k]
    BY DEF Good, Holding
  <2> HIDE DEF said, dir
  <2>2. CrcOf(dir) = [k \in DOMAIN said |-> said[k]]
    BY <2>1 DEF CrcOf
  <2> QED
    BY <2>1, <2>2
<1> HIDE DEF said, present, meta, dir
<1>3. ASSUME NEW l \in present \cap Derived
      PROVE  ~DerivedValid(meta, dir, l)
               <=> \E s \in SourceLayersOf(l, present) : s \in present /\ Moved(said, o, s)
  <2>1. l \in DOMAIN meta.derived
        /\ meta.derived[l] = DerivedFingerprint(SourceLayersOf(l, present), present, o)
    BY <1>1 DEF DerivedOf
  <2>2. SourcesOf(l, present) = SourceLayersOf(l, present)
    BY DEF SourcesOf, SourceLayersOf
  <2>3. DerivedValid(meta, dir, l)
          <=> DerivedFingerprint(SourceLayersOf(l, present), present, o)
                = DerivedFingerprint(SourceLayersOf(l, present), present, said)
    BY <1>1, <1>2, <2>1, <2>2 DEF DerivedValid
  <2> QED
    BY <1>1, <2>3, FingerprintTells DEF Moved
<1>4. FindStaleDerived(meta, dir) = {l \in present \cap Derived : ~DerivedValid(meta, dir, l)}
  BY <1>1 DEF FindStaleDerived
<1> QED
  BY <1>3, <1>4 DEF said, present, meta, dir

-----------------------------------------------------------------------------
(* The inductive invariant.                                                 *)

BuilderSound ==
  images = <<>> => Collected(pending)

OriginSound ==
  images # <<>> => /\ DOMAIN origin \subseteq Key
                   /\ WholeLayers(DOMAIN origin)

(* What a reader may keep decoded of an image that says said.               *)
Entries(said) == {[key |-> k, data |-> said[k]] : k \in DOMAIN said}

ReaderOf(i) ==
  LET w == SealedAs(images[i].hash)
  IN  /\ reader = [image |-> i, meta |-> reader.meta, dir |-> DirectoryOf(w),
                   nodes |-> reader.nodes,
                   stale |-> FindStaleDerived(MetaOf(w), DirectoryOf(w)),
                   cache |-> reader.cache]
      /\ reader.cache \in Seq(Entries(truth[i].content))
      /\ Len(reader.cache) <= CacheSlots
      /\ \A m, n \in 1..Len(reader.cache) :
           reader.cache[m].key = reader.cache[n].key => m = n

ReaderSound ==
  \/ reader = NoReader /\ answer = NoAnswer
  \/ (\E i \in 1..Len(images) : ReaderOf(i)) /\ AnswersAreTrue

ImageInv ==
  /\ BuilderSound /\ OriginSound /\ ImagesSound /\ PatchesSound /\ ReaderSound
  /\ Len(images) <= MaxImages

-----------------------------------------------------------------------------
(* What stays while images are only added, or damaged in their payloads.    *)
ImagesStay ==
  /\ Len(images) \in Nat /\ Len(images') \in Nat /\ Len(images) <= Len(images')
  /\ \A i \in 1..Len(images) : images'[i].hash = images[i].hash /\ truth'[i] = truth[i]

(* A patch keeps the image it was made for.                                 *)
LEMMA PatchStays ==
  ASSUME NEW p, PatchSound(p), ImagesStay
  PROVE  PatchSound(p)'
<1>1. PICK i \in 1..Len(images) : p.base = images[i].hash /\ p.madeFor = truth[i]
  BY DEF PatchSound
<1>2. i \in 1..Len(images') /\ p.base = images'[i].hash /\ p.madeFor = truth'[i]
  BY <1>1 DEF ImagesStay
<1> QED
  BY <1>2 DEF PatchSound

(* A reader keeps what it read of its image.                                *)
LEMMA ReaderStays ==
  ASSUME ReaderSound, ImagesStay, UNCHANGED <<reader, answer>>
  PROVE  ReaderSound'
<1>1. CASE reader = NoReader /\ answer = NoAnswer
  BY <1>1 DEF ReaderSound
<1>2. CASE (\E i \in 1..Len(images) : ReaderOf(i)) /\ AnswersAreTrue
  <2>1. PICK i \in 1..Len(images) : ReaderOf(i)
    BY <1>2
  <2>2. i \in 1..Len(images') /\ images'[i].hash = images[i].hash /\ truth'[i] = truth[i]
    BY DEF ImagesStay
  <2>3. ReaderOf(i)'
    BY <2>1, <2>2 DEF ReaderOf
  <2>4. reader.image = i
    BY <2>1 DEF ReaderOf
  <2>5. AnswersAreTrue'
    BY <1>2, <2>2, <2>4 DEF AnswersAreTrue
  <2> QED
    BY <2>2, <2>3, <2>5 DEF ReaderSound
<1> QED
  BY <1>1, <1>2 DEF ReaderSound

(* Before the build.                                                        *)
LEMMA InitSound == Init => ImageInv
<1> SUFFICES ASSUME Init PROVE ImageInv
  OBVIOUS
<1>1. /\ images = <<>> /\ truth = <<>> /\ patches = {} /\ reader = NoReader /\ answer = NoAnswer
      /\ Len(images) = 0 /\ Len(truth) = 0 /\ 1..0 = {} /\ 0 <= MaxImages
  BY MapAssumption DEF Init
<1>2. BuilderSound
  BY BuilderCollects DEF Init, BuilderSound
<1>3. ImagesSound
  <2>1. <<>> \in Seq({})
    OBVIOUS
  <2> QED
    BY <1>1, <2>1 DEF ImagesSound
<1> QED
  BY <1>1, <1>2, <1>3 DEF ImageInv, OriginSound, PatchesSound, ReaderSound

(* The build seals the first image.                                         *)
LEMMA BuildStep ==
  ASSUME ImageInv, Build
  PROVE  ImageInv'
<1> DEFINE meta == [layers |-> PresentLayers, derived |-> DerivedTable, info |-> FirstInfo]
           content == LastOf(pending)
           nodes == ProxyChunks(content)
           body == AppendChunks(<<MetaBlock(meta), Extension, Skeleton(nodes)>>, <<>>, pending)
           blocks == Append(body.blocks, Directory(body.dir))
           image == Sealed(blocks, 1, 2, Len(blocks))
           said == [content |-> content, info |-> FirstInfo, nodes |-> nodes]
<1>1. /\ images = <<>> /\ images' = <<image>> /\ truth' = <<said>> /\ origin' = content
      /\ UNCHANGED <<patches, reader, answer>>
  BY DEF Build
<1>2. Collected(pending)
  BY <1>1 DEF ImageInv, BuilderSound
<1>3. /\ Good([blocks |-> blocks, metaAt |-> 1, extAt |-> 2, dirAt |-> Len(blocks)], said, content)
      /\ \E S : blocks \in Seq(S)
  <2>1. BuiltAs(body, blocks, meta, nodes)
    BY DEF BuiltAs
  <2> HIDE DEF body, blocks, meta, nodes
  <2> QED
    BY <1>2, <2>1, BuildIsGood DEF Collected
<1> HIDE DEF blocks, said, content
<1>4. PICK S : blocks \in Seq(S)
  BY <1>3
<1>5. \A j \in 1..Len(blocks) : IsBlock(blocks[j])
  BY <1>3 DEF Good, Laid
<1>6. KeptSealed(image)
      /\ SealedAs(image.hash) = [blocks |-> blocks, metaAt |-> 1, extAt |-> 2, dirAt |-> Len(blocks)]
  BY <1>4, <1>5, SealedIsKept
<1> HIDE DEF image
<1>7. /\ Len(images') = 1 /\ Len(truth') = 1 /\ images'[1] = image /\ truth'[1] = said
      /\ images' \in Seq({image}) /\ truth' \in Seq({said}) /\ 1..1 = {1}
      /\ Len(images) = 0 /\ images' # <<>> /\ 1..0 = {}
  BY <1>1
<1>8. ImagesSound'
  BY <1>1, <1>3, <1>6, <1>7 DEF ImagesSound
<1>9. OriginSound'
  <2>1. DOMAIN pending = 1..Len(pending)
    BY <1>2 DEF Collected
  <2>2. DOMAIN content = KeysIn(pending)
    BY <1>2, <2>1, LastOfIs DEF Collected, KeysIn, content
  <2>3. KeysIn(pending) \subseteq Key
    <3>1. \A j \in 1..Len(pending) : pending[j] \in Record
      BY <1>2 DEF Collected
    <3>2. \A j \in 1..Len(pending) : pending[j].key \in Key
      BY <3>1 DEF Record
    <3> QED
      BY <2>1, <3>2 DEF KeysIn
  <2> QED
    BY <1>1, <1>2, <2>2, <2>3 DEF OriginSound, Collected
<1>10. ImagesStay
  BY <1>7 DEF ImagesStay
<1>11. PatchesSound'
  BY <1>1, <1>10, PatchStays DEF ImageInv, PatchesSound
<1>12. ReaderSound'
  BY <1>1, <1>10, ReaderStays DEF ImageInv
<1> QED
  BY <1>7, <1>8, <1>9, <1>11, <1>12, MapAssumption DEF ImageInv, BuilderSound

(* Opening reads the header, the directory and the skeleton of what was     *)
(* sealed.                                                                  *)
LEMMA OpenStep ==
  ASSUME ImageInv, NEW i \in DOMAIN images, NEW verify \in BOOLEAN, OpenMap(i, verify)
  PROVE  ImageInv'
<1>1. /\ reader' = [image |-> i, meta |-> MetaOf(images[i]), dir |-> DirectoryOf(images[i]),
                    nodes |-> SkeletonOf(images[i]),
                    stale |-> FindStaleDerived(MetaOf(images[i]), DirectoryOf(images[i])),
                    cache |-> <<>>]
      /\ answer' = NoAnswer
      /\ UNCHANGED <<pending, images, patches, truth, origin>>
  BY DEF OpenMap
<1>2. i \in 1..Len(images) /\ Good(SealedAs(images[i].hash), truth[i], origin)
      /\ KeptSealed(images[i])
  BY DEF ImageInv, ImagesSound
<1>3. /\ DirectoryOf(images[i]) = DirectoryOf(SealedAs(images[i].hash))
      /\ MetaOf(images[i]) = MetaOf(SealedAs(images[i].hash))
  BY <1>2, KeptReads
<1>4. ReaderSound'
  <2>1. <<>> \in Seq(Entries(truth[i].content)) /\ Len(<<>>) = 0 /\ 0 <= CacheSlots /\ 1..0 = {}
    BY MapAssumption
  <2>2. /\ reader'.meta = MetaOf(images[i]) /\ reader'.nodes = SkeletonOf(images[i])
        /\ reader'.cache = <<>>
    BY <1>1
  <2>3. ReaderOf(i)'
    BY <1>1, <1>3, <2>1, <2>2 DEF ReaderOf
  <2> QED
    BY <1>1, <1>2, <2>3 DEF ReaderSound, AnswersAreTrue
<1> QED
  BY <1>1, <1>4 DEF ImageInv, BuilderSound, OriginSound, ImagesSound, PatchesSound, PatchSound

(* Reading.  What is read is what the image says, so the cache may keep it. *)
LEMMA CacheHolds ==
  ASSUME NEW said, NEW cache \in Seq(Entries(said)), Len(cache) <= CacheSlots,
         \A m, n \in 1..Len(cache) : cache[m].key = cache[n].key => m = n,
         NEW key \in DOMAIN said
  PROVE  LET kept == CacheInsert(cache, key, said[key])
         IN  /\ kept \in Seq(Entries(said)) /\ Len(kept) <= CacheSlots
             /\ \A m, n \in 1..Len(kept) : kept[m].key = kept[n].key => m = n
<1> DEFINE E == Entries(said)
           entry == [key |-> key, data |-> said[key]]
           more == IF \E r \in Range(cache) : r.key = key THEN cache ELSE Append(cache, entry)
           over == IF Len(more) > CacheSlots THEN Len(more) - CacheSlots ELSE 0
           kept == SubSeq(more, over + 1, Len(more))
<1>1. CacheInsert(cache, key, said[key]) = kept
  BY DEF CacheInsert
<1>2. entry \in E
  BY DEF Entries
<1>3. CacheSlots \in Nat /\ Len(cache) \in Nat /\ DOMAIN cache = 1..Len(cache)
  BY MapAssumption
<1>4. entry.key = key
  OBVIOUS
<1> HIDE DEF E, entry
<1>5. more \in Seq(E) /\ \A m, n \in 1..Len(more) : more[m].key = more[n].key => m = n
  <2>1. CASE \E r \in Range(cache) : r.key = key
    BY <2>1 DEF E
  <2>2. CASE ~\E r \in Range(cache) : r.key = key
    <3>1. \A m \in 1..Len(cache) : cache[m].key # key
      BY <1>3, <2>2 DEF Range
    <3>2. /\ more = Append(cache, entry) /\ more \in Seq(E) /\ Len(more) = Len(cache) + 1
          /\ \A m \in 1..Len(cache) : more[m] = cache[m]
          /\ more[Len(cache) + 1] = entry
      <4>1. more = Append(cache, entry)
        BY <2>2
      <4> QED
        BY <1>2, <4>1, AppendProperties DEF E
    <3>3. ASSUME NEW m \in 1..Len(more), NEW n \in 1..Len(more), more[m].key = more[n].key
          PROVE  m = n
      <4> HIDE DEF more
      <4>1. \A j \in 1..Len(more) : j \in 1..Len(cache) \/ j = Len(cache) + 1
        BY <1>3, <3>2
      <4> QED
        BY <1>4, <3>1, <3>2, <3>3, <4>1
    <3> QED
      BY <3>2, <3>3
  <2> QED
    BY <2>1, <2>2
<1> HIDE DEF more
<1>6. /\ Len(more) \in Nat /\ over \in Nat /\ over <= Len(more) /\ Len(more) - over <= CacheSlots
  BY <1>3, <1>5
<1> HIDE DEF over
<1>7. /\ kept \in Seq(E) /\ Len(kept) = Len(more) - over
      /\ \A j \in 1..Len(more) - over : kept[j] = more[over + j]
  <2>1. \A j \in over + 1..Len(more) : more[j] \in E
    BY <1>5, <1>6
  <2>2. over + 1 \in Int /\ Len(more) \in Int
    BY <1>6
  <2>3. /\ kept \in Seq(E)
        /\ Len(kept) = IF over + 1 <= Len(more) THEN Len(more) - (over + 1) + 1 ELSE 0
        /\ \A j \in 1..Len(more) - (over + 1) + 1 : kept[j] = more[over + 1 + j - 1]
    BY <2>1, <2>2, SubSeqProperties
  <2>4. Len(more) - (over + 1) + 1 = Len(more) - over
    BY <1>6
  <2>5. \A j \in 1..Len(more) - over : over + 1 + j - 1 = over + j
    BY <1>6
  <2> HIDE DEF kept
  <2>6. Len(kept) = Len(more) - over
    <3>1. Len(kept) = IF over + 1 <= Len(more) THEN Len(more) - (over + 1) + 1 ELSE 0
      BY <2>3
    <3>2. PICK n \in Nat : n = Len(more)
      BY <1>6
    <3>3. (IF over + 1 <= n THEN n - (over + 1) + 1 ELSE 0) = n - over
      BY <1>6, <3>2
    <3> QED
      BY <3>1, <3>2, <3>3
  <2>7. ASSUME NEW j \in 1..Len(more) - over PROVE kept[j] = more[over + j]
    <3>1. kept[j] = more[over + 1 + j - 1]
      <4>1. j \in 1..Len(more) - (over + 1) + 1
        BY <2>4
      <4> QED
        BY <2>3, <4>1
    <3> QED
      BY <2>5, <3>1
  <2> QED
    BY <2>3, <2>6, <2>7
<1> HIDE DEF kept
<1>8. ASSUME NEW m \in 1..Len(kept), NEW n \in 1..Len(kept), kept[m].key = kept[n].key
      PROVE  m = n
  <2>1. over + m \in 1..Len(more) /\ over + n \in 1..Len(more)
    BY <1>6, <1>7
  <2>2. more[over + m].key = more[over + n].key
    BY <1>7, <1>8
  <2>3. over + m = over + n
    BY <1>5, <2>1, <2>2
  <2> QED
    BY <1>6, <2>3
<1>9. Len(kept) <= CacheSlots
  BY <1>6, <1>7
<1> QED
  BY <1>1, <1>7, <1>8, <1>9 DEF E

(* A chunk that is read is the one the image says, or reading it fails.     *)
LEMMA OutcomeIs ==
  ASSUME ImageInv, NEW i \in 1..Len(images), ReaderOf(i), NEW key \in Key
  PROVE  LET said == truth[i].content
         IN  /\ Outcome(key).how = "absent" <=> key \notin DOMAIN said
             /\ Outcome(key).how = "data" =>
                  key \in DOMAIN said /\ Outcome(key).data = said[key]
<1> DEFINE said == truth[i].content
           w == SealedAs(images[i].hash)
<1>1. /\ reader.dir = DirectoryOf(w) /\ reader.stale = FindStaleDerived(MetaOf(w), DirectoryOf(w))
      /\ reader.cache \in Seq(Entries(said)) /\ reader.image = i
  BY DEF ReaderOf
<1>2. Good(w, truth[i], origin)
  BY DEF ImageInv, ImagesSound
<1>3. /\ DOMAIN reader.dir = DOMAIN said /\ DOMAIN origin = DOMAIN said
      /\ \A k \in DOMAIN said : reader.dir[k].crc = said[k]
  BY <1>1, <1>2 DEF Good, Holding, Describes
<1>4. ASSUME key[1] \in reader.stale PROVE key \in DOMAIN said
  <2>1. key[1] \in LayersOf(said)
    BY <1>1, <1>2, <1>4, StaleIsMoved
  <2>2. PICK k \in DOMAIN said : k[1] = key[1]
    BY <2>1 DEF LayersOf
  <2>3. key \in KeysOf(key[1])
    <3>1. PICK l \in Layer : key \in KeysOf(l)
      BY DEF Key
    <3>2. key[1] = l
      BY <3>1 DEF KeysOf
    <3> QED
      BY <3>1, <3>2
  <2>4. images # <<>>
    OBVIOUS
  <2> QED
    BY <1>3, <2>2, <2>3, <2>4 DEF ImageInv, OriginSound, WholeLayers
<1>5. ASSUME CacheHit(key) # {}
      PROVE  (CHOOSE r \in CacheHit(key) : TRUE).data = said[key]
  <2>1. PICK r \in CacheHit(key) : r = CHOOSE q \in CacheHit(key) : TRUE
    BY <1>5
  <2>2. r.key = key /\ r \in Range(reader.cache)
    BY DEF CacheHit
  <2>3. PICK n \in 1..Len(reader.cache) : r = reader.cache[n]
    BY <1>1, <2>2 DEF Range
  <2>4. r \in Entries(said)
    BY <1>1, <2>3
  <2>5. PICK k \in DOMAIN said : r = [key |-> k, data |-> said[k]]
    BY <2>4 DEF Entries
  <2>6. k = key /\ r.data = said[k]
    BY <2>2, <2>5
  <2> HIDE DEF said
  <2> QED
    BY <2>1, <2>6
<1>6. CASE key[1] \in reader.stale
  <2>1. Outcome(key).how = "stale"
    BY <1>6 DEF Outcome
  <2> QED
    BY <1>4, <1>6, <2>1
<1>7. CASE key[1] \notin reader.stale /\ key \notin DOMAIN reader.dir
  <2>1. Outcome(key).how = "absent"
    BY <1>7 DEF Outcome
  <2> QED
    BY <1>3, <1>7, <2>1
<1>8. CASE key[1] \notin reader.stale /\ key \in DOMAIN reader.dir /\ CacheHit(key) # {}
  <2>1. Outcome(key) = [how |-> "data", data |-> (CHOOSE r \in CacheHit(key) : TRUE).data]
    BY <1>8 DEF Outcome
  <2>2. Outcome(key).how = "data" /\ Outcome(key).data = said[key]
    BY <1>5, <1>8, <2>1
  <2> QED
    BY <1>3, <1>8, <2>2
<1>9. CASE key[1] \notin reader.stale /\ key \in DOMAIN reader.dir /\ CacheHit(key) = {}
  <2> DEFINE stored == images[reader.image].blocks[reader.dir[key].at].data
  <2>1. Outcome(key) = IF stored # reader.dir[key].crc THEN [how |-> "crc"]
                       ELSE [how |-> "data", data |-> stored]
    BY <1>9 DEF Outcome
  <2> HIDE DEF stored
  <2>2. reader.dir[key].crc = said[key]
    BY <1>3, <1>9
  <2>3. CASE stored # said[key]
    <3>1. Outcome(key).how = "crc"
      BY <2>1, <2>2, <2>3
    <3> QED
      BY <1>3, <1>9, <3>1
  <2>4. CASE stored = said[key]
    <3>1. Outcome(key).how = "data" /\ Outcome(key).data = said[key]
      BY <2>1, <2>2, <2>4
    <3> QED
      BY <1>3, <1>9, <3>1
  <2> QED
    BY <2>3, <2>4
<1> QED
  BY <1>6, <1>7, <1>8, <1>9

(* Reading a chunk.                                                         *)
LEMMA ReadStep ==
  ASSUME ImageInv, NEW key \in Key, ReadChunk(key)
  PROVE  ImageInv'
<1>1. /\ answer' = [key |-> key, result |-> Outcome(key)]
      /\ reader' = IF Outcome(key).how = "data"
                   THEN [reader EXCEPT !.cache = CacheInsert(@, key, Outcome(key).data)]
                   ELSE reader
      /\ UNCHANGED <<pending, images, patches, truth, origin>> /\ reader # NoReader
  BY DEF ReadChunk
<1>2. PICK i \in 1..Len(images) : ReaderOf(i)
  BY <1>1 DEF ImageInv, ReaderSound
<1> DEFINE said == truth[i].content
<1>3. /\ Outcome(key).how = "absent" <=> key \notin DOMAIN said
      /\ Outcome(key).how = "data" => key \in DOMAIN said /\ Outcome(key).data = said[key]
  BY <1>2, OutcomeIs
<1>4. ReaderOf(i)'
  <2>1. CASE Outcome(key).how # "data"
    BY <1>1, <1>2, <2>1 DEF ReaderOf
  <2>2. CASE Outcome(key).how = "data"
    <3> DEFINE kept == CacheInsert(reader.cache, key, said[key])
               w == SealedAs(images[i].hash)
    <3>1. /\ kept \in Seq(Entries(said)) /\ Len(kept) <= CacheSlots
          /\ \A m, n \in 1..Len(kept) : kept[m].key = kept[n].key => m = n
      BY <1>2, <1>3, <2>2, CacheHolds DEF ReaderOf
    <3> HIDE DEF kept
    <3>2. reader' = [reader EXCEPT !.cache = kept]
      BY <1>1, <1>3, <2>2 DEF kept
    <3>3. reader = [image |-> i, meta |-> reader.meta, dir |-> DirectoryOf(w),
                    nodes |-> reader.nodes,
                    stale |-> FindStaleDerived(MetaOf(w), DirectoryOf(w)),
                    cache |-> reader.cache]
      BY <1>2 DEF ReaderOf
    <3>4. /\ reader' = [image |-> i, meta |-> reader.meta, dir |-> DirectoryOf(w),
                       nodes |-> reader.nodes,
                       stale |-> FindStaleDerived(MetaOf(w), DirectoryOf(w)),
                       cache |-> kept]
      BY <3>2, <3>3
    <3>5. reader'.meta = reader.meta /\ reader'.nodes = reader.nodes /\ reader'.cache = kept
      BY <3>4
    <3> QED
      BY <1>1, <3>1, <3>4, <3>5 DEF ReaderOf
  <2> QED
    BY <2>1, <2>2
<1>5. AnswersAreTrue'
  <2>1. reader'.image = i
    BY <1>4 DEF ReaderOf
  <2>2. answer'.key = key /\ answer'.result = Outcome(key) /\ truth' = truth
    BY <1>1
  <2> HIDE DEF Outcome
  <2> QED
    BY <1>3, <2>1, <2>2 DEF AnswersAreTrue
<1>6. ReaderSound'
  BY <1>1, <1>4, <1>5 DEF ReaderSound
<1> QED
  BY <1>1, <1>6 DEF ImageInv, BuilderSound, OriginSound, ImagesSound, PatchesSound, PatchSound

(* Patches.                                                                 *)
LEMMA EditsTyped ==
  ASSUME NEW content, NEW chunks \in Edits(content)
  PROVE  chunks \in Seq([key : DOMAIN content, data : Content])
<1> DEFINE R == [key : DOMAIN content, data : Content]
<1>1. CASE chunks = <<>>
  <2>1. <<>> \in Seq(R)
    OBVIOUS
  <2> QED
    BY <1>1, <2>1
<1>2. CASE chunks # <<>>
  <2>1. PICK k \in DOMAIN content :
          chunks \in {<<[key |-> k, data |-> d]>> : d \in Content \ {content[k]}}
    BY <1>2 DEF Edits
  <2>2. PICK d \in Content : chunks = <<[key |-> k, data |-> d]>>
    BY <2>1
  <2>3. [key |-> k, data |-> d] \in R
    OBVIOUS
  <2> HIDE DEF R
  <2>4. <<[key |-> k, data |-> d]>> \in Seq(R)
    BY <2>3
  <2> QED
    BY <2>2, <2>4
<1> QED
  BY <1>1, <1>2

(* Writing a patch for an image.                                            *)
LEMMA MakeStep ==
  ASSUME ImageInv, NEW i \in DOMAIN images, NEW info,
         NEW chunks \in Edits(truth[i].content), MakePatch(i, chunks, info)
  PROVE  ImageInv'
<1> DEFINE p == PatchFor(i, chunks, info)
<1>1. patches' = patches \cup {p} /\ UNCHANGED <<pending, images, reader, answer, truth, origin>>
  BY DEF MakePatch
<1>2. p.base = images[i].hash /\ p.chunks = chunks /\ p.madeFor = truth[i]
  BY DEF PatchFor
<1>3. i \in 1..Len(images)
  BY DEF ImageInv, ImagesSound
<1>4. chunks \in Seq([key : DOMAIN truth[i].content, data : Content])
  BY EditsTyped
<1> HIDE DEF p
<1>5. PatchSound(p)
  BY <1>2, <1>3, <1>4 DEF PatchSound
<1>6. PatchesSound'
  BY <1>1, <1>5 DEF ImageInv, PatchesSound, PatchSound
<1> QED
  BY <1>1, <1>6
  DEF ImageInv, BuilderSound, OriginSound, ImagesSound, ReaderSound, ReaderOf, AnswersAreTrue

(* Applying a patch, to the image it was made for or to an equal one.       *)
LEMMA ApplyStep ==
  ASSUME ImageInv, NEW p \in patches, NEW i \in DOMAIN images, ApplyPatch(p, i)
  PROVE  ImageInv'
<1> DEFINE m == images[i]
           made == Patched(p, m)
           said == Says(p.madeFor, p)
           n == Len(images)
<1>1. /\ images' = Append(images, made) /\ truth' = Append(truth, said) /\ n < MaxImages
      /\ UNCHANGED <<pending, patches, reader, answer, origin>>
      /\ Intact(m) /\ p.base = m.hash
  BY DEF ApplyPatch, Accepts
<1>2. i \in 1..n /\ n \in Nat /\ Len(truth) = n
  BY DEF ImageInv, ImagesSound
<1>3. PatchSound(p)
  BY DEF ImageInv, PatchesSound
<1>4. PICK h \in 1..n : p.base = images[h].hash /\ p.madeFor = truth[h]
  BY <1>3 DEF PatchSound
<1>5. Good(m, p.madeFor, origin)
  <2>1. Good(SealedAs(m.hash), p.madeFor, origin)
    BY <1>1, <1>4 DEF ImageInv, ImagesSound
  <2> QED
    BY <1>1, <2>1, IntactIsGood
<1>6. KeptSealed(made) /\ Good(SealedAs(made.hash), said, origin)
  BY <1>3, <1>5, PatchedIsGood DEF PatchSound
<1> HIDE DEF m, made, said, n
<1>7. PICK A : images \in Seq(A)
  BY DEF ImageInv, ImagesSound
<1>8. PICK B : truth \in Seq(B)
  BY DEF ImageInv, ImagesSound
<1>9. /\ images' \in Seq(A \cup {made}) /\ Len(images') = n + 1
      /\ \A j \in 1..n : images'[j] = images[j]
      /\ images'[n + 1] = made
  <2> DEFINE T == A \cup {made}
  <2>1. images \in Seq(T) /\ made \in T
    BY <1>7
  <2> HIDE DEF T
  <2>2. /\ Append(images, made) \in Seq(T) /\ Len(Append(images, made)) = n + 1
        /\ \A j \in 1..n : Append(images, made)[j] = images[j]
        /\ Append(images, made)[n + 1] = made
    BY <2>1, AppendProperties DEF n
  <2> QED
    BY <1>1, <2>2 DEF T
<1>10. /\ truth' \in Seq(B \cup {said}) /\ Len(truth') = n + 1
       /\ \A j \in 1..n : truth'[j] = truth[j]
       /\ truth'[n + 1] = said
  <2> DEFINE T == B \cup {said}
  <2>1. truth \in Seq(T) /\ said \in T
    BY <1>8
  <2> HIDE DEF T
  <2>2. /\ Append(truth, said) \in Seq(T) /\ Len(Append(truth, said)) = n + 1
        /\ \A j \in 1..n : Append(truth, said)[j] = truth[j]
        /\ Append(truth, said)[n + 1] = said
    BY <1>2, <2>1, AppendProperties
  <2> QED
    BY <1>1, <2>2 DEF T
<1>11. ImagesSound'
  <2>1. \A j \in 1..n + 1 : j \in 1..n \/ j = n + 1
    BY <1>2
  <2>2. \A j \in 1..n : Good(SealedAs(images'[j].hash), truth'[j], origin') /\ KeptSealed(images'[j])
    BY <1>1, <1>9, <1>10 DEF ImageInv, ImagesSound, n
  <2>3. /\ Good(SealedAs(images'[n + 1].hash), truth'[n + 1], origin')
        /\ KeptSealed(images'[n + 1])
    BY <1>1, <1>6, <1>9, <1>10
  <2> QED
    BY <1>9, <1>10, <2>1, <2>2, <2>3 DEF ImagesSound
<1>12. ImagesStay
  BY <1>2, <1>9, <1>10 DEF ImagesStay, n
<1>13. PatchesSound'
  BY <1>1, <1>12, PatchStays DEF ImageInv, PatchesSound
<1>14. ReaderSound'
  BY <1>1, <1>12, ReaderStays DEF ImageInv
<1>15. images # <<>> /\ images' # <<>> /\ n + 1 <= MaxImages
  <2>1. Len(images) # 0 /\ Len(images') # 0 /\ Len(<<>>) = 0
    BY <1>2, <1>9 DEF n
  <2> QED
    BY <1>1, <1>2, <2>1, MapAssumption
<1> QED
  BY <1>1, <1>9, <1>11, <1>13, <1>14, <1>15 DEF ImageInv, BuilderSound, OriginSound

(* Damage leaves of every image what was sealed, but for payloads.          *)
LEMMA DamageStep ==
  ASSUME ImageInv, NEW i \in DOMAIN images, NEW b \in DOMAIN images[i].blocks, Damage(i, b)
  PROVE  ImageInv'
<1> DEFINE m == images[i]
           n == Len(images)
           bad == [m.blocks EXCEPT ![b].data = Garbage]
           w == SealedAs(m.hash)
<1>1. /\ m.blocks[b].kind = "payload" /\ images' = [images EXCEPT ![i].blocks[b].data = Garbage]
      /\ UNCHANGED <<pending, patches, reader, answer, truth, origin>>
  BY DEF Damage
<1>2. i \in 1..n /\ n \in Nat /\ Len(truth) = n /\ KeptSealed(m)
  BY DEF ImageInv, ImagesSound
<1>3. PICK A : images \in Seq(A)
  BY DEF ImageInv, ImagesSound
<1>4. PICK C : m.blocks \in Seq(C)
  BY <1>2 DEF KeptSealed
<1>5. b \in 1..Len(m.blocks) /\ Len(m.blocks) \in Nat
  BY <1>4
<1>6. IsImage(m) /\ IsBlock(m.blocks[b])
  BY <1>2, <1>5 DEF KeptSealed
<1> DEFINE new == [m EXCEPT !.blocks = bad]
<1>7. images' = [images EXCEPT ![i] = new]
  BY <1>1
<1>8. /\ bad \in Seq(C \cup {bad[b]}) /\ Len(bad) = Len(m.blocks)
      /\ \A j \in 1..Len(m.blocks) : j # b => bad[j] = m.blocks[j]
      /\ bad[b] = [m.blocks[b] EXCEPT !.data = Garbage]
  <2>1. bad = [j \in 1..Len(m.blocks) |-> IF j = b THEN [m.blocks[b] EXCEPT !.data = Garbage]
                                         ELSE m.blocks[j]]
    BY <1>4
  <2> DEFINE f == [j \in 1..Len(m.blocks) |-> IF j = b THEN [m.blocks[b] EXCEPT !.data = Garbage]
                                              ELSE m.blocks[j]]
             D == C \cup {[m.blocks[b] EXCEPT !.data = Garbage]}
  <2>2. \A j \in 1..Len(m.blocks) : m.blocks[j] \in C
    BY <1>4
  <2>3. f \in [1..Len(m.blocks) -> D]
    BY <2>2
  <2>4. f[b] = [m.blocks[b] EXCEPT !.data = Garbage]
        /\ \A j \in 1..Len(m.blocks) : j # b => f[j] = m.blocks[j]
    BY <1>5
  <2> HIDE DEF f, D
  <2>5. f \in Seq(D) /\ Len(f) = Len(m.blocks)
    BY <1>5, <2>3, SeqDef
  <2> HIDE DEF bad
  <2>6. bad = f
    BY <2>1 DEF f
  <2> QED
    BY <2>4, <2>5, <2>6 DEF D
<1>9. IsBlock(bad[b]) /\ bad[b].kind = "payload"
  <2>1. m.blocks[b] = [kind |-> m.blocks[b].kind, data |-> m.blocks[b].data]
    BY <1>6 DEF IsBlock
  <2> DEFINE z == m.blocks[b]
  <2> HIDE DEF z
  <2>2. bad[b] = [z EXCEPT !.data = Garbage] /\ z = [kind |-> z.kind, data |-> z.data]
        /\ z.kind = "payload"
    BY <1>1, <1>8, <2>1 DEF z
  <2>3. bad[b] = [kind |-> "payload", data |-> Garbage]
    BY <2>2
  <2> QED
    BY <2>3 DEF IsBlock
<1> HIDE DEF bad, m, n
<1>10. new = [blocks |-> bad, metaAt |-> m.metaAt, extAt |-> m.extAt, dirAt |-> m.dirAt,
              hash |-> m.hash]
  BY <1>6 DEF IsImage
<1>11. /\ new.blocks = bad /\ new.metaAt = m.metaAt /\ new.extAt = m.extAt
       /\ new.dirAt = m.dirAt /\ new.hash = m.hash /\ IsImage(new)
  BY <1>10 DEF IsImage
<1> HIDE DEF new
<1>12. KeptSealed(new)
  <2>1. \A j \in 1..Len(bad) :
          /\ IsBlock(bad[j])
          /\ \/ bad[j] = w.blocks[j]
             \/ w.blocks[j].kind = "payload" /\ bad[j].kind = "payload"
    <3>1. ASSUME NEW j \in 1..Len(bad), j # b
          PROVE  /\ IsBlock(bad[j])
                 /\ \/ bad[j] = w.blocks[j]
                    \/ w.blocks[j].kind = "payload" /\ bad[j].kind = "payload"
      BY <1>2, <1>8, <3>1 DEF KeptSealed
    <3>2. w.blocks[b].kind = "payload"
      BY <1>1, <1>2, <1>5 DEF KeptSealed
    <3> QED
      BY <1>9, <3>1, <3>2
  <2> QED
    BY <1>2, <1>8, <1>11, <2>1 DEF KeptSealed
<1>13. /\ images' \in Seq(A \cup {new}) /\ Len(images') = n
       /\ \A j \in 1..n : images'[j] = IF j = i THEN new ELSE images[j]
  <2> DEFINE f == [j \in 1..n |-> IF j = i THEN new ELSE images[j]]
             D == A \cup {new}
  <2>1. images' = f
    <3>1. DOMAIN images = 1..n
      BY <1>3 DEF n
    <3>2. images' = [j \in DOMAIN images |-> IF j = i THEN new ELSE images[j]]
      BY <1>7
    <3> QED
      BY <3>1, <3>2
  <2>2. \A j \in 1..n : images[j] \in A
    BY <1>3 DEF n
  <2>3. f \in [1..n -> D] /\ \A j \in 1..n : f[j] = IF j = i THEN new ELSE images[j]
    BY <2>2
  <2> HIDE DEF f, D
  <2>4. f \in Seq(D) /\ Len(f) = n
    BY <1>2, <2>3, SeqDef
  <2> QED
    BY <2>1, <2>3, <2>4 DEF D
<1>14. \A j \in 1..n : images'[j].hash = images[j].hash /\ KeptSealed(images'[j])
  BY <1>11, <1>12, <1>13 DEF ImageInv, ImagesSound, m, n
<1>15. ImagesSound'
  BY ZenonT(60), <1>1, <1>2, <1>13, <1>14 DEF ImageInv, ImagesSound, n
<1>16. ImagesStay
  BY <1>1, <1>2, <1>13, <1>14 DEF ImagesStay, n
<1>17. PatchesSound'
  BY <1>1, <1>16, PatchStays DEF ImageInv, PatchesSound
<1>18. ReaderSound'
  BY <1>1, <1>16, ReaderStays DEF ImageInv
<1>19. images # <<>> /\ images' # <<>> /\ n = Len(images)
  <2>1. n # 0 /\ Len(<<>>) = 0
    BY <1>2
  <2> QED
    BY <1>13, <2>1 DEF n
<1> QED
  BY <1>1, <1>13, <1>15, <1>17, <1>18, <1>19 DEF ImageInv, BuilderSound, OriginSound

(* No step breaks the invariant.                                            *)
LEMMA ImageStep == ImageInv /\ [Next]_vars => ImageInv'
<1> SUFFICES ASSUME ImageInv, [Next]_vars PROVE ImageInv'
  OBVIOUS
<1>1. CASE Build
  BY <1>1, BuildStep
<1>2. CASE \E i \in DOMAIN images, verify \in BOOLEAN : OpenMap(i, verify)
  BY <1>2, OpenStep
<1>3. CASE \E key \in Key : ReadChunk(key)
  BY <1>3, ReadStep
<1>4. CASE \E i \in DOMAIN images, info \in Info \cup {None} :
             \E chunks \in Edits(truth[i].content) : MakePatch(i, chunks, info)
  BY <1>4, MakeStep
<1>5. CASE \E patch \in patches, i \in DOMAIN images : ApplyPatch(patch, i)
  BY <1>5, ApplyStep
<1>6. CASE \E i \in DOMAIN images : \E b \in DOMAIN images[i].blocks : Damage(i, b)
  BY <1>6, DamageStep
<1>7. CASE UNCHANGED vars
  BY <1>7 DEF vars, ImageInv, BuilderSound, OriginSound, ImagesSound, PatchesSound, PatchSound,
              ReaderSound, ReaderOf, AnswersAreTrue
<1> QED
  BY <1>1, <1>2, <1>3, <1>4, <1>5, <1>6, <1>7 DEF Next

(* Every image was sealed Good and differs from that in payloads only;      *)
(* every patch and every reader belongs to one.                             *)
THEOREM ImagesAreSound == Spec => []ImageInv
<1>1. Init => ImageInv
  BY InitSound
<1>2. ImageInv /\ [Next]_vars => ImageInv'
  BY ImageStep
<1> QED
  BY <1>1, <1>2, PTL DEF Spec

-----------------------------------------------------------------------------
(* What follows from it.                                                    *)

(* The invariant implies the properties.                                    *)
LEMMA KeptFollows == ImageInv => EditsAreKept
<1> SUFFICES ASSUME ImageInv, NEW i \in DOMAIN images, Intact(images[i])
             PROVE  LET image == images[i]
                        dir == DirectoryOf(image)
                    IN  /\ [k \in DOMAIN dir |-> image.blocks[dir[k].at].data] = truth[i].content
                        /\ MetaOf(image).info = truth[i].info
                        /\ SkeletonOf(image) = Skeleton(truth[i].nodes)
  BY DEF EditsAreKept
<1> DEFINE m == images[i]
           said == truth[i].content
           dir == DirectoryOf(m)
<1>1. i \in 1..Len(images)
  BY DEF ImageInv, ImagesSound
<1>2. Good(m, truth[i], origin)
  BY <1>1, IntactIsGood DEF ImageInv, ImagesSound
<1>3. MetaOf(m).info = truth[i].info /\ SkeletonOf(m) = Skeleton(truth[i].nodes)
  BY <1>2 DEF Good, Describes
<1>4. /\ DOMAIN dir = DOMAIN said /\ said = [k \in DOMAIN said |-> said[k]]
      /\ \A k \in DOMAIN said : m.blocks[dir[k].at].data = said[k]
  <2>1. \A k \in DOMAIN said : m.blocks[dir[k].at] = Payload(said[k])
    BY <1>2 DEF Good, Holding
  <2>2. \A d : Payload(d).data = d
    BY DEF Payload
  <2> QED
    BY <1>2, <2>1, <2>2 DEF Good, Holding
<1> HIDE DEF m, said, dir
<1>5. [k \in DOMAIN dir |-> m.blocks[dir[k].at].data] = said
  <2>1. [k \in DOMAIN dir |-> m.blocks[dir[k].at].data] = [k \in DOMAIN said |-> said[k]]
    BY <1>4
  <2> QED
    BY <1>4, <2>1
<1> QED
  BY <1>3, <1>5 DEF m, said, dir

(* What a reader hands out.                                                 *)
LEMMA ReadsFollow == ImageInv => ReadsAreTrue
<1> SUFFICES ASSUME ImageInv PROVE AnswersAreTrue /\ StaleWhenASourceMoved
  BY DEF ReadsAreTrue
<1>1. AnswersAreTrue
  BY DEF ImageInv, ReaderSound, AnswersAreTrue
<1>2. StaleWhenASourceMoved
  <2>1. CASE reader = NoReader
    BY <2>1 DEF StaleWhenASourceMoved
  <2>2. CASE reader # NoReader
    <3>1. PICK i \in 1..Len(images) : ReaderOf(i)
      BY <2>2 DEF ImageInv, ReaderSound
    <3> DEFINE w == SealedAs(images[i].hash)
               said == truth[i].content
    <3>2. reader.image = i /\ reader.stale = FindStaleDerived(MetaOf(w), DirectoryOf(w))
      BY <3>1 DEF ReaderOf
    <3>3. Good(w, truth[i], origin)
      BY DEF ImageInv, ImagesSound
    <3>4. reader.stale = {l \in LayersOf(said) \cap Derived :
                            \E s \in SourceLayersOf(l, LayersOf(said)) :
                              s \in LayersOf(said) /\ Moved(said, origin, s)}
      BY SMTT(30), <3>2, <3>3, StaleIsMoved
    <3> QED
      BY <3>2, <3>4 DEF StaleWhenASourceMoved, LayersOf, Moved
  <2> QED
    BY <2>1, <2>2
<1> QED
  BY <1>1, <1>2

(* What TypeOK says.                                                        *)
LEMMA TypesFollow == ImageInv => TypeOK
<1> SUFFICES ASSUME ImageInv PROVE TypeOK
  OBVIOUS
<1>1. Len(images) <= MaxImages /\ Len(truth) = Len(images) /\ DOMAIN images = 1..Len(images)
  BY DEF ImageInv, ImagesSound
<1>2. ASSUME NEW i \in DOMAIN images
      PROVE  /\ images[i].metaAt + 2 < images[i].dirAt
             /\ images[i].dirAt = Len(images[i].blocks)
             /\ \A k \in DOMAIN DirectoryOf(images[i]) :
                  DirectoryOf(images[i])[k].at \in 1..Len(images[i].blocks) - 1
  <2> DEFINE m == images[i]
             w == SealedAs(m.hash)
  <2>1. Good(w, truth[i], origin) /\ KeptSealed(m)
    BY <1>1, <1>2 DEF ImageInv, ImagesSound
  <2>2. /\ DirectoryOf(m) = DirectoryOf(w) /\ m.metaAt = w.metaAt /\ m.dirAt = w.dirAt
        /\ Len(m.blocks) = Len(w.blocks)
    BY <2>1, KeptReads
  <2> HIDE DEF m, w
  <2>3. w.metaAt + 2 < w.dirAt /\ w.dirAt = Len(w.blocks) /\ Len(w.blocks) \in Nat
        /\ w.blocks[w.dirAt].kind = "dir"
    BY <2>1 DEF Good, Laid
  <2>4. ASSUME NEW k \in DOMAIN DirectoryOf(w)
        PROVE  DirectoryOf(w)[k].at \in 1..Len(w.blocks) - 1
    <3>1. /\ DirectoryOf(w)[k].at \in 1..Len(w.blocks)
          /\ w.blocks[DirectoryOf(w)[k].at] = Payload(truth[i].content[k])
      BY <2>1, <2>4 DEF Good, Holding
    <3>2. w.blocks[DirectoryOf(w)[k].at].kind = "payload"
      BY <3>1 DEF Payload
    <3>3. DirectoryOf(w)[k].at # Len(w.blocks)
      BY <2>3, <3>2
    <3> QED
      BY <2>3, <3>1, <3>3
  <2> QED
    BY <2>2, <2>3, <2>4 DEF m
<1>3. ASSUME NEW p \in patches, NEW n \in DOMAIN p.chunks PROVE p.chunks[n].key \in Key
  <2>1. PatchSound(p)
    BY DEF ImageInv, PatchesSound
  <2>2. PICK i \in 1..Len(images) : p.madeFor = truth[i]
    BY <2>1 DEF PatchSound
  <2>3. images # <<>> /\ DOMAIN truth[i].content = DOMAIN origin
    <3>1. Good(SealedAs(images[i].hash), truth[i], origin) /\ Len(<<>>) = 0
      BY DEF ImageInv, ImagesSound
    <3> QED
      BY <3>1 DEF Good, Describes
  <2> DEFINE R == [key : DOMAIN p.madeFor.content, data : Content]
  <2>4. p.chunks \in Seq(R) /\ \A r \in R : r.key \in DOMAIN p.madeFor.content
    BY <2>1 DEF PatchSound
  <2> HIDE DEF R
  <2>5. p.chunks[n] \in R
    BY <1>3, <2>4
  <2> QED
    BY <2>2, <2>3, <2>4, <2>5 DEF ImageInv, OriginSound
<1>4. ASSUME reader # NoReader
      PROVE  /\ Len(reader.cache) <= CacheSlots /\ reader.image \in DOMAIN images
             /\ \A m, n \in DOMAIN reader.cache :
                  reader.cache[m].key = reader.cache[n].key => m = n
  <2>1. PICK i \in 1..Len(images) : ReaderOf(i)
    BY <1>4 DEF ImageInv, ReaderSound
  <2>2. reader.image = i /\ DOMAIN reader.cache = 1..Len(reader.cache)
    BY <2>1 DEF ReaderOf
  <2> QED
    BY <1>1, <2>1, <2>2 DEF ReaderOf
<1> QED
  BY <1>1, <1>2, <1>3, <1>4 DEF TypeOK

(* Headers point inside their images, patches name keys of the map, and a   *)
(* reader keeps no more chunks than it may, each once.                      *)
THEOREM ImageTypesCorrect == Spec => []TypeOK
BY ImagesAreSound, TypesFollow, PTL

(* Every image that opens says all that was built into it and patched onto  *)
(* it, and nothing else: for any layers, chunks, contents and builds, and   *)
(* any number of patches in any order.                                      *)
THEOREM PatchedMapsKeepEverything == Spec => []EditsAreKept
BY ImagesAreSound, KeptFollows, PTL

(* A reader hands out what its image says, and refuses a derived layer      *)
(* exactly when one of its sources moved, whatever it has in its cache and  *)
(* whatever became of the payloads.                                         *)
THEOREM ReadersTellTheTruth == Spec => []ReadsAreTrue
BY ImagesAreSound, ReadsFollow, PTL


-----------------------------------------------------------------------------
(* Editing (ImageEdits).                                                    *)

(* The greatest and the least of the library, of places in a sequence.      *)
LEMMA PlaceIsGreatest ==
  ASSUME NEW n \in Nat, NEW T \in SUBSET (1..n), T # {}
  PROVE  Max(T) \in T /\ \A k \in T : k <= Max(T)
<1>1. PICK m \in T : \A k \in T : m >= k
  <2>1. \A m, k \in T : k <= m <=> m >= k
    OBVIOUS
  <2> QED
    BY <2>1, GreatestBelow
<1>2. Max(T) \in T /\ \A k \in T : Max(T) >= k
  BY <1>1 DEF Max
<1> QED
  BY <1>2

LEMMA PlaceIsLeast ==
  ASSUME NEW n \in Nat, NEW T \in SUBSET (1..n), T # {}
  PROVE  Min(T) \in T /\ \A k \in T : Min(T) <= k
<1>1. PICK m \in T : \A k \in T : m <= k
  <2>1. T \in SUBSET Nat
    OBVIOUS
  <2> QED
    BY <2>1, LeastNatural
<1> QED
  BY <1>1 DEF Min

(* After n items were put in: where a key comes first, the last item of     *)
(* that key, elsewhere what was held; and every key is there.               *)
FirstOf(seq, key, i) == \A j \in 1..i - 1 : seq[j][key] # seq[i][key]
LastUpTo(items, key, n, j) == \A k \in 1..n : items[k][key] = items[j][key] => k <= j

MergedUpTo(seq, held, items, key, n) ==
  /\ Len(held) <= Len(seq)
  /\ \A i \in 1..Len(held) : seq[i][key] = held[i][key]
  /\ \A i \in 1..Len(seq) :
       \/ /\ FirstOf(seq, key, i)
          /\ \E j \in 1..n : seq[i] = items[j] /\ LastUpTo(items, key, n, j)
       \/ /\ i <= Len(held) /\ seq[i] = held[i]
          /\ ~FirstOf(seq, key, i) \/ \A j \in 1..n : items[j][key] # seq[i][key]
  /\ \A j \in 1..n : \E i \in 1..Len(seq) : seq[i][key] = items[j][key]

LEMMA UpsertedHolds ==
  ASSUME NEW S, NEW held \in Seq(S), NEW items \in Seq(S), NEW key, NEW n \in 1..Len(items),
         NEW seq \in Seq(S), MergedUpTo(seq, held, items, key, n - 1)
  PROVE  /\ Upserted(seq, items[n], key) \in Seq(S)
         /\ MergedUpTo(Upserted(seq, items[n], key), held, items, key, n)
<1> DEFINE item == items[n]
           at == {i \in DOMAIN seq : seq[i][key] = item[key]}
           m == Len(seq)
           up == Upserted(seq, item, key)
<1>1. /\ n \in Nat /\ n >= 1 /\ m \in Nat /\ Len(held) \in Nat /\ item \in S
      /\ 1..n = (1..n - 1) \cup {n} /\ n \notin 1..n - 1 /\ DOMAIN seq = 1..m
      /\ Len(held) <= m
  BY DEF MergedUpTo
<1>2. LastUpTo(items, key, n, n)
  BY <1>1 DEF LastUpTo
<1>3. ASSUME NEW j \in 1..n - 1, LastUpTo(items, key, n - 1, j), items[j][key] # item[key]
      PROVE  LastUpTo(items, key, n, j)
  BY <1>1, <1>3 DEF LastUpTo
<1>4. CASE at = {}
  <2>1. up = Append(seq, item)
    BY <1>4 DEF Upserted
  <2>2. /\ up \in Seq(S) /\ Len(up) = m + 1 /\ up[m + 1] = item
        /\ \A i \in 1..m : up[i] = seq[i]
    BY <1>1, <2>1, AppendProperties
  <2> HIDE DEF up
  <2>3. \A i \in 1..m : seq[i][key] # item[key]
    BY <1>1, <1>4
  <2> HIDE DEF at, item
  <2>4. \A i \in 1..m : FirstOf(up, key, i) <=> FirstOf(seq, key, i)
    <3>1. \A i \in 1..m : \A j \in 1..i - 1 : j \in 1..m
      BY <1>1
    <3> QED
      BY <2>2, <3>1 DEF FirstOf
  <2>5. FirstOf(up, key, m + 1)
    <3>1. (m + 1) - 1 = m
      BY <1>1
    <3> QED
      BY <2>2, <2>3, <3>1 DEF FirstOf
  <2>6. Len(held) <= Len(up) /\ \A i \in 1..Len(held) : up[i][key] = held[i][key]
    BY <1>1, <2>2 DEF MergedUpTo
  <2>7. ASSUME NEW i \in 1..Len(up)
        PROVE  \/ /\ FirstOf(up, key, i)
                  /\ \E j \in 1..n : up[i] = items[j] /\ LastUpTo(items, key, n, j)
               \/ /\ i <= Len(held) /\ up[i] = held[i]
                  /\ ~FirstOf(up, key, i) \/ \A j \in 1..n : items[j][key] # up[i][key]
    <3>1. CASE i = m + 1
      BY <1>1, <1>2, <2>2, <2>5, <3>1 DEF item
    <3>2. CASE i # m + 1
      <4>1. i \in 1..m /\ up[i] = seq[i] /\ seq[i][key] # items[n][key]
        BY <1>1, <2>2, <2>3, <3>2 DEF item
      <4>2. CASE /\ FirstOf(seq, key, i)
                 /\ \E j \in 1..n - 1 : seq[i] = items[j] /\ LastUpTo(items, key, n - 1, j)
        BY <1>1, <1>3, <2>4, <4>1, <4>2 DEF item
      <4>3. CASE /\ i <= Len(held) /\ seq[i] = held[i]
                 /\ ~FirstOf(seq, key, i) \/ \A j \in 1..n - 1 : items[j][key] # seq[i][key]
        BY <1>1, <2>4, <4>1, <4>3
      <4> QED
        BY <4>1, <4>2, <4>3 DEF MergedUpTo
    <3> QED
      BY <3>1, <3>2
  <2>8. ASSUME NEW j \in 1..n PROVE \E i \in 1..Len(up) : up[i][key] = items[j][key]
    <3>1. CASE j = n
      BY <1>1, <2>2, <3>1 DEF item
    <3>2. CASE j # n
      <4>1. PICK i \in 1..m : seq[i][key] = items[j][key]
        BY <1>1, <3>2 DEF MergedUpTo
      <4> QED
        BY <1>1, <2>2, <4>1
    <3> QED
      BY <3>1, <3>2
  <2> QED
    BY <2>2, <2>6, <2>7, <2>8 DEF MergedUpTo, item, up
<1>5. CASE at # {}
  <2> DEFINE place == Min(at)
  <2>1. place \in 1..m /\ seq[place][key] = item[key] /\ \A k \in at : place <= k
    <3>1. at \in SUBSET (1..m)
      BY <1>1
    <3>2. Min(at) \in at /\ \A k \in at : Min(at) <= k
      BY <1>1, <1>5, <3>1, PlaceIsLeast
    <3> QED
      BY <1>1, <3>2
  <2>2. up = [seq EXCEPT ![place] = item]
    BY <1>5 DEF Upserted
  <2> HIDE DEF place, up
  <2>3. /\ up \in Seq(S) /\ Len(up) = m /\ up[place] = item
        /\ \A i \in 1..m : i # place => up[i] = seq[i]
    <3>1. seq \in [1..m -> S] /\ item \in S
      BY <1>1
    <3>2. up \in [1..m -> S]
      BY <2>2, <3>1
    <3> QED
      BY <1>1, <2>1, <2>2, <3>1, <3>2
  <2>4. \A k \in 1..place - 1 : k \in 1..m /\ seq[k][key] # item[key]
    BY <1>1, <2>1
  <2> HIDE DEF at, item
  <2>5. \A i \in 1..m : up[i][key] = seq[i][key]
    BY <2>1, <2>3
  <2>6. \A i \in 1..m : FirstOf(up, key, i) <=> FirstOf(seq, key, i)
    <3>1. \A i \in 1..m : \A j \in 1..i - 1 : j \in 1..m
      BY <1>1
    <3> QED
      BY <2>5, <3>1 DEF FirstOf
  <2>7. FirstOf(up, key, place)
    BY <2>1, <2>4, <2>6 DEF FirstOf
  <2>8. \A i \in 1..m : i # place /\ seq[i][key] = item[key] => ~FirstOf(seq, key, i)
    <3>1. ASSUME NEW i \in 1..m, i # place, seq[i][key] = item[key]
          PROVE  ~FirstOf(seq, key, i)
      <4>1. place <= i
        BY <1>1, <2>1, <3>1 DEF at
      <4>2. place \in 1..i - 1
        BY <1>1, <2>1, <3>1, <4>1
      <4> QED
        BY <2>1, <3>1, <4>2 DEF FirstOf
    <3> QED
      BY <3>1
  <2>9. Len(held) <= Len(up) /\ \A i \in 1..Len(held) : up[i][key] = held[i][key]
    BY <1>1, <2>3, <2>5 DEF MergedUpTo
  <2>10. ASSUME NEW i \in 1..Len(up)
         PROVE  \/ /\ FirstOf(up, key, i)
                   /\ \E j \in 1..n : up[i] = items[j] /\ LastUpTo(items, key, n, j)
                \/ /\ i <= Len(held) /\ up[i] = held[i]
                   /\ ~FirstOf(up, key, i) \/ \A j \in 1..n : items[j][key] # up[i][key]
    <3>1. CASE i = place
      BY <1>1, <1>2, <2>3, <2>7, <3>1 DEF item
    <3>2. CASE i # place
      <4>1. i \in 1..m /\ up[i] = seq[i]
        BY <2>3, <3>2
      <4>2. CASE /\ FirstOf(seq, key, i)
                 /\ \E j \in 1..n - 1 : seq[i] = items[j] /\ LastUpTo(items, key, n - 1, j)
        <5>1. PICK j \in 1..n - 1 : seq[i] = items[j] /\ LastUpTo(items, key, n - 1, j)
          BY <4>2
        <5>2. items[j][key] # item[key]
          BY <2>8, <3>2, <4>1, <4>2, <5>1
        <5> QED
          BY <1>1, <1>3, <2>6, <4>1, <4>2, <5>1, <5>2
      <4>3. CASE /\ i <= Len(held) /\ seq[i] = held[i]
                 /\ ~FirstOf(seq, key, i) \/ \A j \in 1..n - 1 : items[j][key] # seq[i][key]
        BY <1>1, <2>6, <2>8, <3>2, <4>1, <4>3 DEF item
      <4> QED
        BY <4>1, <4>2, <4>3 DEF MergedUpTo
    <3> QED
      BY <3>1, <3>2
  <2>11. ASSUME NEW j \in 1..n PROVE \E i \in 1..Len(up) : up[i][key] = items[j][key]
    <3>1. CASE j = n
      BY <2>1, <2>3, <3>1 DEF item
    <3>2. CASE j # n
      <4>1. PICK i \in 1..m : seq[i][key] = items[j][key]
        BY <1>1, <3>2 DEF MergedUpTo
      <4> QED
        BY <2>3, <2>5, <4>1
    <3> QED
      BY <3>1, <3>2
  <2> QED
    BY <2>3, <2>9, <2>10, <2>11 DEF MergedUpTo, item, up
<1> QED
  BY <1>4, <1>5

(* All of them are put in.                                                  *)
LEMMA MergedHolds ==
  ASSUME NEW S, NEW held \in Seq(S), NEW items \in Seq(S), NEW key \in {"tag", "ends"}
  PROVE  /\ Merged(held, items, key) \in Seq(S)
         /\ MergedUpTo(Merged(held, items, key), held, items, key, Len(items))
<1>1. Merged(held, items, key) = FoldOf(key, held, items)
  BY DEF Merged, FoldLeft, MapThenFoldSet, FoldOf, FoldsTo, Folded
<1>2. PICK f : /\ f[{}] = held
               /\ \A n \in 1..Len(items) : f[1..n] = Folded(key, f[1..n - 1], items[n])
               /\ FoldOf(key, held, items) = f[1..Len(items)]
  BY FoldLeftIs
<1> DEFINE Has == {n \in Nat : n <= Len(items) =>
                     f[1..n] \in Seq(S) /\ MergedUpTo(f[1..n], held, items, key, n)}
<1>3. 0 \in Has
  <2>1. 1..0 = {} /\ Len(held) \in Nat /\ \A i \in 1..Len(held) : i <= Len(held)
    OBVIOUS
  <2>2. MergedUpTo(held, held, items, key, 0)
    BY <2>1 DEF MergedUpTo
  <2> QED
    BY <1>2, <2>1, <2>2
<1>4. ASSUME NEW n \in Nat, n \in Has PROVE n + 1 \in Has
  <2>1. SUFFICES ASSUME n + 1 <= Len(items)
                 PROVE  /\ f[1..n + 1] \in Seq(S)
                        /\ MergedUpTo(f[1..n + 1], held, items, key, n + 1)
    OBVIOUS
  <2>2. n + 1 \in 1..Len(items) /\ (n + 1) - 1 = n /\ n <= Len(items)
    BY <2>1
  <2>3. f[1..n + 1] = Upserted(f[1..n], items[n + 1], key)
    BY <1>2, <2>2 DEF Folded
  <2>4. f[1..n] \in Seq(S) /\ MergedUpTo(f[1..n], held, items, key, (n + 1) - 1)
    BY <1>4, <2>2
  <2> DEFINE seq == f[1..n]
             k == n + 1
  <2>5. k \in 1..Len(items) /\ seq \in Seq(S) /\ MergedUpTo(seq, held, items, key, k - 1)
    BY <2>2, <2>4
  <2> HIDE DEF seq, k
  <2>6. /\ Upserted(seq, items[k], key) \in Seq(S)
        /\ MergedUpTo(Upserted(seq, items[k], key), held, items, key, k)
    BY <2>5, UpsertedHolds
  <2> QED
    BY <2>3, <2>6 DEF seq, k
<1> HIDE DEF Has
<1>5. Nat \subseteq Has
  BY <1>3, <1>4, InductionOnNat
<1> QED
  BY <1>1, <1>2, <1>5 DEF Has

(* The last item of a key.                                                  *)
LEMMA LastByIs ==
  ASSUME NEW S, NEW items \in Seq(S), NEW key, NEW v \in ValuesOf(items, key)
  PROVE  \E k \in 1..Len(items) :
           /\ LastBy(items, key, v) = items[k] /\ items[k][key] = v
           /\ LastUpTo(items, key, Len(items), k)
<1> DEFINE T == {i \in DOMAIN items : items[i][key] = v}
<1>1. T \in SUBSET (1..Len(items)) /\ T # {} /\ Len(items) \in Nat
  BY DEF ValuesOf
<1>2. Max(T) \in T /\ \A k \in T : k <= Max(T)
  BY <1>1, PlaceIsGreatest
<1>3. LastBy(items, key, v) = items[Max(T)]
  BY DEF LastBy
<1> DEFINE k == Max(T)
<1>4. k \in 1..Len(items) /\ items[k][key] = v
  BY <1>1, <1>2
<1>5. LastUpTo(items, key, Len(items), k)
  BY <1>2, <1>4 DEF LastUpTo
<1> QED
  BY <1>3, <1>4, <1>5

(* The others as they were, and the last of every key that was sent.        *)
LEMMA MergedIs ==
  ASSUME NEW S, NEW held \in Seq(S), NEW items \in Seq(S), NEW key \in {"tag", "ends"}
  PROVE  /\ Merged(held, items, key) \in Seq(S)
         /\ ToSet(Merged(held, items, key)) =
              {held[i] : i \in Others(held, key, ValuesOf(items, key))}
                \cup {LastBy(items, key, v) : v \in ValuesOf(items, key)}
<1> DEFINE seq == Merged(held, items, key)
           sent == ValuesOf(items, key)
           n == Len(items)
<1>1. seq \in Seq(S) /\ MergedUpTo(seq, held, items, key, n)
  BY MergedHolds
<1>2. /\ DOMAIN seq = 1..Len(seq) /\ Len(seq) \in Nat /\ Len(held) \in Nat /\ n \in Nat
      /\ DOMAIN held = 1..Len(held) /\ DOMAIN items = 1..n /\ Len(held) <= Len(seq)
  BY <1>1 DEF MergedUpTo
<1>3. ToSet(seq) = {seq[i] : i \in 1..Len(seq)}
  BY <1>2 DEF ToSet
<1> HIDE DEF seq
<1>4. \A i \in 1..Len(held) : i \in 1..Len(seq) /\ (FirstOf(seq, key, i) <=> FirstOf(held, key, i))
  <2>1. \A i \in 1..Len(held) : i \in 1..Len(seq) /\ \A j \in 1..i - 1 : j \in 1..Len(held)
    BY <1>2
  <2> QED
    BY <1>1, <2>1 DEF FirstOf, MergedUpTo
<1>5. \A i \in 1..Len(held) : i \in Others(held, key, sent) <=>
                                 (held[i][key] \in sent => ~FirstOf(held, key, i))
  BY <1>2 DEF Others, FirstOf
<1>6. \A j \in 1..n : items[j][key] \in sent
  BY <1>2 DEF ValuesOf
<1>7. ASSUME NEW j \in 1..n, LastUpTo(items, key, n, j)
      PROVE  items[j] = LastBy(items, key, items[j][key])
  <2>1. PICK k \in 1..n : /\ LastBy(items, key, items[j][key]) = items[k]
                          /\ items[k][key] = items[j][key] /\ LastUpTo(items, key, n, k)
    BY <1>6, LastByIs
  <2>2. k <= j /\ j <= k
    BY <1>7, <2>1 DEF LastUpTo
  <2>3. k = j
    BY <1>2, <2>1, <2>2
  <2> QED
    BY <2>1, <2>3
<1>8. ASSUME NEW i \in 1..Len(seq)
      PROVE  \/ \E k \in Others(held, key, sent) : seq[i] = held[k]
             \/ \E v \in sent : seq[i] = LastBy(items, key, v)
  <2>1. CASE \E j \in 1..n : seq[i] = items[j] /\ LastUpTo(items, key, n, j)
    BY <1>6, <1>7, <2>1
  <2>2. CASE /\ i <= Len(held) /\ seq[i] = held[i]
             /\ ~FirstOf(seq, key, i) \/ \A j \in 1..n : items[j][key] # seq[i][key]
    <3>1. i \in 1..Len(held)
      BY <1>2, <2>2
    <3>2. held[i][key] \in sent => ~FirstOf(held, key, i)
      BY <1>2, <1>4, <2>2, <3>1 DEF ValuesOf
    <3> QED
      BY <1>5, <2>2, <3>1, <3>2
  <2> QED
    BY <1>1, <2>1, <2>2 DEF MergedUpTo
<1>9. ASSUME NEW i \in Others(held, key, sent) PROVE \E k \in 1..Len(seq) : seq[k] = held[i]
  <2>1. i \in 1..Len(held) /\ i \in 1..Len(seq)
    BY <1>2, <1>4 DEF Others
  <2>2. seq[i][key] = held[i][key]
    BY <1>1, <2>1 DEF MergedUpTo
  <2>3. ~(FirstOf(seq, key, i) /\ \E j \in 1..n : seq[i] = items[j])
    BY <1>4, <1>5, <1>6, <2>1, <2>2
  <2>4. seq[i] = held[i]
    BY <1>1, <2>1, <2>3 DEF MergedUpTo
  <2> QED
    BY <2>1, <2>4
<1>10. ASSUME NEW v \in sent PROVE \E k \in 1..Len(seq) : seq[k] = LastBy(items, key, v)
  <2>1. PICK j \in 1..n : items[j][key] = v
    BY <1>2 DEF ValuesOf
  <2> DEFINE T == {i \in 1..Len(seq) : seq[i][key] = v}
  <2>2. T # {} /\ T \in SUBSET (1..Len(seq))
    BY <1>1, <2>1 DEF MergedUpTo
  <2>3. PICK k \in T : \A i \in T : k <= i
    <3>1. T \in SUBSET Nat
      BY <2>2
    <3> QED
      BY <2>2, <3>1, LeastNatural
  <2>4. FirstOf(seq, key, k)
    <3>1. ASSUME NEW i \in 1..k - 1 PROVE seq[i][key] # seq[k][key]
      <4>1. k \in 1..Len(seq) /\ i \in 1..Len(seq) /\ ~(k <= i)
        BY <1>2
      <4> QED
        BY <2>3, <4>1
    <3> QED
      BY <3>1 DEF FirstOf
  <2>5. \E i \in 1..n : seq[k] = items[i] /\ LastUpTo(items, key, n, i)
    BY <1>1, <2>1, <2>4 DEF MergedUpTo
  <2>6. PICK i \in 1..n : seq[k] = items[i] /\ LastUpTo(items, key, n, i)
    BY <2>5
  <2> QED
    BY <1>7, <2>6
<1> QED
  BY <1>1, <1>3, <1>8, <1>9, <1>10 DEF seq

(* The parts of an edited image.                                            *)
LEMMA EditedParts ==
  ASSUME NEW image \in Image, NEW script, IsScript(script)
  PROVE  LET made == EditedImage(image, script)
         IN  /\ script.regions = {} =>
                  made.features = image.features /\ made.outlines = image.outlines
             /\ \A edit \in script.regions :
                  /\ made.features = Written(RegionsAfter(image, edit)).features
                  /\ made.outlines = Written(RegionsAfter(image, edit)).outlines
             /\ "connector_table" \notin ValuesOf(script.records, "tag") =>
                  /\ script.links = {} => made.table = image.table
                  /\ \A edit \in script.links : made.table = TableAfter(image, edit)
<1> DEFINE regions == IF script.regions = {}
                      THEN [features |-> image.features, outlines |-> image.outlines]
                      ELSE Written(RegionsAfter(image, CHOOSE edit \in script.regions : TRUE))
           table == IF script.links = {} THEN image.table
                    ELSE TableAfter(image, CHOOSE edit \in script.links : TRUE)
           info == IF script.info = {} THEN image.info ELSE CHOOSE i \in script.info : TRUE
           made == EditedImage(image, script)
<1>1. \A edit \in script.regions : edit = CHOOSE e \in script.regions : TRUE
  BY DEF IsScript, OneAtMost
<1>2. \A edit \in script.links : edit = CHOOSE e \in script.links : TRUE
  BY DEF IsScript, OneAtMost
<1>3. image = [map |-> image.map, info |-> image.info, layer |-> image.layer, table |-> image.table,
               features |-> image.features, outlines |-> image.outlines]
  BY DEF Image
<1>4. made = [image EXCEPT !.features = regions.features, !.outlines = regions.outlines,
                           !.table = LastRecord(script.records, "connector_table", table),
                           !.info = LastRecord(script.records, "map_info", info)]
  BY DEF EditedImage
<1> HIDE DEF regions, table, info, made
<1>5. /\ made.features = regions.features /\ made.outlines = regions.outlines
      /\ made.table = LastRecord(script.records, "connector_table", table)
  BY <1>3, <1>4
<1>6. /\ script.regions = {} => made.features = image.features /\ made.outlines = image.outlines
      /\ \A edit \in script.regions :
           /\ made.features = Written(RegionsAfter(image, edit)).features
           /\ made.outlines = Written(RegionsAfter(image, edit)).outlines
  <2>1. script.regions = {} => regions = [features |-> image.features, outlines |-> image.outlines]
    BY DEF regions
  <2>2. \A edit \in script.regions : regions = Written(RegionsAfter(image, edit))
    BY <1>1 DEF regions
  <2> QED
    BY <1>5, <2>1, <2>2
<1>7. "connector_table" \notin ValuesOf(script.records, "tag") => made.table = table
  BY <1>5 DEF LastRecord, ValuesOf
<1>8. /\ script.links = {} => table = image.table
      /\ \A edit \in script.links : table = TableAfter(image, edit)
  BY <1>2 DEF table
<1> QED
  BY <1>6, <1>7, <1>8 DEF made

(* Links that were merged into the table, or into none.                     *)
LEMMA LinksAreFit ==
  ASSUME NEW image \in Image, NEW edit \in [merge : BOOLEAN, links : Seq(Connector)]
  PROVE  LinksFit(image.table, edit, TableAfter(image, edit))
<1> DEFINE held == IF edit.merge THEN image.table ELSE <<>>
           sent == ValuesOf(edit.links, "ends")
<1>1. held \in Seq(Connector) /\ edit.links \in Seq(Connector)
  BY DEF Image
<1>2. TableAfter(image, edit) = Merged(held, edit.links, "ends")
  BY DEF TableAfter
<1> HIDE DEF held
<1>3. ToSet(Merged(held, edit.links, "ends")) =
        {held[i] : i \in Others(held, "ends", sent)} \cup {LastBy(edit.links, "ends", v) : v \in sent}
  BY ZenonT(60), <1>1, MergedIs
<1>4. CASE edit.merge
  BY <1>2, <1>3, <1>4 DEF LinksFit, held
<1>5. CASE ~edit.merge
  <2>1. Others(held, "ends", sent) = {}
    BY <1>5 DEF Others, held
  <2> QED
    BY <1>2, <1>3, <1>5, <2>1 DEF LinksFit
<1> QED
  BY <1>4, <1>5

(* What is written, as long as the outlines can be numbered.                *)
LEMMA MinOfTwo ==
  ASSUME NEW a \in Nat, NEW b \in Nat
  PROVE  Min({a, b}) = IF a <= b THEN a ELSE b
<1>1. Min({a, b}) \in {a, b} /\ \A m \in {a, b} : Min({a, b}) <= m
  <2>1. \E n \in {a, b} : \A m \in {a, b} : n <= m
    OBVIOUS
  <2> QED
    BY <2>1 DEF Min
<1> QED
  BY <1>1

LEMMA WrittenIsAll ==
  ASSUME NEW regions, NEW features, NEW outlines \in Seq(Outline),
         regions = [features |-> features, outlines |-> outlines], Len(outlines) <= MaxRef
  PROVE  Written(regions) = regions
<1>1. Len(outlines) \in Nat /\ MaxRef \in Nat
  BY EditsAssumption
<1>2. Min({MaxRef, Len(outlines)}) = Len(outlines)
  BY <1>1, MinOfTwo
<1>3. SubSeq(outlines, 1, Len(outlines)) = outlines
  OBVIOUS
<1>4. regions.outlines = outlines /\ [regions EXCEPT !.outlines = outlines] = regions
  OBVIOUS
<1> QED
  BY <1>2, <1>3, <1>4 DEF Written

(* A feature of a region edit.                                              *)
LEMMA FeatureIs ==
  ASSUME NEW fs \in Seq(RegionFeature), NEW i \in 1..Len(fs)
  PROVE  /\ fs[i] \in RegionFeature /\ fs[i].tag \in STRING /\ fs[i].ref \in Nat
         /\ fs[i] = [tag |-> fs[i].tag, ref |-> fs[i].ref]
<1>1. fs[i] \in RegionFeature
  OBVIOUS
<1> QED
  BY <1>1 DEF RegionFeature

LEMMA FieldsAre ==
  ASSUME NEW t, NEW r, NEW f, f = [tag |-> t, ref |-> r]
  PROVE  f.tag = t /\ f.ref = r /\ f = [tag |-> f.tag, ref |-> f.ref]
OBVIOUS

(* References that are moved behind the outlines already there.             *)
LEMMA ShiftedIs ==
  ASSUME NEW es \in Seq(RegionFeature), NEW offset \in Nat, NEW count \in Nat,
         offset + count <= MaxRef, \A i \in 1..Len(es) : es[i].ref < count, NEW i \in 1..Len(es)
  PROVE  /\ [es[i] EXCEPT !.ref = Shifted(@, offset)] = [tag |-> es[i].tag, ref |-> es[i].ref + offset]
         /\ es[i].tag \in STRING /\ es[i].ref + offset \in Nat
<1>1. /\ es[i].tag \in STRING /\ es[i].ref \in Nat /\ es[i].ref < count
      /\ es[i] = [tag |-> es[i].tag, ref |-> es[i].ref]
  BY FeatureIs
<1>2. MaxRef \in Nat /\ es[i].ref + offset \in Nat /\ es[i].ref + offset <= MaxRef
  BY <1>1, EditsAssumption
<1>3. Min({MaxRef, es[i].ref + offset}) = IF MaxRef <= es[i].ref + offset
                                          THEN MaxRef ELSE es[i].ref + offset
  BY <1>2, MinOfTwo
<1>4. Shifted(es[i].ref, offset) = es[i].ref + offset
  BY <1>2, <1>3 DEF Shifted
<1> QED
  BY <1>1, <1>2, <1>4

LEMMA SameLength ==
  ASSUME NEW n \in Nat, NEW seq, seq = [i \in 1..n |-> seq[i]],
         \A i \in 1..n : seq[i].tag \in STRING /\ seq[i].ref \in Nat
                         /\ seq[i] = [tag |-> seq[i].tag, ref |-> seq[i].ref]
  PROVE  seq \in Seq(RegionFeature) /\ Len(seq) = n
<1>1. \A i \in 1..n : seq[i] \in RegionFeature
  BY DEF RegionFeature
<1>2. seq \in [1..n -> RegionFeature]
  BY <1>1
<1> HIDE DEF RegionFeature
<1>3. seq \in Seq(RegionFeature) /\ DOMAIN seq = 1..n
  BY <1>2, SeqDef
<1> QED
  BY <1>3

LEMMA MovedIs ==
  ASSUME NEW es \in Seq(RegionFeature), NEW offset \in Nat, NEW count \in Nat,
         offset + count <= MaxRef, \A i \in 1..Len(es) : es[i].ref < count
  PROVE  LET moved == [i \in DOMAIN es |-> [es[i] EXCEPT !.ref = Shifted(@, offset)]]
         IN  /\ moved \in Seq(RegionFeature) /\ Len(moved) = Len(es)
             /\ \A i \in 1..Len(es) : moved[i].tag = es[i].tag /\ moved[i].ref = es[i].ref + offset
<1> DEFINE moved == [i \in DOMAIN es |-> [es[i] EXCEPT !.ref = Shifted(@, offset)]]
<1>1. DOMAIN es = 1..Len(es) /\ Len(es) \in Nat
  OBVIOUS
<1>2. ASSUME NEW i \in 1..Len(es)
      PROVE  /\ moved[i].tag = es[i].tag /\ moved[i].ref = es[i].ref + offset
             /\ moved[i].tag \in STRING /\ moved[i].ref \in Nat
             /\ moved[i] = [tag |-> moved[i].tag, ref |-> moved[i].ref]
  <2>1. moved[i] = [es[i] EXCEPT !.ref = Shifted(@, offset)]
    BY <1>1
  <2> DEFINE t == es[i].tag
             r == es[i].ref + offset
             f == [es[i] EXCEPT !.ref = Shifted(@, offset)]
  <2>2. f = [tag |-> t, ref |-> r] /\ t \in STRING /\ r \in Nat
    BY ShiftedIs
  <2> HIDE DEF t, r, f, moved
  <2>3. f.tag = t /\ f.ref = r /\ f = [tag |-> f.tag, ref |-> f.ref]
    BY <2>2, FieldsAre
  <2>4. f.tag = t /\ f.ref = r /\ f.tag \in STRING /\ f.ref \in Nat /\ f = [tag |-> f.tag, ref |-> f.ref]
    BY <2>2, <2>3, Zenon
  <2>5. moved[i] = f
    BY <2>1 DEF f
  <2>6. /\ moved[i].tag = t /\ moved[i].ref = r
        /\ moved[i].tag \in STRING /\ moved[i].ref \in Nat
        /\ moved[i] = [tag |-> moved[i].tag, ref |-> moved[i].ref]
    BY <2>4, <2>5, Zenon
  <2> QED
    BY <2>6 DEF t, r
<1>3. moved = [i \in 1..Len(es) |-> moved[i]]
  BY <1>1
<1> HIDE DEF moved
<1>4. \A i \in 1..Len(es) : moved[i].tag = es[i].tag /\ moved[i].ref = es[i].ref + offset
  BY <1>2, Zenon
<1>5. \A i \in 1..Len(es) : moved[i].tag \in STRING /\ moved[i].ref \in Nat
                            /\ moved[i] = [tag |-> moved[i].tag, ref |-> moved[i].ref]
  BY <1>2, Zenon
<1>6. moved \in Seq(RegionFeature) /\ Len(moved) = Len(es)
  BY <1>1, <1>3, <1>5, SameLength
<1> QED
  BY <1>4, <1>6 DEF moved

(* What the features of a merge show.                                       *)
MergeShows(fs, io, es, eo, moved) ==
  {<<f.tag, (io \o eo)[f.ref + 1]>> : f \in ToSet(Merged(fs, moved, "tag"))} =
    {<<fs[i].tag, io[fs[i].ref + 1]>> : i \in Others(fs, "tag", ValuesOf(es, "tag"))}
      \cup {<<v, eo[LastBy(es, "tag", v).ref + 1]>> : v \in ValuesOf(es, "tag")}

LEMMA MergedRegionsShow ==
  ASSUME NEW fs \in Seq(RegionFeature), NEW io \in Seq(Outline),
         NEW es \in Seq(RegionFeature), NEW eo \in Seq(Outline), NEW moved \in Seq(RegionFeature),
         \A i \in 1..Len(fs) : fs[i].ref < Len(io), \A i \in 1..Len(es) : es[i].ref < Len(eo),
         Len(moved) = Len(es),
         \A i \in 1..Len(es) : moved[i].tag = es[i].tag /\ moved[i].ref = es[i].ref + Len(io)
  PROVE  MergeShows(fs, io, es, eo, moved)
<1>0. PICK all, sent : all = io \o eo /\ sent = ValuesOf(es, "tag")
  OBVIOUS
<1>1. /\ \A i \in 1..Len(io) : all[i] = io[i]
      /\ \A i \in 1..Len(eo) : all[Len(io) + i] = eo[i]
      /\ Len(io) \in Nat /\ Len(eo) \in Nat /\ Len(es) \in Nat
  BY <1>0, ConcatProperties
<1>2. /\ \A i \in 1..Len(fs) : fs[i].ref \in Nat
      /\ \A i \in 1..Len(es) : es[i].ref \in Nat
      /\ DOMAIN fs = 1..Len(fs) /\ DOMAIN es = 1..Len(es) /\ DOMAIN moved = 1..Len(es)
  <2>1. \A i \in 1..Len(fs) : fs[i].ref \in Nat
    BY FeatureIs, Zenon
  <2>2. \A i \in 1..Len(es) : es[i].ref \in Nat
    BY FeatureIs, Zenon
  <2> QED
    BY <2>1, <2>2
<1>3. ValuesOf(moved, "tag") = sent
  BY <1>0, <1>2 DEF ValuesOf
<1>4. ToSet(Merged(fs, moved, "tag")) =
        {fs[i] : i \in Others(fs, "tag", sent)} \cup {LastBy(moved, "tag", v) : v \in sent}
  <2>1. ToSet(Merged(fs, moved, "tag")) =
          {fs[i] : i \in Others(fs, "tag", ValuesOf(moved, "tag"))}
            \cup {LastBy(moved, "tag", v) : v \in ValuesOf(moved, "tag")}
    BY MergedIs
  <2> QED
    BY <1>3, <2>1
<1>5. ASSUME NEW i \in Others(fs, "tag", sent) PROVE all[fs[i].ref + 1] = io[fs[i].ref + 1]
  <2>1. i \in 1..Len(fs)
    BY <1>2 DEF Others
  <2>2. fs[i].ref + 1 \in 1..Len(io)
    BY <1>1, <1>2, <2>1
  <2> QED
    BY <1>1, <2>2
<1>6. ASSUME NEW v \in sent
      PROVE  /\ LastBy(moved, "tag", v).tag = v
             /\ all[LastBy(moved, "tag", v).ref + 1] = eo[LastBy(es, "tag", v).ref + 1]
  <2>1. PICK k \in 1..Len(es) : /\ LastBy(es, "tag", v) = es[k] /\ es[k]["tag"] = v
                                /\ LastUpTo(es, "tag", Len(es), k)
    BY <1>0, LastByIs
  <2>2. PICK m \in 1..Len(es) : /\ LastBy(moved, "tag", v) = moved[m] /\ moved[m]["tag"] = v
                                /\ LastUpTo(moved, "tag", Len(es), m)
    BY <1>3, LastByIs
  <2>3. k <= m /\ m <= k
    BY <2>1, <2>2 DEF LastUpTo
  <2>4. k = m
    BY <1>1, <2>1, <2>2, <2>3
  <2>5. es[k].ref + 1 \in 1..Len(eo) /\ moved[k].ref + 1 = Len(io) + (es[k].ref + 1)
    BY <1>1, <1>2, <2>1
  <2>6. all[moved[k].ref + 1] = eo[es[k].ref + 1]
    BY <1>1, <2>5
  <2> QED
    BY <2>1, <2>2, <2>4, <2>6
<1> DEFINE Show(f) == <<f.tag, all[f.ref + 1]>>
<1>7. \A i \in Others(fs, "tag", sent) : Show(fs[i]) = <<fs[i].tag, io[fs[i].ref + 1]>>
  BY <1>5
<1>8. \A v \in sent : Show(LastBy(moved, "tag", v)) = <<v, eo[LastBy(es, "tag", v).ref + 1]>>
  BY <1>6
<1> HIDE DEF Show
<1>9. {Show(f) : f \in ToSet(Merged(fs, moved, "tag"))} =
        {Show(fs[i]) : i \in Others(fs, "tag", sent)}
          \cup {Show(LastBy(moved, "tag", v)) : v \in sent}
  BY <1>4
<1>10. {Show(f) : f \in ToSet(Merged(fs, moved, "tag"))} =
        {<<fs[i].tag, io[fs[i].ref + 1]>> : i \in Others(fs, "tag", sent)}
          \cup {<<v, eo[LastBy(es, "tag", v).ref + 1]>> : v \in sent}
  BY ZenonT(60), <1>7, <1>8, <1>9
<1> QED
  BY <1>0, <1>10 DEF Show, MergeShows

(* Regions that are merged into those of the map.                           *)
LEMMA MergedRegionsFit ==
  ASSUME NEW image \in Image,
         NEW edit \in [merge : BOOLEAN, features : Seq(RegionFeature), outlines : Seq(Outline)],
         edit.merge, ~RegionsRefused(image, edit),
         Len(image.outlines) + Len(edit.outlines) <= MaxRef,
         NEW after, after.features = Written(RegionsAfter(image, edit)).features,
         after.outlines = Written(RegionsAfter(image, edit)).outlines
  PROVE  Sound(after) /\ RegionsFit(image, edit, after)
<1>1. PICK fs, io, es, eo : /\ fs = image.features /\ io = image.outlines
                            /\ es = edit.features /\ eo = edit.outlines
  OBVIOUS
<1>2. /\ fs \in Seq(RegionFeature) /\ io \in Seq(Outline)
      /\ es \in Seq(RegionFeature) /\ eo \in Seq(Outline)
      /\ Len(io) \in Nat /\ Len(eo) \in Nat /\ MaxRef \in Nat /\ Len(io) + Len(eo) <= MaxRef
  BY <1>1, EditsAssumption DEF Image
<1>3. DOMAIN fs = 1..Len(fs) /\ DOMAIN es = 1..Len(es)
  BY <1>2
<1>4. \A i \in 1..Len(fs) : fs[i].ref < Len(io)
  BY <1>1, <1>3 DEF RegionsRefused, Sound
<1>5. \A i \in 1..Len(es) : es[i].ref < Len(eo)
  <2>1. Min({MaxRef, Len(eo)}) = Len(eo)
    <3>1. Min({MaxRef, Len(eo)}) = IF MaxRef <= Len(eo) THEN MaxRef ELSE Len(eo)
      BY <1>2, MinOfTwo
    <3>2. MaxRef <= Len(eo) => MaxRef = Len(eo)
      BY <1>2
    <3> QED
      BY <3>1, <3>2
  <2>2. \A i \in DOMAIN es : es[i].ref \in Nat
    BY <1>2, <1>3, FeatureIs
  <2>3. \A i \in DOMAIN es : ~(es[i].ref >= Min({MaxRef, Len(eo)}))
    BY <1>1 DEF RegionsRefused
  <2>4. ASSUME NEW i \in 1..Len(es) PROVE es[i].ref < Len(eo)
    <3> DEFINE r == es[i].ref
    <3>1. r \in Nat /\ ~(r >= Len(eo))
      BY <1>3, <2>1, <2>2, <2>3
    <3> HIDE DEF r
    <3>2. r < Len(eo)
      BY <1>2, <3>1
    <3> QED
      BY <3>2 DEF r
  <2> QED
    BY <2>4
<1> DEFINE moved == [i \in DOMAIN es |-> [es[i] EXCEPT !.ref = Shifted(@, Len(io))]]
<1>7. /\ moved \in Seq(RegionFeature) /\ Len(moved) = Len(es)
      /\ \A i \in 1..Len(es) : moved[i].tag = es[i].tag /\ moved[i].ref = es[i].ref + Len(io)
  BY <1>2, <1>5, MovedIs
<1>8. PICK all, seq : all = io \o eo /\ seq = Merged(fs, moved, "tag")
  OBVIOUS
<1>9. RegionsAfter(image, edit) = [features |-> seq, outlines |-> all]
  BY <1>1, <1>8 DEF RegionsAfter
<1> HIDE DEF moved
<1>10. all \in Seq(Outline) /\ Len(all) = Len(io) + Len(eo)
  BY <1>2, <1>8
<1>11. after.features = seq /\ after.outlines = all
  <2>1. Written(RegionsAfter(image, edit)) = RegionsAfter(image, edit)
    BY <1>2, <1>9, <1>10, WrittenIsAll
  <2> QED
    BY <1>9, <2>1
<1>12. Sound(after)
  BY <1>9, <1>11 DEF RegionsRefused, Sound
<1>13. PICK sent : sent = ValuesOf(es, "tag")
  OBVIOUS
<1>14. {<<f.tag, all[f.ref + 1]>> : f \in ToSet(seq)} =
           {<<fs[i].tag, io[fs[i].ref + 1]>> : i \in Others(fs, "tag", sent)}
             \cup {<<v, eo[LastBy(es, "tag", v).ref + 1]>> : v \in sent}
  <2>1. MergeShows(fs, io, es, eo, moved)
    BY <1>2, <1>4, <1>5, <1>7, MergedRegionsShow, Zenon
  <2> QED
    BY <1>8, <1>13, <2>1 DEF MergeShows
<1>15. Regions(after) = {<<f.tag, all[f.ref + 1]>> : f \in ToSet(seq)}
  BY <1>11 DEF Regions, RegionOf, ToSet
<1>16. {RegionOf(image, i) : i \in Others(fs, "tag", sent)} =
         {<<fs[i].tag, io[fs[i].ref + 1]>> : i \in Others(fs, "tag", sent)}
  BY <1>1 DEF RegionOf
<1>17. Regions(after) = {RegionOf(image, i) : i \in Others(image.features, "tag", sent)}
                          \cup {<<v, edit.outlines[LastBy(edit.features, "tag", v).ref + 1]>> : v \in sent}
  BY <1>1, <1>14, <1>15, <1>16
<1>18. RegionsFit(image, edit, after)
  BY <1>1, <1>13, <1>17 DEF RegionsFit
<1> QED
  BY <1>12, <1>18

(* Regions that replace those of the map, or are merged into them.          *)
LEMMA RegionsAreFit ==
  ASSUME NEW image \in Image,
         NEW edit \in [merge : BOOLEAN, features : Seq(RegionFeature), outlines : Seq(Outline)],
         ~RegionsRefused(image, edit), Len(image.outlines) + Len(edit.outlines) <= MaxRef,
         NEW after, after.features = Written(RegionsAfter(image, edit)).features,
         after.outlines = Written(RegionsAfter(image, edit)).outlines
  PROVE  Sound(after) /\ RegionsFit(image, edit, after)
<1>1. CASE edit.merge
  BY <1>1, MergedRegionsFit
<1>2. CASE ~edit.merge
  <2>1. RegionsAfter(image, edit) = [features |-> edit.features, outlines |-> edit.outlines]
    BY <1>2 DEF RegionsAfter
  <2>2. edit.outlines \in Seq(Outline) /\ Len(edit.outlines) <= MaxRef
    <3>1. image.outlines \in Seq(Outline) /\ edit.outlines \in Seq(Outline)
      BY DEF Image
    <3>2. Len(image.outlines) \in Nat /\ Len(edit.outlines) \in Nat /\ MaxRef \in Nat
      BY <3>1, EditsAssumption
    <3> QED
      BY <3>1, <3>2
  <2>3. Written(RegionsAfter(image, edit)) = RegionsAfter(image, edit)
    BY <2>1, <2>2, WrittenIsAll
  <2>4. after.features = edit.features /\ after.outlines = edit.outlines
    BY <2>1, <2>3
  <2>5. Sound(after)
    BY <2>1, <2>4 DEF RegionsRefused, Sound
  <2> QED
    BY <1>2, <2>4, <2>5 DEF RegionsFit, Regions, RegionOf
<1> QED
  BY <1>1, <1>2

(* What the studio holds: drawings, and the map they were made on.          *)
Drawing == [tag : STRING, outline : Outline]

IsDrawing(b) ==
  /\ b.map \in DOMAIN Library
  /\ b.regions \in Seq(Drawing) /\ b.links \in Seq(Connector)

DraftFeatures(b) == [i \in DOMAIN b.regions |-> [tag |-> b.regions[i].tag, ref |-> i - 1]]
DraftOutlines(b) == [i \in DOMAIN b.regions |-> b.regions[i].outline]

LEMMA DraftFeaturesAre ==
  ASSUME NEW b, IsDrawing(b)
  PROVE  /\ DraftFeatures(b) \in Seq(RegionFeature) /\ Len(DraftFeatures(b)) = Len(b.regions)
         /\ DraftOutlines(b) \in Seq(Outline) /\ Len(DraftOutlines(b)) = Len(b.regions)
         /\ Len(b.regions) \in Nat
         /\ \A i \in 1..Len(b.regions) :
              /\ DraftFeatures(b)[i].tag = b.regions[i].tag
              /\ DraftFeatures(b)[i].ref + 1 = i
              /\ DraftOutlines(b)[i] = b.regions[i].outline
<1>1. PICK n \in Nat : n = Len(b.regions) /\ DOMAIN b.regions = 1..n
  BY DEF IsDrawing
<1>2. \A i \in 1..n : b.regions[i].tag \in STRING /\ b.regions[i].outline \in Outline
  <2>1. ASSUME NEW i \in 1..n PROVE b.regions[i] \in Drawing
    BY <1>1 DEF IsDrawing
  <2> QED
    BY <2>1 DEF Drawing
<1> DEFINE fs == DraftFeatures(b)
           os == DraftOutlines(b)
<1>3. fs = [i \in 1..n |-> fs[i]] /\ os = [i \in 1..n |-> os[i]]
  BY <1>1 DEF DraftFeatures, DraftOutlines
<1>4. \A i \in 1..n : fs[i] = [tag |-> b.regions[i].tag, ref |-> i - 1] /\ os[i] = b.regions[i].outline
  BY <1>1 DEF DraftFeatures, DraftOutlines
<1> HIDE DEF fs, os
<1>5. ASSUME NEW i \in 1..n
      PROVE  /\ fs[i].tag = b.regions[i].tag /\ fs[i].ref = i - 1
             /\ fs[i] = [tag |-> fs[i].tag, ref |-> fs[i].ref]
             /\ fs[i].tag \in STRING /\ fs[i].ref \in Nat /\ fs[i].ref + 1 = i
  <2>1. /\ fs[i].tag = b.regions[i].tag /\ fs[i].ref = i - 1
        /\ fs[i] = [tag |-> fs[i].tag, ref |-> fs[i].ref]
    <3> DEFINE t == b.regions[i].tag
               r == i - 1
               f == fs[i]
    <3>1. f = [tag |-> t, ref |-> r]
      BY <1>4
    <3> HIDE DEF t, r, f
    <3>2. f.tag = t /\ f.ref = r /\ f = [tag |-> f.tag, ref |-> f.ref]
      BY <3>1, FieldsAre
    <3> QED
      BY <3>2 DEF t, r, f
  <2>2. fs[i].tag \in STRING
    BY <1>2, <2>1
  <2>3. i - 1 \in Nat /\ (i - 1) + 1 = i
    BY <1>1
  <2> QED
    BY <2>1, <2>2, <2>3
<1>6. fs \in Seq(RegionFeature) /\ Len(fs) = n
  BY <1>3, <1>5, SameLength
<1>7. os \in [1..n -> Outline]
  BY <1>2, <1>3, <1>4
<1>8. os \in Seq(Outline) /\ DOMAIN os = 1..n
  BY <1>7, SeqDef
<1>9. Len(os) = n
  BY <1>8
<1> QED
  BY <1>1, <1>4, <1>5, <1>6, <1>8, <1>9 DEF fs, os

(* A drawing as a script: what is drawn, merged into the map.               *)
LEMMA DraftsAreScripts ==
  ASSUME NEW b, IsDrawing(b)
  PROVE  /\ IsScript(DraftScript(b)) /\ DraftScript(b).records = <<>>
         /\ DraftScript(b).regions =
              IF b.regions = <<>> THEN {}
              ELSE {[merge |-> TRUE, features |-> DraftFeatures(b), outlines |-> DraftOutlines(b)]}
         /\ DraftScript(b).links =
              IF b.links = <<>> THEN {} ELSE {[merge |-> TRUE, links |-> b.links]}
<1> DEFINE region == [merge |-> TRUE, features |-> DraftFeatures(b), outlines |-> DraftOutlines(b)]
           link == [merge |-> TRUE, links |-> b.links]
           regions == IF b.regions = <<>> THEN {} ELSE {region}
           links == IF b.links = <<>> THEN {} ELSE {link}
<1>1. region \in [merge : BOOLEAN, features : Seq(RegionFeature), outlines : Seq(Outline)]
  BY DraftFeaturesAre
<1>2. link \in [merge : BOOLEAN, links : Seq(Connector)]
  BY DEF IsDrawing
<1>3. DraftScript(b) = [sound |-> TRUE, info |-> {}, regions |-> regions, links |-> links, records |-> <<>>]
  <2>1. DraftScript(b) = [NoScript EXCEPT !.regions = regions, !.links = links]
    BY DEF DraftScript, DraftFeatures, DraftOutlines
  <2> HIDE DEF regions, links
  <2> QED
    BY <2>1 DEF NoScript
<1>4. /\ \A e \in regions : e = region
      /\ \A e \in links : e = link
  OBVIOUS
<1> HIDE DEF region, link, regions, links
<1>5. IsScript(DraftScript(b))
  BY <1>1, <1>2, <1>3, <1>4 DEF IsScript, OneAtMost
<1> QED
  BY <1>3, <1>5 DEF regions, links, region, link

(* The last drawing of a tag is in the image.                               *)
LEMMA DraftsAreSeen ==
  ASSUME NEW b, IsDrawing(b), NEW before, NEW after,
         NEW edit, edit = [merge |-> TRUE, features |-> DraftFeatures(b), outlines |-> DraftOutlines(b)],
         RegionsFit(before, edit, after),
         NEW tag \in ValuesOf(b.regions, "tag")
  PROVE  <<tag, LastBy(b.regions, "tag", tag).outline>> \in Regions(after)
<1>1. PICK n, fs, os, rs : /\ n \in Nat /\ n = Len(b.regions) /\ rs = b.regions
                           /\ fs = DraftFeatures(b) /\ os = DraftOutlines(b)
  BY DraftFeaturesAre
<1>2. /\ fs \in Seq(RegionFeature) /\ Len(fs) = n /\ os \in Seq(Outline)
      /\ \A i \in 1..n : fs[i].tag = rs[i].tag /\ fs[i].ref + 1 = i /\ os[i] = rs[i].outline
  BY <1>1, DraftFeaturesAre
<1>3. rs \in Seq(Drawing) /\ Len(rs) = n
  BY <1>1 DEF IsDrawing
<1>4. DOMAIN fs = 1..n /\ DOMAIN rs = 1..n
  BY <1>2, <1>3
<1>5. ValuesOf(fs, "tag") = ValuesOf(rs, "tag")
  BY SMTT(30), <1>2, <1>4 DEF ValuesOf
<1>6. PICK k \in 1..n : /\ LastBy(rs, "tag", tag) = rs[k] /\ rs[k]["tag"] = tag
                        /\ LastUpTo(rs, "tag", n, k)
  BY <1>1, <1>3, LastByIs
<1>7. PICK m \in 1..n : /\ LastBy(fs, "tag", tag) = fs[m] /\ fs[m]["tag"] = tag
                        /\ LastUpTo(fs, "tag", n, m)
  BY <1>1, <1>2, <1>5, LastByIs
<1>8. k = m
  <2>1. k <= m /\ m <= k
    BY <1>2, <1>6, <1>7 DEF LastUpTo
  <2> QED
    BY <1>1, <1>6, <1>7, <2>1
<1>9. os[LastBy(fs, "tag", tag).ref + 1] = LastBy(rs, "tag", tag).outline
  BY <1>2, <1>6, <1>7, <1>8
<1>10. tag \in ValuesOf(fs, "tag")
  BY <1>1, <1>5
<1>11. edit.merge /\ edit.features = fs /\ edit.outlines = os
  BY <1>1
<1>12. <<tag, os[LastBy(fs, "tag", tag).ref + 1]>> \in Regions(after)
  BY <1>10, <1>11 DEF RegionsFit
<1> QED
  BY <1>1, <1>9, <1>12

(* An edit that was not refused made what was asked for.                    *)
LEMMA EditIsMeant ==
  ASSUME NEW image \in Image, NEW script, IsScript(script), ~Refused(image, script),
         NEW drawn, \A b \in drawn : IsDrawing(b) /\ script = DraftScript(b),
         NEW made, made = [image |-> EditedImage(image, script), of |-> image,
                           script |-> script, drawn |-> drawn]
  PROVE  MeansWhatWasAsked(made)
<1>1. /\ made.image = EditedImage(image, script) /\ made.of = image
      /\ made.script = script /\ made.drawn = drawn
  OBVIOUS
<1> DEFINE after == EditedImage(image, script)
           room == \A edit \in script.regions : Len(image.outlines) + Len(edit.outlines) <= MaxRef
           kept == "connector_table" \notin ValuesOf(script.records, "tag")
<1>2. /\ script.regions = {} => after.features = image.features /\ after.outlines = image.outlines
      /\ \A edit \in script.regions :
           /\ after.features = Written(RegionsAfter(image, edit)).features
           /\ after.outlines = Written(RegionsAfter(image, edit)).outlines
      /\ kept => /\ script.links = {} => after.table = image.table
                 /\ \A edit \in script.links : after.table = TableAfter(image, edit)
  BY EditedParts
<1> HIDE DEF after
<1>3. ASSUME room, NEW edit \in script.regions
      PROVE  Sound(after) /\ RegionsFit(image, edit, after)
  <2>1. /\ edit \in [merge : BOOLEAN, features : Seq(RegionFeature), outlines : Seq(Outline)]
        /\ ~RegionsRefused(image, edit) /\ Len(image.outlines) + Len(edit.outlines) <= MaxRef
    BY <1>3 DEF IsScript, Refused
  <2>2. /\ after.features = Written(RegionsAfter(image, edit)).features
        /\ after.outlines = Written(RegionsAfter(image, edit)).outlines
    BY <1>2
  <2> QED
    BY <2>1, <2>2, RegionsAreFit
<1>4. ASSUME kept, NEW edit \in script.links PROVE LinksFit(image.table, edit, after.table)
  <2>1. edit \in [merge : BOOLEAN, links : Seq(Connector)] /\ after.table = TableAfter(image, edit)
    BY <1>2, <1>4 DEF IsScript
  <2> QED
    BY <2>1, LinksAreFit
<1>5. ASSUME room, NEW b \in drawn, NEW tag \in ValuesOf(b.regions, "tag")
      PROVE  <<tag, LastBy(b.regions, "tag", tag).outline>> \in Regions(after)
  <2>1. IsDrawing(b) /\ script = DraftScript(b)
    OBVIOUS
  <2>2. b.regions # <<>>
    BY DEF ValuesOf
  <2>3. PICK edit : /\ edit = [merge |-> TRUE, features |-> DraftFeatures(b), outlines |-> DraftOutlines(b)]
                    /\ edit \in script.regions
    BY <2>1, <2>2, DraftsAreScripts
  <2>4. RegionsFit(image, edit, after)
    BY <1>3, <1>5, <2>3
  <2> QED
    BY <2>1, <2>3, <2>4, DraftsAreSeen
<1>6. ASSUME NEW b \in drawn, NEW ends \in ValuesOf(b.links, "ends")
      PROVE  LastBy(b.links, "ends", ends) \in ToSet(after.table)
  <2>1. IsDrawing(b) /\ script = DraftScript(b)
    OBVIOUS
  <2>2. b.links # <<>>
    BY DEF ValuesOf
  <2>3. PICK edit : edit = [merge |-> TRUE, links |-> b.links] /\ edit \in script.links
    BY <2>1, <2>2, DraftsAreScripts
  <2>4. script.records = <<>>
    BY <2>1, DraftsAreScripts
  <2>5. kept
    BY <2>4 DEF ValuesOf
  <2>6. LinksFit(image.table, edit, after.table)
    BY <1>4, <2>3, <2>5
  <2> QED
    BY <2>3, <2>6 DEF LinksFit
<1> HIDE DEF room, kept
<1>7. /\ room => \A edit \in script.regions : Sound(after) /\ RegionsFit(image, edit, after)
      /\ script.regions = {} => after.features = image.features /\ after.outlines = image.outlines
      /\ kept => /\ \A edit \in script.links : LinksFit(image.table, edit, after.table)
                 /\ script.links = {} => after.table = image.table
      /\ room => \A b \in drawn :
           /\ \A tag \in ValuesOf(b.regions, "tag") :
                <<tag, LastBy(b.regions, "tag", tag).outline>> \in Regions(after)
           /\ \A ends \in ValuesOf(b.links, "ends") :
                LastBy(b.links, "ends", ends) \in ToSet(after.table)
  BY <1>2, <1>3, <1>4, <1>5, <1>6, Zenon
<1> QED
  BY <1>1, <1>7 DEF MeansWhatWasAsked, after, room, kept

(* A patch brings an information record and nothing else.                   *)
LEMMA PatchIsMeant ==
  ASSUME NEW image \in Image, NEW info,
         NEW made, made = [image |-> [image EXCEPT !.info = info], of |-> image,
                           script |-> [NoScript EXCEPT !.info = {info}], drawn |-> {}]
  PROVE  MeansWhatWasAsked(made)
<1>1. /\ made.image = [image EXCEPT !.info = info] /\ made.of = image /\ made.drawn = {}
      /\ made.script.regions = {} /\ made.script.links = {} 
  BY DEF NoScript
<1>2. image = [map |-> image.map, info |-> image.info, layer |-> image.layer, table |-> image.table,
               features |-> image.features, outlines |-> image.outlines]
  BY DEF Image
<1>3. /\ made.image.features = image.features /\ made.image.outlines = image.outlines
      /\ made.image.table = image.table
  BY <1>1, <1>2
<1> QED
  BY <1>1, <1>3 DEF MeansWhatWasAsked

(* What is asked for is well formed, and an export says what was drawn.     *)
AskedInv ==
  /\ source \subseteq Image
  /\ IsDrawing(board) /\ asked \in Nat
  /\ \A call \in calls : call.op \in {"inspect", "download", "edit", "patch"} /\ call.image \in Image
  /\ \A call \in calls : call.op = "edit" =>
       IsScript(call.script) /\ \A b \in call.drawn : IsDrawing(b) /\ call.script = DraftScript(b)
  /\ EditsMeanWhatWasAsked

(* An export is under way.                                                 *)
OfStudio(call) == call.op = "edit" /\ call.by = "studio"

(* What spins, waits for an answer; requests are numbered, and the studio  *)
(* exports once at a time.                                                 *)
CallsInv ==
  /\ asked \in Nat
  /\ \A call \in calls : call.nth \in 1..asked
  /\ \A call, other \in calls : OfStudio(call) /\ OfStudio(other) => call = other
  /\ status = "loading" => \E call \in calls : call.op = "inspect"
  /\ editStatus = "loading" => \E call \in calls : call.op \in {"edit", "patch"}
  /\ StructureIsOfSource
  /\ board = [map |-> board.map, regions |-> board.regions, links |-> board.links,
              exporting |-> board.exporting]

LEMMA AskAdds ==
  ASSUME CallsInv, NEW call, call.nth = asked + 1, Ask(call)
  PROVE  /\ calls' = calls \cup {call} /\ call \notin calls
         /\ asked' \in Nat /\ \A c \in calls' : c.nth \in 1..asked'
BY DEF CallsInv, Ask

(* A request that is not an export.                                        *)
LEMMA RequestHolds ==
  ASSUME CallsInv, NEW call, call.nth = asked + 1, Ask(call), ~OfStudio(call),
         structure' = structure, source' = source, board' = board,
         status' = status \/ (status' = "loading" /\ call.op = "inspect"),
         editStatus' = editStatus \/ (editStatus' = "loading" /\ call.op \in {"edit", "patch"})
  PROVE  CallsInv'
<1>1. /\ calls' = calls \cup {call} 
      /\ asked' \in Nat /\ \A c \in calls' : c.nth \in 1..asked'
  BY AskAdds
<1>2. \A c, other \in calls' : OfStudio(c) /\ OfStudio(other) => c = other
  BY <1>1 DEF CallsInv
<1>3. status' = "loading" => \E c \in calls' : c.op = "inspect"
  BY <1>1 DEF CallsInv
<1>4. editStatus' = "loading" => \E c \in calls' : c.op \in {"edit", "patch"}
  BY <1>1 DEF CallsInv
<1>5. StructureIsOfSource'
  BY <1>1 DEF CallsInv, StructureIsOfSource, OfStudio
<1> QED
  BY <1>1, <1>2, <1>3, <1>4, <1>5 DEF CallsInv, OfStudio

LEMMA ExportHolds == ASSUME CallsInv, Export PROVE CallsInv'
<1>1. PICK image \in source :
        Ask([nth |-> asked + 1, op |-> "edit", by |-> "studio", image |-> image,
             script |-> DraftScript(board), drawn |-> {board}])
  BY DEF Export
<1> DEFINE call == [nth |-> asked + 1, op |-> "edit", by |-> "studio", image |-> image,
                    script |-> DraftScript(board), drawn |-> {board}]
<1>2. call.nth = asked + 1 /\ call.op = "edit" /\ OfStudio(call)
  BY DEF OfStudio
<1>3. Ask(call)
  BY <1>1
<1> HIDE DEF call
<1>4. /\ calls' = calls \cup {call} 
      /\ asked' \in Nat /\ \A c \in calls' : c.nth \in 1..asked'
  BY <1>2, <1>3, AskAdds
<1>5. /\ ~board.exporting /\ board' = [board EXCEPT !.exporting = TRUE]
      /\ editStatus' = "loading" /\ UNCHANGED <<source, structure, status>>
  BY DEF Export
<1>6. /\ board'.exporting
      /\ board' = [map |-> board'.map, regions |-> board'.regions, links |-> board'.links,
                   exporting |-> board'.exporting]
  BY <1>5 DEF CallsInv
<1>7. \A c \in calls : ~OfStudio(c)
  BY <1>5 DEF CallsInv, StructureIsOfSource, OfStudio
<1>8. \A c, other \in calls' : OfStudio(c) /\ OfStudio(other) => c = other
  BY <1>4, <1>7
<1>9. StructureIsOfSource'
  BY <1>2, <1>4, <1>5, <1>6 DEF CallsInv, StructureIsOfSource, OfStudio
<1> QED
  BY <1>2, <1>4, <1>5, <1>6, <1>8, <1>9 DEF CallsInv, OfStudio

LEMMA AskingHolds ==
  ASSUME CallsInv, Inspect \/ UseLibraryImage \/ ApplyEdit \/ ChoosePatch
  PROVE  CallsInv'
<1>1. CASE Inspect
  BY <1>1, RequestHolds DEF Inspect, OfStudio
<1>2. CASE UseLibraryImage
  BY <1>2, RequestHolds DEF UseLibraryImage, OfStudio
<1>3. CASE ApplyEdit
  BY <1>3, RequestHolds DEF ApplyEdit, OfStudio
<1>4. CASE ChoosePatch
  BY <1>4, RequestHolds DEF ChoosePatch, OfStudio
<1> QED
  BY <1>1, <1>2, <1>3, <1>4

LEMMA AnswerHolds == ASSUME CallsInv, Answer PROVE CallsInv'
<1>1. PICK call \in calls, good \in BOOLEAN :
        \/ call.op = "inspect" /\ Inspected(call, good)
        \/ call.op = "download" /\ Downloaded(call, good)
        \/ call.op = "edit" /\ EditAnswered(call, good)
        \/ call.op = "patch" /\ PatchAnswered(call, good)
  BY DEF Answer
<1>2. calls' = calls \ {call} /\ asked' = asked
  BY <1>1 DEF Inspected, Downloaded, EditAnswered, PatchAnswered
<1>3. board' = IF OfStudio(call) THEN [board EXCEPT !.exporting = FALSE] ELSE board
  BY <1>1 DEF Inspected, Downloaded, EditAnswered, PatchAnswered, OfStudio
<1>4. /\ asked' \in Nat /\ \A c \in calls' : c.nth \in 1..asked'
      /\ \A c, other \in calls' : OfStudio(c) /\ OfStudio(other) => c = other
  BY <1>2 DEF CallsInv
<1>5. status' = "loading" => \E c \in calls' : c.op = "inspect"
  BY <1>1, <1>2 DEF CallsInv, Inspected, Downloaded, SetSource, EditAnswered, PatchAnswered
<1>6. editStatus' = "loading" => \E c \in calls' : c.op \in {"edit", "patch"}
  BY <1>1, <1>2 DEF CallsInv, Inspected, Downloaded, SetSource, EditAnswered, PatchAnswered, Kept
<1>7. structure' # {} => structure' = source'
  BY <1>1 DEF CallsInv, StructureIsOfSource, Inspected, Downloaded, SetSource, EditAnswered, PatchAnswered
<1>8. /\ board'.exporting <=> \E c \in calls' : OfStudio(c)
      /\ board' = [map |-> board'.map, regions |-> board'.regions, links |-> board'.links,
                   exporting |-> board'.exporting]
  <2>1. CASE OfStudio(call)
    <3>1. \A c \in calls' : ~OfStudio(c)
      BY <1>2, <2>1 DEF CallsInv
    <3>2. board' = [map |-> board.map, regions |-> board.regions, links |-> board.links,
                    exporting |-> FALSE]
      BY <1>3, <2>1 DEF CallsInv
    <3> QED
      BY <3>1, <3>2
  <2>2. CASE ~OfStudio(call)
    BY <1>2, <1>3, <2>2 DEF CallsInv, StructureIsOfSource, OfStudio
  <2> QED
    BY <2>1, <2>2
<1>9. StructureIsOfSource'
  BY <1>5, <1>6, <1>7, <1>8 DEF StructureIsOfSource, OfStudio
<1> QED
  BY <1>4, <1>5, <1>6, <1>8, <1>9 DEF CallsInv, OfStudio

(* Steps that neither ask nor answer.                                      *)
LEMMA BoardHolds ==
  ASSUME CallsInv, PickMap \/ Draw \/ Erase \/ Reset \/ UNCHANGED editVars
  PROVE  CallsInv'
<1>1. UNCHANGED <<calls, asked>>
  BY DEF PickMap, Draw, Erase, Reset, editVars
<1>2. /\ board'.exporting = board.exporting
      /\ board' = [map |-> board'.map, regions |-> board'.regions, links |-> board'.links,
                   exporting |-> board'.exporting]
  <2>1. CASE PickMap
    BY <2>1 DEF PickMap, CallsInv
  <2>2. CASE Draw
    BY <2>2 DEF Draw, CallsInv
  <2>3. CASE Erase
    BY <2>3 DEF Erase, CallsInv
  <2>4. CASE Reset \/ UNCHANGED editVars
    BY <2>4 DEF Reset, editVars, CallsInv
  <2> QED
    BY <2>1, <2>2, <2>3, <2>4
<1>3. /\ status' \in {status, "idle"} /\ editStatus' \in {editStatus, "idle"}
      /\ structure' # {} => structure' = source'
  BY DEF PickMap, Draw, Erase, Reset, editVars, CallsInv, StructureIsOfSource
<1>4. StructureIsOfSource'
  BY <1>1, <1>2, <1>3 DEF StructureIsOfSource, CallsInv
<1> QED
  BY <1>1, <1>2, <1>3, <1>4 DEF CallsInv, OfStudio

(* The inductive invariant of the client's store of images: what spins     *)
(* waits for an answer, and the studio exports once at a time              *)
(* (web/src/stores/omf.ts).                                                *)
THEOREM CallsAreAnswered == EditsSpec => []CallsInv
<1>1. EditsInit => CallsInv
  BY DEF EditsInit, CallsInv, StructureIsOfSource, OfStudio
<1>2. CallsInv /\ [EditsNext]_editVars => CallsInv'
  BY ExportHolds, AskingHolds, AnswerHolds, BoardHolds DEF EditsNext
<1> QED
  BY <1>1, <1>2, PTL DEF EditsSpec

(* The structure on show is that of the image an edit would be applied to, *)
(* and with nothing under way nothing spins, in whatever order inspections,*)
(* downloads, edits and patches are answered (web/src/stores/omf.ts).      *)
THEOREM StructureFollowsSource == EditsSpec => []StructureIsOfSource
<1>1. CallsInv => StructureIsOfSource
  BY DEF CallsInv
<1> QED
  BY <1>1, CallsAreAnswered, PTL

(* A sequence without one of its items.                                     *)
LEMMA RemovedIsSeq ==
  ASSUME NEW S, NEW seq \in Seq(S), NEW i \in DOMAIN seq
  PROVE  RemoveAt(seq, i) \in Seq(S)
<1>1. i \in 1..Len(seq) /\ Len(seq) \in Nat
  OBVIOUS
<1>2. /\ SubSeq(seq, 1, i - 1) \in Seq(S) /\ SubSeq(seq, i + 1, Len(seq)) \in Seq(S)
  BY <1>1, SubSeqProperties
<1> QED
  BY <1>2 DEF RemoveAt

(* A request is sent: of an image, and an edit with its script.             *)
LEMMA SentHolds ==
  ASSUME AskedInv, NEW call, Ask(call), UNCHANGED <<source, board, edited, files>>,
         call.op \in {"inspect", "download", "edit", "patch"}, call.image \in Image,
         call.op = "edit" =>
           IsScript(call.script) /\ \A b \in call.drawn : IsDrawing(b) /\ call.script = DraftScript(b)
  PROVE  AskedInv'
<1>1. asked' = asked + 1 /\ calls' = calls \cup {call}
  BY DEF Ask
<1>2. EditsMeanWhatWasAsked'
  BY DEF AskedInv, EditsMeanWhatWasAsked
<1> QED
  BY <1>1, <1>2 DEF AskedInv

LEMMA SendingHolds ==
  ASSUME AskedInv, board = [map |-> board.map, regions |-> board.regions, links |-> board.links,
                            exporting |-> board.exporting],
         Inspect \/ UseLibraryImage \/ ApplyEdit \/ ChoosePatch \/ Export
  PROVE  AskedInv'
<1>1. CASE Inspect
  <2>1. PICK image \in Uploads : Ask([nth |-> asked + 1, op |-> "inspect", image |-> image])
    BY <1>1 DEF Inspect
  <2> DEFINE call == [nth |-> asked + 1, op |-> "inspect", image |-> image]
  <2>2. call.op = "inspect" /\ call.image \in Image /\ Ask(call)
    BY <2>1, EditsAssumption
  <2> HIDE DEF call
  <2> QED
    BY <1>1, <2>2, SentHolds DEF Inspect
<1>2. CASE UseLibraryImage
  <2> DEFINE call == [nth |-> asked + 1, op |-> "download", image |-> Library[board.map]]
  <2>1. Library[board.map] \in Image
    BY EditsAssumption DEF AskedInv, IsDrawing
  <2>2. call.op = "download" /\ call.image \in Image /\ Ask(call)
    BY <1>2, <2>1 DEF UseLibraryImage
  <2> HIDE DEF call
  <2> QED
    BY <1>2, <2>2, SentHolds DEF UseLibraryImage
<1>3. CASE ApplyEdit
  <2>1. PICK image \in source, script \in Scripts :
          Ask([nth |-> asked + 1, op |-> "edit", by |-> "inspector", image |-> image,
               script |-> script, drawn |-> {}])
    BY <1>3 DEF ApplyEdit
  <2> DEFINE call == [nth |-> asked + 1, op |-> "edit", by |-> "inspector", image |-> image,
                      script |-> script, drawn |-> {}]
  <2>2. call.op = "edit" /\ call.image \in Image /\ call.script = script /\ call.drawn = {} /\ Ask(call)
    BY <2>1 DEF AskedInv
  <2>3. IsScript(script)
    BY EditsAssumption
  <2> HIDE DEF call
  <2> QED
    BY <1>3, <2>2, <2>3, SentHolds DEF ApplyEdit
<1>4. CASE ChoosePatch
  <2>1. PICK image \in source, patch \in PatchFiles :
          Ask([nth |-> asked + 1, op |-> "patch", image |-> image, patch |-> patch])
    BY <1>4 DEF ChoosePatch
  <2> DEFINE call == [nth |-> asked + 1, op |-> "patch", image |-> image, patch |-> patch]
  <2>2. call.op = "patch" /\ call.image \in Image /\ Ask(call)
    BY <2>1 DEF AskedInv
  <2> HIDE DEF call
  <2> QED
    BY <1>4, <2>2, SentHolds DEF ChoosePatch
<1>5. CASE Export
  <2>1. PICK image \in source :
          Ask([nth |-> asked + 1, op |-> "edit", by |-> "studio", image |-> image,
               script |-> DraftScript(board), drawn |-> {board}])
    BY <1>5 DEF Export
  <2> DEFINE call == [nth |-> asked + 1, op |-> "edit", by |-> "studio", image |-> image,
                      script |-> DraftScript(board), drawn |-> {board}]
  <2>2. /\ call.op = "edit" /\ call.image \in Image /\ call.script = DraftScript(board)
        /\ call.drawn = {board} /\ Ask(call)
    BY <2>1 DEF AskedInv
  <2> HIDE DEF call
  <2>3. asked' = asked + 1 /\ calls' = calls \cup {call}
    BY <2>2 DEF Ask
  <2>4. IsDrawing(board) /\ IsScript(DraftScript(board))
    BY DraftsAreScripts DEF AskedInv
  <2>5. /\ board' = [board EXCEPT !.exporting = TRUE] /\ UNCHANGED <<source, edited, files>>
    BY <1>5 DEF Export
  <2>6. board'.map = board.map /\ board'.regions = board.regions /\ board'.links = board.links
    BY <2>5
  <2>7. IsDrawing(board')
    BY <2>4, <2>6 DEF IsDrawing
  <2>8. EditsMeanWhatWasAsked'
    BY <2>5 DEF AskedInv, EditsMeanWhatWasAsked
  <2>9. \A c \in calls' : c.op \in {"inspect", "download", "edit", "patch"} /\ c.image \in Image
    BY <2>2, <2>3 DEF AskedInv
  <2>10. \A c \in calls' : c.op = "edit" =>
           IsScript(c.script) /\ \A b \in c.drawn : IsDrawing(b) /\ c.script = DraftScript(b)
    BY <2>2, <2>3, <2>4 DEF AskedInv
  <2>11. source' \subseteq Image /\ asked' \in Nat
    BY <2>3, <2>5 DEF AskedInv
  <2> QED
    BY <2>7, <2>8, <2>9, <2>10, <2>11 DEF AskedInv
<1> QED
  BY <1>1, <1>2, <1>3, <1>4, <1>5

(* An answer keeps what was made of what was asked.                         *)
LEMMA AnsweredHolds ==
  ASSUME AskedInv, board = [map |-> board.map, regions |-> board.regions, links |-> board.links,
                            exporting |-> board.exporting],
         Answer
  PROVE  AskedInv'
<1>1. PICK call \in calls, good \in BOOLEAN :
        \/ call.op = "inspect" /\ Inspected(call, good)
        \/ call.op = "download" /\ Downloaded(call, good)
        \/ call.op = "edit" /\ EditAnswered(call, good)
        \/ call.op = "patch" /\ PatchAnswered(call, good)
  BY DEF Answer
<1>2. calls' = calls \ {call} /\ asked' = asked
  BY <1>1 DEF Inspected, Downloaded, EditAnswered, PatchAnswered
<1>3. source' \subseteq source \cup {call.image} /\ call.image \in Image
  BY <1>1 DEF Inspected, Downloaded, SetSource, EditAnswered, PatchAnswered, AskedInv
<1>4. IsDrawing(board')
  <2>1. board' = board \/ board' = [board EXCEPT !.exporting = FALSE]
    BY <1>1 DEF Inspected, Downloaded, EditAnswered, PatchAnswered
  <2>2. board'.map = board.map /\ board'.regions = board.regions /\ board'.links = board.links
    BY <2>1
  <2> QED
    BY <2>2 DEF IsDrawing, AskedInv
<1>5. EditsMeanWhatWasAsked'
  <2>1. CASE edited' \subseteq edited /\ files' = files
    BY <2>1 DEF AskedInv, EditsMeanWhatWasAsked
  <2>2. CASE /\ call.op = "edit" /\ ~Refused(call.image, call.script)
             /\ Kept(call, EditedImage(call.image, call.script))
    <3> DEFINE made == [image |-> EditedImage(call.image, call.script), of |-> call.image,
                        script |-> call.script, drawn |-> call.drawn]
    <3>1. edited' = {made} /\ files' \subseteq files \cup {made}
      BY <2>2 DEF Kept
    <3>2. /\ IsScript(call.script)
          /\ \A b \in call.drawn : IsDrawing(b) /\ call.script = DraftScript(b)
      BY <2>2 DEF AskedInv
    <3>3. MeansWhatWasAsked(made)
      BY <1>3, <2>2, <3>2, EditIsMeant
    <3> HIDE DEF made
    <3> QED
      BY <3>1, <3>3 DEF AskedInv, EditsMeanWhatWasAsked
  <2>3. CASE call.op = "patch" /\ PatchAnswered(call, good) /\ edited' # edited
    <3> DEFINE made == [image |-> [call.image EXCEPT !.info = call.patch.info], of |-> call.image,
                        script |-> [NoScript EXCEPT !.info = {call.patch.info}], drawn |-> {}]
    <3>1. edited' = {made} /\ files' = files
      BY <2>3 DEF PatchAnswered
    <3>2. MeansWhatWasAsked(made)
      BY <1>3, PatchIsMeant
    <3> HIDE DEF made
    <3> QED
      BY <3>1, <3>2 DEF AskedInv, EditsMeanWhatWasAsked
  <2>4. CASE call.op = "inspect" /\ Inspected(call, good)
    <3>1. edited' \subseteq edited /\ files' = files
      BY <2>4 DEF Inspected
    <3> QED
      BY <2>1, <3>1
  <2>5. CASE call.op = "download" /\ Downloaded(call, good)
    <3>1. edited' \subseteq edited /\ files' = files
      BY <2>5 DEF Downloaded, SetSource
    <3> QED
      BY <2>1, <3>1
  <2>6. CASE call.op = "edit" /\ EditAnswered(call, good)
    <3>1. \/ edited' = edited /\ files' = files
          \/ ~Refused(call.image, call.script) /\ Kept(call, EditedImage(call.image, call.script))
      BY <2>6 DEF EditAnswered
    <3> QED
      BY <2>1, <2>2, <2>6, <3>1
  <2>7. CASE call.op = "patch" /\ PatchAnswered(call, good)
    <3>1. files' = files
      BY <2>7 DEF PatchAnswered
    <3> QED
      BY <2>1, <2>3, <2>7, <3>1
  <2> QED
    BY <1>1, <2>4, <2>5, <2>6, <2>7
<1>6. source' \subseteq Image /\ asked' \in Nat
  BY <1>2, <1>3 DEF AskedInv
<1>7. \A c \in calls' : c.op \in {"inspect", "download", "edit", "patch"} /\ c.image \in Image
  BY <1>2 DEF AskedInv
<1>8. \A c \in calls' : c.op = "edit" =>
        IsScript(c.script) /\ \A b \in c.drawn : IsDrawing(b) /\ c.script = DraftScript(b)
  BY <1>2 DEF AskedInv
<1> QED
  BY <1>4, <1>5, <1>6, <1>7, <1>8 DEF AskedInv

(* Drawing, erasing, turning to another map, and the rest.                  *)
LEMMA DrawingHolds ==
  ASSUME AskedInv, board = [map |-> board.map, regions |-> board.regions, links |-> board.links,
                            exporting |-> board.exporting],
         PickMap \/ Draw \/ Erase \/ Reset \/ UNCHANGED editVars
  PROVE  AskedInv'
<1>1. UNCHANGED <<calls, asked, files>> /\ edited' \subseteq edited /\ source' \subseteq source
  BY DEF PickMap, Draw, Erase, Reset, editVars
<1>2. EditsMeanWhatWasAsked'
  BY <1>1 DEF AskedInv, EditsMeanWhatWasAsked
<1>3. IsDrawing(board')
  <2>1. board.map \in DOMAIN Library /\ board.regions \in Seq(Drawing) /\ board.links \in Seq(Connector)
    BY DEF AskedInv, IsDrawing
  <2>2. CASE PickMap
    <3>1. PICK m \in DOMAIN Library : board' = [board EXCEPT !.map = m, !.regions = <<>>, !.links = <<>>]
      BY <2>2 DEF PickMap
    <3>2. board'.map = m /\ board'.regions = <<>> /\ board'.links = <<>>
      BY <3>1
    <3> QED
      BY <3>2 DEF IsDrawing
  <2>3. CASE Draw
    <3>1. Drafts \in Nat
      <4>1. Len(board.regions) \in Nat /\ Len(board.links) \in Nat
        BY <2>1
      <4> QED
        BY <4>1 DEF Drafts
    <3>2. CASE \E tag \in Tags :
                 board' = [board EXCEPT !.regions =
                             Append(@, [tag |-> tag, outline |-> [on |-> board.map, nth |-> Drafts + 1]])]
      <4>1. PICK tag \in Tags :
              board' = [board EXCEPT !.regions =
                          Append(@, [tag |-> tag, outline |-> [on |-> board.map, nth |-> Drafts + 1]])]
        BY <3>2
      <4> DEFINE item == [tag |-> tag, outline |-> [on |-> board.map, nth |-> Drafts + 1]]
      <4>2. item \in Drawing
        BY <2>1, <3>1, EditsAssumption DEF Drawing, Outline
      <4> HIDE DEF item
      <4>3. board' = [board EXCEPT !.regions = Append(board.regions, item)]
        BY <4>1 DEF item
      <4>4. /\ board'.map = board.map /\ board'.links = board.links
            /\ board'.regions = Append(board.regions, item)
        BY <4>3
      <4>5. Append(board.regions, item) \in Seq(Drawing)
        BY <2>1, <4>2
      <4> QED
        BY <2>1, <4>4, <4>5 DEF IsDrawing
    <3>3. CASE \E ends \in Ends :
                 board' = [board EXCEPT !.links = Append(@, [ends |-> ends, by |-> Drafts + 1])]
      <4>1. PICK ends \in Ends :
              board' = [board EXCEPT !.links = Append(@, [ends |-> ends, by |-> Drafts + 1])]
        BY <3>3
      <4> DEFINE item == [ends |-> ends, by |-> Drafts + 1]
      <4>2. item \in Connector
        BY <3>1, EditsAssumption DEF Connector
      <4> HIDE DEF item
      <4>3. board' = [board EXCEPT !.links = Append(board.links, item)]
        BY <4>1 DEF item
      <4>4. /\ board'.map = board.map /\ board'.regions = board.regions
            /\ board'.links = Append(board.links, item)
        BY <4>3
      <4>5. Append(board.links, item) \in Seq(Connector)
        BY <2>1, <4>2
      <4> QED
        BY <2>1, <4>4, <4>5 DEF IsDrawing
    <3> QED
      BY <2>3, <3>2, <3>3 DEF Draw
  <2>4. CASE Erase
    <3>1. CASE \E i \in DOMAIN board.regions : board' = [board EXCEPT !.regions = RemoveAt(@, i)]
      <4>1. PICK i \in DOMAIN board.regions : board' = [board EXCEPT !.regions = RemoveAt(board.regions, i)]
        BY <3>1
      <4>2. /\ board'.map = board.map /\ board'.links = board.links
            /\ board'.regions = RemoveAt(board.regions, i)
        BY <4>1
      <4>3. RemoveAt(board.regions, i) \in Seq(Drawing)
        BY <2>1, RemovedIsSeq
      <4> QED
        BY <2>1, <4>2, <4>3 DEF IsDrawing
    <3>2. CASE \E i \in DOMAIN board.links : board' = [board EXCEPT !.links = RemoveAt(@, i)]
      <4>1. PICK i \in DOMAIN board.links : board' = [board EXCEPT !.links = RemoveAt(board.links, i)]
        BY <3>2
      <4>2. /\ board'.map = board.map /\ board'.regions = board.regions
            /\ board'.links = RemoveAt(board.links, i)
        BY <4>1
      <4>3. RemoveAt(board.links, i) \in Seq(Connector)
        BY <2>1, RemovedIsSeq
      <4> QED
        BY <2>1, <4>2, <4>3 DEF IsDrawing
    <3> QED
      BY <2>4, <3>1, <3>2 DEF Erase
  <2>5. CASE Reset \/ UNCHANGED editVars
    BY <2>5 DEF Reset, editVars, AskedInv
  <2> QED
    BY <2>2, <2>3, <2>4, <2>5
<1> QED
  BY <1>1, <1>2, <1>3 DEF AskedInv

(* The inductive invariant of what is asked for and what is made of it, on  *)
(* top of CallsInv.                                                         *)
LEMMA AskedHolds == CallsInv /\ AskedInv /\ [EditsNext]_editVars => AskedInv'
<1> SUFFICES ASSUME CallsInv, AskedInv, [EditsNext]_editVars PROVE AskedInv'
  OBVIOUS
<1>1. board = [map |-> board.map, regions |-> board.regions, links |-> board.links,
               exporting |-> board.exporting]
  BY DEF CallsInv
<1> QED
  BY <1>1, SendingHolds, AnsweredHolds, DrawingHolds DEF EditsNext

(* Every edited image, kept or saved as a file, is the image it was made of *)
(* with the regions, the connectors and the record the script asks for and  *)
(* nothing else changed, whatever the script and however the answers of the *)
(* two panels are interleaved; and what the studio saves shows the last     *)
(* drawing of every tag and of every pair of ends (service api/omf.rs,      *)
(* web/src/stores/omf.ts, StudioPanel.vue).                                 *)
THEOREM EditsAreWhatWasAsked == EditsSpec => []EditsMeanWhatWasAsked
<1>1. ASSUME EditsInit PROVE AskedInv
  <2>1. PICK m \in DOMAIN Library : board = [map |-> m, regions |-> <<>>, links |-> <<>>, exporting |-> FALSE]
    BY <1>1 DEF EditsInit
  <2>2. board.map = m /\ board.regions = <<>> /\ board.links = <<>>
    BY <2>1
  <2>3. IsDrawing(board)
    BY <2>2 DEF IsDrawing
  <2>4. source = {} /\ calls = {} /\ asked = 0 /\ edited = {} /\ files = {}
    BY <1>1 DEF EditsInit
  <2> QED
    BY <2>3, <2>4 DEF AskedInv, EditsMeanWhatWasAsked
<1>2. AskedInv => EditsMeanWhatWasAsked
  BY DEF AskedInv
<1> QED
  BY <1>1, <1>2, CallsAreAnswered, AskedHolds, PTL DEF EditsSpec

-----------------------------------------------------------------------------
(* The ground: the distance transform (transform_1d, from_mask of edt.rs).  *)

(* The greatest of some numbers up to n is one of them.                    *)
LEMMA MaxIs ==
  ASSUME NEW n \in Nat, NEW T \in SUBSET (0..n), T # {}
  PROVE  Max(T) \in T /\ \A k \in T : k <= Max(T)
<1> DEFINE U == {k + 1 : k \in T}
<1>1. U \in SUBSET (1..n + 1) /\ U # {}
  <2>1. \A k \in T : k + 1 \in 1..n + 1
    OBVIOUS
  <2> QED
    BY <2>1
<1>2. PICK u \in U : \A k \in U : k <= u
  BY <1>1, GreatestBelow, n + 1 \in Nat
<1>3. PICK m \in T : u = m + 1
  OBVIOUS
<1>4. \A k \in T : k <= m
  BY <1>2, <1>3
<1>5. \E x \in T : \A y \in T : x >= y
  BY <1>4
<1>6. Max(T) \in T /\ \A y \in T : Max(T) >= y
  BY <1>5 DEF Max
<1> QED
  BY <1>6

(* The parabola over v, at x.                                              *)
Arch(value, v, x) == (x - v) * (x - v) + value[v]

(* Of two parabolas the right one is below from their crossing on, the     *)
(* left one up to it.                                                      *)
LEMMA CrossingParts ==
  ASSUME NEW value, NEW q \in Nat, NEW v \in Nat, v < q, value[q] \in Int, value[v] \in Int,
         NEW x \in Int
  PROVE  LET m == Crossing(value, q, v)
         IN  /\ m \in [num : Int, den : Nat \ {0}]
             /\ m.num <= x * m.den <=> Arch(value, q, x) <= Arch(value, v, x)
             /\ x * m.den <= m.num <=> Arch(value, v, x) <= Arch(value, q, x)
<1> DEFINE m == Crossing(value, q, v)
           a == value[q]
           b == value[v]
<1>1. m.num = a + q * q - b - v * v /\ m.den = 2 * (q - v)
  BY DEF Crossing
<1>2. m \in [num : Int, den : Nat \ {0}]
  <2>1. 2 * (q - v) \in Nat \ {0} /\ a + q * q - b - v * v \in Int
    OBVIOUS
  <2> QED
    BY <2>1 DEF Crossing
<1>3. Arch(value, v, x) - Arch(value, q, x) = x * m.den - m.num
  <2>1. Arch(value, v, x) = x * x - 2 * (x * v) + v * v + b
    BY DEF Arch
  <2>2. Arch(value, q, x) = x * x - 2 * (x * q) + q * q + a
    BY DEF Arch
  <2>3. x * m.den = 2 * (x * q) - 2 * (x * v)
    BY <1>1
  <2>4. x * x \in Int /\ x * v \in Int /\ x * q \in Int /\ v * v \in Int /\ q * q \in Int /\ a \in Int /\ b \in Int
    OBVIOUS
  <2> HIDE DEF m
  <2> QED
    BY <1>1, <2>1, <2>2, <2>3, <2>4
<1>4. Arch(value, v, x) \in Int /\ Arch(value, q, x) \in Int
  BY DEF Arch
<1>5. x * m.den \in Int /\ m.num \in Int
  BY <1>2
<1> HIDE DEF m
<1> QED
  BY <1>2, <1>3, <1>4, <1>5 DEF m

(* A positive factor keeps the order.                                      *)
LEMMA ScaleOrder ==
  ASSUME NEW a \in Int, NEW b \in Int, NEW c \in Nat \ {0}
  PROVE  (a <= b <=> a * c <= b * c) /\ (a < b <=> a * c < b * c)
OBVIOUS

(* Before, on fractions with positive denominators, is an order of the     *)
(* points: what comes before a crossing that is left of x is left of x.    *)
LEMMA BeforeOrder ==
  ASSUME NEW a \in [num : Int, den : Nat \ {0}], NEW b \in [num : Int, den : Nat \ {0}],
         NEW x \in Int
  PROVE  /\ Before(a, [num |-> x, den |-> 1]) <=> a.num < x * a.den
         /\ Before(a, b) /\ b.num < x * b.den => a.num < x * a.den
         /\ ~Before(a, b) /\ x * b.den <= b.num => x * a.den <= a.num
<1>1. PICK an \in Int, ad \in Nat \ {0}, bn \in Int, bd \in Nat \ {0} :
        a.num = an /\ a.den = ad /\ b.num = bn /\ b.den = bd
  OBVIOUS
<1>2. Before(a, b) <=> an * bd < bn * ad
  BY <1>1 DEF Before
<1>3. Before(a, [num |-> x, den |-> 1]) <=> an < x * ad
  BY <1>1 DEF Before
<1>4. (x * ad) * bd = (x * bd) * ad
  OBVIOUS
<1>5. x * ad \in Int /\ x * bd \in Int /\ an * bd \in Int /\ bn * ad \in Int /\ (x * bd) * ad \in Int
  OBVIOUS
<1>6. (bn < x * bd => bn * ad < (x * bd) * ad) /\ (x * bd <= bn => (x * bd) * ad <= bn * ad)
  BY <1>5, ScaleOrder
<1>7. (an < x * ad <=> an * bd < (x * ad) * bd) /\ (x * ad <= an <=> (x * ad) * bd <= an * bd)
  BY <1>5, ScaleOrder
<1> QED
  BY <1>1, <1>2, <1>3, <1>4, <1>5, <1>6, <1>7

(* The envelope of the parabolas 0 to q: each piece takes over where it    *)
(* crosses the one before, further and further right, and at every point   *)
(* some piece is as low as any of the parabolas.                           *)
Bend == [num : Int, den : Nat \ {0}]
Piece == [of : Nat] \cup [of : Nat, from : Bend]

IsEnvelope(value, h, q) ==
  /\ h \in Seq(Piece) /\ h # <<>>
  /\ \A k \in 1..Len(h) : h[k].of \in 0..q
  /\ h[Len(h)].of = q
  /\ \A k \in 2..Len(h) : /\ h[k].from \in Bend
                          /\ h[k - 1].of < h[k].of
                          /\ h[k].from = Crossing(value, h[k].of, h[k - 1].of)
  /\ \A k \in 3..Len(h) : Before(h[k - 1].from, h[k].from)
  /\ \A v \in 0..q, x \in Int :
       \E k \in 1..Len(h) : Arch(value, h[k].of, x) <= Arch(value, v, x)

(* One parabola is its own envelope.                                       *)
LEMMA FirstEnvelope ==
  ASSUME NEW value, value[0] \in Int
  PROVE  IsEnvelope(value, <<[of |-> 0]>>, 0)
<1> DEFINE h == <<[of |-> 0]>>
<1>1. [of |-> 0] \in Piece
  BY DEF Piece
<1>2. h \in Seq(Piece) /\ h # <<>> /\ Len(h) = 1 /\ h[1].of = 0
  BY <1>1
<1>3. \A v \in 0..0 : v = 0
  OBVIOUS
<1>4. \A x \in Int : Arch(value, 0, x) \in Int
  BY DEF Arch
<1> HIDE DEF h
<1>5. \A k \in 1..Len(h) : k = 1
  BY <1>2
<1>6. \A v \in 0..0, x \in Int : \E k \in 1..Len(h) : Arch(value, h[k].of, x) <= Arch(value, v, x)
  BY SMTT(30), <1>2, <1>3, <1>4
<1>7. 2..Len(h) = {} /\ 3..Len(h) = {}
  BY <1>2
<1>8. IsEnvelope(value, h, 0)
  BY <1>2, <1>5, <1>6, <1>7 DEF IsEnvelope
<1> QED
  BY <1>8 DEF h

(* One more parabola: the pieces that are taken off the end are covered by *)
(* it to the right of where they meet, and to the left by the piece below. *)
LEMMA NextEnvelope ==
  ASSUME NEW value, NEW q \in Nat \ {0}, \A v \in 0..q : value[v] \in Int,
         NEW old, IsEnvelope(value, old, q - 1)
  PROVE  IsEnvelope(value, TakenOver(value, old, q), q)
<1> DEFINE meet(k) == Crossing(value, q, old[k].of)
           stays == {1} \cup {k \in 2..Len(old) : Before(old[k].from, meet(k))}
           kept == Max(stays)
           h == Append(SubSeq(old, 1, kept), [of |-> q, from |-> meet(kept)])
<1>1. /\ old \in Seq(Piece) /\ Len(old) \in Nat \ {0}
      /\ \A k \in 1..Len(old) : old[k].of \in 0..q - 1
      /\ old[Len(old)].of = q - 1
      /\ \A k \in 2..Len(old) : /\ old[k].from \in Bend
                                /\ old[k - 1].of < old[k].of
                                /\ old[k].from = Crossing(value, old[k].of, old[k - 1].of)
      /\ \A k \in 3..Len(old) : Before(old[k - 1].from, old[k].from)
  BY EmptySeq DEF IsEnvelope
<1>2. \A v \in 0..q - 1, x \in Int :
        \E k \in 1..Len(old) : Arch(value, old[k].of, x) <= Arch(value, v, x)
  BY DEF IsEnvelope
<1>3. kept \in stays /\ \A k \in stays : k <= kept
  <2>1. stays \in SUBSET (0..Len(old)) /\ stays # {}
    BY <1>1
  <2> HIDE DEF stays
  <2> QED
    BY <1>1, <2>1, MaxIs
<1>4. /\ kept \in 1..Len(old)
      /\ kept >= 2 => Before(old[kept].from, meet(kept))
      /\ \A k \in kept + 1..Len(old) : ~Before(old[k].from, meet(k))
  <2>1. kept \in 1..Len(old)
    BY <1>1, <1>3
  <2>2. kept >= 2 => Before(old[kept].from, meet(kept))
    BY <1>1, <1>3
  <2>3. ASSUME NEW k \in kept + 1..Len(old), Before(old[k].from, meet(k)) PROVE FALSE
    <3>1. k \in 2..Len(old) /\ ~(k <= kept)
      BY <2>1, <2>3
    <3>2. k \in stays
      BY <2>3, <3>1
    <3> QED
      BY <3>1, <3>2, <1>3
  <2> QED
    BY <2>1, <2>2, <2>3
<1>5. \A k \in 1..Len(old), x \in Int :
        /\ old[k].of \in 0..q - 1 /\ old[k].of \in Nat
        /\ Arch(value, old[k].of, x) \in Int /\ Arch(value, q, x) \in Int
        /\ meet(k) \in Bend
        /\ meet(k).num <= x * meet(k).den => Arch(value, q, x) <= Arch(value, old[k].of, x)
  <2> SUFFICES ASSUME NEW k \in 1..Len(old), NEW x \in Int
               PROVE  /\ old[k].of \in 0..q - 1 /\ old[k].of \in Nat
                      /\ Arch(value, old[k].of, x) \in Int /\ Arch(value, q, x) \in Int
                      /\ meet(k) \in Bend
                      /\ meet(k).num <= x * meet(k).den => Arch(value, q, x) <= Arch(value, old[k].of, x)
    OBVIOUS
  <2>1. PICK v \in Nat : v = old[k].of /\ v \in 0..q - 1 /\ v < q /\ q \in Nat /\ value[v] \in Int /\ value[q] \in Int
    BY <1>1
  <2>2. Arch(value, v, x) \in Int /\ Arch(value, q, x) \in Int
    BY SMTT(30), <2>1 DEF Arch
  <2>3. /\ Crossing(value, q, v) \in Bend
        /\ Crossing(value, q, v).num <= x * Crossing(value, q, v).den <=> Arch(value, q, x) <= Arch(value, v, x)
    BY <2>1, CrossingParts DEF Bend
  <2> QED
    BY <2>1, <2>2, <2>3
<1> HIDE DEF meet, kept, stays
<1>a. \A k \in 1..Len(old) : meet(k) \in Bend
  BY <1>5, 0 \in Int
<1>b. \A k \in 1..Len(old), x \in Int :
        Arch(value, old[k].of, x) \in Int /\ Arch(value, q, x) \in Int
  BY <1>5
<1>c. \A k \in 1..Len(old) : old[k].of \in 0..q - 1
  BY <1>1
<1>d. Len(old) \in Nat \ {0} /\ kept \in 1..Len(old) /\ kept \in Nat /\ \A j \in 1..kept : j \in 1..Len(old)
  <2>1. kept \in 1..Len(old) /\ Len(old) \in Nat \ {0}
    BY <1>1, <1>4
  <2> QED
    BY <2>1
<1>e. \A k \in 2..Len(old) : /\ old[k].from \in Bend
                             /\ old[k - 1].of < old[k].of
                             /\ old[k].from = Crossing(value, old[k].of, old[k - 1].of)
  BY <1>1
<1>f. \A k \in kept + 1..Len(old) : ~Before(old[k].from, meet(k))
  BY <1>4
<1> DEFINE Covered(k, x) ==
      \/ Arch(value, q, x) <= Arch(value, old[k].of, x)
      \/ \E j \in 1..kept : Arch(value, old[j].of, x) <= Arch(value, old[k].of, x)
<1>6. \A x \in Int : \A k \in 1..Len(old) : Covered(k, x)
  <2> SUFFICES ASSUME NEW x \in Int PROVE \A k \in 1..Len(old) : Covered(k, x)
    OBVIOUS
  <2> DEFINE Fits == {n \in Nat : n + 1 \in 1..Len(old) => Covered(n + 1, x)}
  <2>1. 0 \in Fits
    <3>1. 1 \in 1..kept /\ 1 \in 1..Len(old)
      BY <1>1, <1>4
    <3>2. Covered(1, x)
      BY <3>1, <1>5
    <3> QED
      BY <3>2
  <2>2. ASSUME NEW n \in Nat, n \in Fits PROVE n + 1 \in Fits
    <3>1. SUFFICES ASSUME n + 2 \in 1..Len(old) PROVE Covered(n + 2, x)
      OBVIOUS
    <3>2. CASE n + 2 <= kept
      <4>1. n + 2 \in 1..kept /\ Arch(value, old[n + 2].of, x) <= Arch(value, old[n + 2].of, x)
        BY <1>4, <1>5, <3>1, <3>2
      <4> QED
        BY <4>1
    <3>3. CASE ~(n + 2 <= kept)
      <4>1. n + 2 \in kept + 1..Len(old) /\ n + 2 \in 2..Len(old) /\ n + 1 \in 1..Len(old)
        BY <1>1, <1>4, <3>1, <3>3
      <4> DEFINE m == meet(n + 2)
                 f == old[n + 2].from
      <4>2. CASE m.num <= x * m.den
        <5>1. Arch(value, q, x) <= Arch(value, old[n + 2].of, x)
          BY <4>2, <3>1, <1>5
        <5> QED
          BY <5>1
      <4>3. CASE ~(m.num <= x * m.den)
        <5>1. m \in Bend /\ f \in Bend /\ ~Before(f, m)
          <6>1. n + 2 \in 1..Len(old)
            BY <3>1
          <6> HIDE DEF m, f
          <6>2. meet(n + 2) \in Bend
            BY <6>1, <1>a
          <6>3. old[n + 2].from \in Bend /\ ~Before(old[n + 2].from, meet(n + 2))
            BY <4>1, <1>e, <1>f
          <6> QED
            BY <6>2, <6>3 DEF m, f
        <5>2. x * m.den <= m.num
          <6>1. m.num \in Int /\ m.den \in Int
            BY <5>1 DEF Bend
          <6> HIDE DEF m
          <6> QED
            BY <4>3, <6>1
        <5>3. x * f.den <= f.num
          <6> HIDE DEF m, f
          <6> QED
            BY <5>1, <5>2, BeforeOrder DEF Bend
        <5>4. PICK v \in Nat, u \in Nat : /\ v = old[n + 2].of /\ u = old[n + 1].of /\ u < v
                                  /\ v \in 0..q - 1 /\ u \in 0..q - 1
                                  /\ f = Crossing(value, v, u)
          <6>1. old[n + 2].of \in 0..q - 1 /\ old[n + 1].of \in 0..q - 1
            BY <3>1, <4>1, <1>c
          <6>2. old[(n + 2) - 1].of < old[n + 2].of /\ f = Crossing(value, old[n + 2].of, old[(n + 2) - 1].of)
            BY <4>1, <1>e
          <6>3. (n + 2) - 1 = n + 1
            OBVIOUS
          <6>4. old[n + 1].of < old[n + 2].of /\ f = Crossing(value, old[n + 2].of, old[n + 1].of)
            BY <6>2, <6>3
          <6>5. old[n + 2].of \in Nat /\ old[n + 1].of \in Nat
            BY <6>1
          <6> HIDE DEF f
          <6> QED
            BY <6>1, <6>4, <6>5
        <5>5. value[v] \in Int /\ value[u] \in Int
          BY <5>4
        <5>6. Arch(value, u, x) <= Arch(value, v, x)
          <6> HIDE DEF f
          <6> QED
            BY <5>3, <5>4, <5>5, CrossingParts
        <5>7. Covered(n + 1, x)
          BY <2>2, <4>1
        <5>8. Arch(value, u, x) \in Int /\ Arch(value, v, x) \in Int /\ Arch(value, q, x) \in Int
              /\ \A j \in 1..kept : Arch(value, old[j].of, x) \in Int
          BY <3>1, <4>1, <1>b, <1>d, <5>4
        <5> HIDE DEF meet
        <5> QED
          BY <5>4, <5>6, <5>7, <5>8
      <4> QED
        BY <4>2, <4>3
    <3> QED
      BY <3>2, <3>3
  <2> HIDE DEF Fits
  <2>3. Nat \subseteq Fits
    BY <2>1, <2>2, InductionOnNat
  <2>4. ASSUME NEW k \in 1..Len(old) PROVE Covered(k, x)
    <3>1. k - 1 \in Nat /\ k - 1 \in Fits /\ (k - 1) + 1 = k
      BY <2>3, <1>1
    <3> QED
      BY <3>1 DEF Fits
  <2> QED
    BY <2>4
<1>7. /\ h \in Seq(Piece) /\ Len(h) = kept + 1
      /\ \A k \in 1..kept : h[k] = old[k]
      /\ h[kept + 1] = [of |-> q, from |-> meet(kept)]
  <2>1. meet(kept) \in Bend
    BY <1>4, <1>5
  <2>2. [of |-> q, from |-> meet(kept)] \in Piece
    <3> HIDE DEF meet
    <3> QED
      BY <2>1 DEF Piece
  <2>3. /\ SubSeq(old, 1, kept) \in Seq(Piece) /\ Len(SubSeq(old, 1, kept)) = kept
        /\ \A k \in 1..kept : SubSeq(old, 1, kept)[k] = old[k]
    BY <1>1, <1>4, SubSeqProperties
  <2> QED
    BY <1>4, <2>2, <2>3
<1>8. h[kept + 1].of = q /\ h[kept + 1].from = meet(kept) /\ meet(kept) \in Bend
  BY <1>4, <1>5, <1>7
<1> HIDE DEF h
<1>9. \A k \in 1..Len(h) : h[k].of \in 0..q
  <2>1. ASSUME NEW k \in 1..Len(h) PROVE h[k].of \in 0..q
    <3>1. CASE k <= kept
      <4>1. k \in 1..kept /\ k \in 1..Len(old)
        BY <1>d, <1>7, <3>1
      <4>2. h[k].of \in 0..q - 1
        BY <4>1, <1>7, <1>c
      <4> QED
        BY <4>2
    <3>2. CASE ~(k <= kept)
      <4>1. k = kept + 1
        BY <1>d, <1>7, <3>2
      <4> QED
        BY <4>1, <1>8
    <3> QED
      BY <3>1, <3>2
  <2> QED
    BY <2>1
<1>10. ASSUME NEW k \in 2..Len(h)
       PROVE  /\ h[k].from \in Bend /\ h[k - 1].of < h[k].of
              /\ h[k].from = Crossing(value, h[k].of, h[k - 1].of)
  <2>1. CASE k <= kept
    <3>1. k \in 2..Len(old) /\ h[k] = old[k] /\ h[k - 1] = old[k - 1]
      BY <1>1, <1>4, <1>7, <2>1
    <3> QED
      BY <3>1, <1>1
  <2>2. CASE ~(k <= kept)
    <3>1. k = kept + 1 /\ k - 1 = kept /\ kept \in 1..kept
      BY <1>4, <1>7, <2>2
    <3>2. h[k - 1] = old[kept] /\ old[kept].of \in 0..q - 1
      BY <1>1, <1>4, <1>7, <3>1
    <3> QED
      <4>1. meet(kept) = Crossing(value, q, old[kept].of)
        BY DEF meet
      <4>2. old[kept].of < q
        BY <3>2
      <4>3. h[k].of = q /\ h[k].from = meet(kept) /\ h[k - 1].of = old[kept].of
        BY <3>1, <3>2, <1>8
      <4> QED
        BY <4>1, <4>2, <4>3, <1>8
  <2> QED
    BY <2>1, <2>2
<1>11. ASSUME NEW k \in 3..Len(h) PROVE Before(h[k - 1].from, h[k].from)
  <2>1. CASE k <= kept
    <3>1. k \in 3..Len(old) /\ h[k] = old[k] /\ h[k - 1] = old[k - 1]
      BY <1>1, <1>4, <1>7, <2>1
    <3> QED
      BY <3>1, <1>1
  <2>2. CASE ~(k <= kept)
    <3>1. k = kept + 1 /\ k - 1 = kept /\ kept \in 1..kept /\ kept >= 2
      BY <1>4, <1>7, <2>2
    <3> HIDE DEF meet
    <3> QED
      BY <3>1, <1>4, <1>7, <1>8
  <2> QED
    BY <2>1, <2>2
<1>12. ASSUME NEW v \in 0..q, NEW x \in Int
       PROVE  \E k \in 1..Len(h) : Arch(value, h[k].of, x) <= Arch(value, v, x)
  <2>0. Arch(value, v, x) \in Int /\ kept + 1 \in 1..Len(h) /\ \A j \in 1..kept : j \in 1..Len(h)
    BY <1>4, <1>7 DEF Arch
  <2>1. CASE v = q
    BY <2>0, <2>1, <1>8
  <2>2. CASE v # q
    <3>1. PICK k \in 1..Len(old) : Arch(value, old[k].of, x) <= Arch(value, v, x)
      <4>1. v \in 0..q - 1
        BY <2>2
      <4> QED
        BY <4>1, <1>2
    <3>2. Covered(k, x)
      BY <1>6
    <3>3. Arch(value, old[k].of, x) \in Int /\ Arch(value, q, x) \in Int
      BY <1>5
    <3>4. \A j \in 1..kept : Arch(value, old[j].of, x) \in Int /\ h[j] = old[j]
      BY <1>b, <1>d, <1>7
    <3>5. CASE Arch(value, q, x) <= Arch(value, old[k].of, x)
      BY <2>0, <3>1, <3>3, <3>5, <1>8
    <3>6. CASE \E j \in 1..kept : Arch(value, old[j].of, x) <= Arch(value, old[k].of, x)
      <4>1. PICK j \in 1..kept : Arch(value, old[j].of, x) <= Arch(value, old[k].of, x)
        BY <3>6
      <4>2. j \in 1..Len(h) /\ Arch(value, h[j].of, x) <= Arch(value, v, x)
        BY SMTT(30), <4>1, <2>0, <3>1, <3>3, <3>4
      <4> QED
        BY <4>2
    <3> QED
      BY <3>2, <3>5, <3>6
  <2> QED
    BY <2>1, <2>2
<1>13. h # <<>> /\ h[Len(h)].of = q
  BY <1>4, <1>7, <1>8
<1>14. IsEnvelope(value, h, q)
  BY <1>7, <1>9, <1>10, <1>11, <1>12, <1>13 DEF IsEnvelope
<1> QED
  BY <1>14 DEF TakenOver, h, kept, stays, meet

(* The two recursions, over points and over rings, and the function each    *)
(* chooses.                                                                 *)
Stepped(what, arg, acc, n) ==
  IF what = "hull" THEN TakenOver(arg, acc, n) ELSE Searched(acc, n, arg)

StepsTo(h, what, arg, base, n) ==
  h = [k \in 0..n |-> IF k = 0 THEN base ELSE Stepped(what, arg, h[k - 1], k)]

(* The function exists, by induction over its domain.                      *)
LEMMA StepsExist ==
  ASSUME NEW what, NEW arg, NEW base
  PROVE  \A n \in Nat : \E h : StepsTo(h, what, arg, base, n)
<1> DEFINE Has == {n \in Nat : \E h : StepsTo(h, what, arg, base, n)}
<1>1. 0 \in Has
  <2> DEFINE h == [k \in 0..0 |-> base]
  <2>1. \A k \in 0..0 : k = 0
    OBVIOUS
  <2>2. StepsTo(h, what, arg, base, 0)
    BY <2>1 DEF StepsTo
  <2> QED
    BY <2>2
<1>2. ASSUME NEW n \in Nat, n \in Has PROVE n + 1 \in Has
  <2>1. PICK h : StepsTo(h, what, arg, base, n)
    BY <1>2
  <2> DEFINE step(k, g) == IF k = 0 THEN base ELSE Stepped(what, arg, g, k)
             f == [k \in 0..n + 1 |-> IF k \in 0..n THEN h[k] ELSE step(k, h[n])]
  <2>2. \A k \in 0..n : h[k] = step(k, h[k - 1])
    BY <2>1 DEF StepsTo
  <2>3. ASSUME NEW k \in 0..n + 1 PROVE f[k] = step(k, f[k - 1])
    <3>1. CASE k = 0
      BY <2>2, <3>1
    <3>2. CASE k \in 1..n
      <4>1. k \in 0..n /\ k - 1 \in 0..n /\ k - 1 \in 0..n + 1
        BY <3>2
      <4>2. f[k] = h[k] /\ f[k - 1] = h[k - 1]
        BY <4>1
      <4> HIDE DEF f, step
      <4> QED
        BY <2>2, <4>1, <4>2
    <3>3. CASE k = n + 1
      <4>1. k - 1 = n /\ n \in 0..n /\ n \in 0..n + 1 /\ k \notin 0..n
        BY <3>3
      <4>2. f[k] = step(k, h[n]) /\ f[k - 1] = h[n]
        BY <4>1
      <4> HIDE DEF f, step
      <4> QED
        BY <4>2
    <3> QED
      BY <3>1, <3>2, <3>3
  <2>4. f = [k \in 0..n + 1 |-> f[k]]
    OBVIOUS
  <2>5. f = [k \in 0..n + 1 |-> step(k, f[k - 1])]
    <3> HIDE DEF f, step
    <3>1. [k \in 0..n + 1 |-> f[k]] = [k \in 0..n + 1 |-> step(k, f[k - 1])]
      BY <2>3
    <3> QED
      BY <2>4, <3>1
  <2>6. StepsTo(f, what, arg, base, n + 1)
    <3> HIDE DEF f
    <3> QED
      BY <2>5 DEF StepsTo
  <2> HIDE DEF f
  <2> QED
    BY <2>6
<1> HIDE DEF Has
<1>3. Nat \subseteq Has
  BY <1>1, <1>2, InductionOnNat
<1> QED
  BY <1>3 DEF Has

(* The envelope of the code is the envelope of all parabolas.              *)
LEMMA EnvelopeIs ==
  ASSUME NEW n \in Nat, NEW value \in [0..n -> Int]
  PROVE  IsEnvelope(value, Envelope(value), n)
<1> DEFINE first == <<[of |-> 0]>>
           h == CHOOSE g : StepsTo(g, "hull", value, first, n)
<1>1. StepsTo(h, "hull", value, first, n)
  BY StepsExist
<1>2. Max(DOMAIN value) = n
  <2>1. DOMAIN value = 0..n /\ n \in 0..n /\ \A k \in 0..n : k <= n
    OBVIOUS
  <2>2. Max(0..n) \in 0..n /\ n <= Max(0..n)
    BY <2>1, MaxIs
  <2> QED
    BY <2>1, <2>2
<1>3. Envelope(value) = h[n]
  <2>1. DOMAIN value = 0..n
    OBVIOUS
  <2> QED
    BY <1>2, <2>1 DEF Envelope, StepsTo, Stepped
<1> HIDE DEF h
<1>4. \A q \in 0..n : h[q] = IF q = 0 THEN <<[of |-> 0]>> ELSE TakenOver(value, h[q - 1], q)
  BY <1>1 DEF StepsTo, Stepped
<1> DEFINE Fits == {q \in Nat : q <= n => IsEnvelope(value, h[q], q)}
<1>5. 0 \in Fits
  <2>1. 0 \in 0..n /\ value[0] \in Int
    OBVIOUS
  <2> QED
    BY <1>4, <2>1, FirstEnvelope
<1>6. ASSUME NEW q \in Nat, q \in Fits PROVE q + 1 \in Fits
  <2>1. SUFFICES ASSUME q + 1 <= n PROVE IsEnvelope(value, h[q + 1], q + 1)
    OBVIOUS
  <2>2. IsEnvelope(value, h[q], (q + 1) - 1)
    BY <1>6, <2>1
  <2>3. q + 1 \in Nat \ {0} /\ q + 1 \in 0..n /\ \A v \in 0..q + 1 : value[v] \in Int
    BY <2>1
  <2>4. h[q + 1] = TakenOver(value, h[q], q + 1)
    BY <1>4, <2>3
  <2> QED
    BY <2>2, <2>3, <2>4, NextEnvelope
<1> HIDE DEF Fits
<1>7. n \in Fits
  BY <1>5, <1>6, InductionOnNat
<1> QED
  BY <1>3, <1>7 DEF Fits

(* The last piece that has taken over before a point is lowest there: the  *)
(* pieces fall towards it from the left and rise from it to the right.     *)
LEMMA RulerIsLowest ==
  ASSUME NEW n \in Nat, NEW value \in [0..n -> Int], NEW h, IsEnvelope(value, h, n), NEW x \in Int,
         NEW r, r = Max({1} \cup {k \in 2..Len(h) : Before(h[k].from, [num |-> x, den |-> 1])})
  PROVE  /\ r \in 1..Len(h) /\ h[r].of \in 0..n
         /\ \A v \in 0..n : Arch(value, h[r].of, x) <= Arch(value, v, x)
<1> DEFINE point == [num |-> x, den |-> 1]
           over == {1} \cup {k \in 2..Len(h) : Before(h[k].from, point)}
           A(k) == Arch(value, h[k].of, x)
<1>1. h \in Seq(Piece) /\ Len(h) \in Nat \ {0} /\ \A k \in 1..Len(h) : h[k].of \in 0..n
  BY EmptySeq DEF IsEnvelope
<1>2. \A k \in 2..Len(h) : /\ h[k].from \in Bend
                           /\ h[k - 1].of < h[k].of
                           /\ h[k].from = Crossing(value, h[k].of, h[k - 1].of)
  BY DEF IsEnvelope
<1>3. \A k \in 3..Len(h) : Before(h[k - 1].from, h[k].from)
  BY DEF IsEnvelope
<1>4. \A v \in 0..n : \E k \in 1..Len(h) : A(k) <= Arch(value, v, x)
  BY DEF IsEnvelope
<1>5. \A v \in 0..n : Arch(value, v, x) \in Int
  BY DEF Arch
<1>6. \A k \in 1..Len(h) : A(k) \in Int
  BY <1>1, <1>5
<1>7. r \in over /\ \A k \in over : k <= r
  <2>1. over \in SUBSET (0..Len(h)) /\ over # {}
    BY <1>1
  <2> HIDE DEF over
  <2> QED
    BY <1>1, <2>1, MaxIs DEF over
<1>8. r \in 1..Len(h)
  BY <1>1, <1>7
(* Of two neighbours, the one whose side the point is on.                  *)
<1>9. ASSUME NEW k \in 2..Len(h)
      PROVE  /\ Before(h[k].from, point) => A(k) <= A(k - 1)
             /\ ~Before(h[k].from, point) => A(k - 1) <= A(k)
             /\ h[k].from.num \in Int /\ h[k].from.den \in Nat \ {0}
             /\ Before(h[k].from, point) <=> h[k].from.num < x * h[k].from.den
  <2>1. PICK v \in Nat, u \in Nat : /\ v = h[k].of /\ u = h[k - 1].of /\ u < v /\ v \in 0..n /\ u \in 0..n
    <3>1. k \in 1..Len(h) /\ k - 1 \in 1..Len(h)
      BY <1>1
    <3>2. h[k].of \in 0..n /\ h[k - 1].of \in 0..n /\ h[k - 1].of < h[k].of
      BY <3>1, <1>1, <1>2
    <3> QED
      BY <3>2
  <2>2. PICK f \in Bend : f = h[k].from /\ f = Crossing(value, v, u)
    BY <1>2, <2>1
  <2>3. value[v] \in Int /\ value[u] \in Int
    BY <2>1
  <2>4. /\ f.num <= x * f.den <=> Arch(value, v, x) <= Arch(value, u, x)
        /\ x * f.den <= f.num <=> Arch(value, u, x) <= Arch(value, v, x)
    BY <2>1, <2>2, <2>3, CrossingParts
  <2>5. f.num \in Int /\ f.den \in Nat \ {0} /\ x * f.den \in Int
    BY <2>2 DEF Bend
  <2>6. Before(f, point) <=> f.num < x * f.den
    BY <2>2, BeforeOrder DEF Bend
  <2> HIDE DEF point
  <2> QED
    BY SMTT(30), <2>1, <2>2, <2>4, <2>5, <2>6
<1>10. ASSUME NEW k \in 2..Len(h), k <= r PROVE Before(h[k].from, point)
  <2> DEFINE Fits == {d \in Nat : r - d >= 2 => Before(h[r - d].from, point)}
  <2>1. 0 \in Fits
    <3>1. r >= 2 => Before(h[r].from, point)
      BY <1>7, <1>8
    <3> HIDE DEF point
    <3> QED
      BY <1>8, <3>1
  <2>2. ASSUME NEW d \in Nat, d \in Fits PROVE d + 1 \in Fits
    <3>1. SUFFICES ASSUME r - (d + 1) >= 2 PROVE Before(h[r - (d + 1)].from, point)
      OBVIOUS
    <3> DEFINE m == r - d
    <3>2. m \in 3..Len(h) /\ m \in 2..Len(h) /\ m - 1 \in 2..Len(h) /\ m - 1 = r - (d + 1) /\ r - d >= 2
      BY <1>8, <1>1, <3>1
    <3>3. Before(h[m].from, point) /\ Before(h[m - 1].from, h[m].from)
      BY <2>2, <3>2, <1>3
    <3>4. h[m].from \in Bend /\ h[m - 1].from \in Bend
      BY <3>2, <1>2
    <3> HIDE DEF m
    <3>5. h[m].from.num < x * h[m].from.den
      BY <3>2, <3>3, <1>9
    <3>6. h[m - 1].from.num < x * h[m - 1].from.den
      BY <3>3, <3>4, <3>5, BeforeOrder DEF Bend
    <3> HIDE DEF point
    <3> QED
      BY <3>2, <3>6, <1>9
  <2> HIDE DEF Fits
  <2>3. r - k \in Fits
    <3>1. r - k \in Nat
      BY <1>8, <1>10
    <3> QED
      BY <2>1, <2>2, <3>1, InductionOnNat
  <2> QED
    BY <1>8, <1>10, <2>3 DEF Fits
<1>11. ASSUME NEW k \in 2..Len(h), k > r PROVE ~Before(h[k].from, point)
  <2>1. SUFFICES ASSUME Before(h[k].from, point) PROVE FALSE
    OBVIOUS
  <2>2. k \in over
    BY <2>1
  <2> QED
    BY <2>2, <1>7, <1>8, <1>11
(* To the right the pieces rise, and to the left.                          *)
<1>12. \A k \in 1..Len(h) : k >= r => A(r) <= A(k)
  <2> DEFINE Fits == {d \in Nat : r + d <= Len(h) => A(r) <= A(r + d)}
  <2>1. 0 \in Fits
    BY <1>6, <1>8
  <2>2. ASSUME NEW d \in Nat, d \in Fits PROVE d + 1 \in Fits
    <3>1. SUFFICES ASSUME r + (d + 1) <= Len(h) PROVE A(r) <= A(r + (d + 1))
      OBVIOUS
    <3> DEFINE m == r + (d + 1)
    <3>2. m \in 2..Len(h) /\ m > r /\ m \in 1..Len(h) /\ m - 1 \in 1..Len(h) /\ m - 1 = r + d /\ r + d <= Len(h)
      BY <1>8, <1>1, <3>1
    <3> HIDE DEF m, A
    <3>3. A(m - 1) <= A(m)
      BY <3>2, <1>9, <1>11
    <3>4. A(r) <= A(m - 1)
      BY <2>2, <3>2
    <3>5. A(r) \in Int /\ A(m - 1) \in Int /\ A(m) \in Int
      BY <1>6, <1>8, <3>2
    <3>6. A(r) <= A(m)
      BY <3>3, <3>4, <3>5
    <3> QED
      BY <3>6 DEF m
  <2> HIDE DEF Fits, A
  <2>3. ASSUME NEW k \in 1..Len(h), k >= r PROVE A(r) <= A(k)
    <3>1. k - r \in Nat /\ r + (k - r) = k
      BY <1>8, <2>3
    <3>2. k - r \in Fits
      BY <2>1, <2>2, <3>1, InductionOnNat
    <3>3. k <= Len(h)
      OBVIOUS
    <3> QED
      BY <3>1, <3>2, <3>3 DEF Fits
  <2> QED
    BY <2>3
<1>13. \A k \in 1..Len(h) : k <= r => A(r) <= A(k)
  <2> DEFINE Fits == {d \in Nat : r - d >= 1 => A(r) <= A(r - d)}
  <2>1. 0 \in Fits
    BY <1>6, <1>8
  <2>2. ASSUME NEW d \in Nat, d \in Fits PROVE d + 1 \in Fits
    <3>1. SUFFICES ASSUME r - (d + 1) >= 1 PROVE A(r) <= A(r - (d + 1))
      OBVIOUS
    <3> DEFINE m == r - d
    <3>2. m \in 2..Len(h) /\ m <= r /\ m \in 1..Len(h) /\ m - 1 \in 1..Len(h) /\ m - 1 = r - (d + 1) /\ r - d >= 1
      BY <1>8, <1>1, <3>1
    <3>4. A(r) <= A(m)
      BY <2>2, <3>2
    <3> HIDE DEF m, A
    <3>3. A(m) <= A(m - 1)
      BY <3>2, <1>9, <1>10
    <3>5. A(r) \in Int /\ A(m - 1) \in Int /\ A(m) \in Int
      BY <1>6, <1>8, <3>2
    <3>6. A(r) <= A(m - 1)
      BY <3>3, <3>4, <3>5
    <3> QED
      BY <3>2, <3>6
  <2> HIDE DEF Fits, A
  <2>3. ASSUME NEW k \in 1..Len(h), k <= r PROVE A(r) <= A(k)
    <3>1. r - k \in Nat /\ r - (r - k) = k /\ k >= 1
      BY <1>8, <2>3
    <3>2. r - k \in Fits
      BY <2>1, <2>2, <3>1, InductionOnNat
    <3> QED
      BY <3>1, <3>2 DEF Fits
  <2> QED
    BY <2>3
<1>14. ASSUME NEW v \in 0..n PROVE A(r) <= Arch(value, v, x)
  <2>1. PICK k \in 1..Len(h) : A(k) <= Arch(value, v, x)
    BY <1>4
  <2> HIDE DEF A
  <2>2. A(r) <= A(k)
    BY <1>8, <1>12, <1>13
  <2>3. A(r) \in Int /\ A(k) \in Int /\ Arch(value, v, x) \in Int
    BY <1>5, <1>6, <1>8
  <2> QED
    BY <2>1, <2>2, <2>3
<1> QED
  BY <1>1, <1>8, <1>14

(* The transform finds the lowest parabola at every point.                 *)
LEMMA TransformIs ==
  ASSUME NEW n \in Nat, NEW value \in [0..n -> Int]
  PROVE  /\ Transform(value) \in [0..n -> Int]
         /\ \A x \in 0..n :
              /\ \E v \in 0..n : Transform(value)[x] = Arch(value, v, x)
              /\ \A v \in 0..n : Transform(value)[x] <= Arch(value, v, x)
<1> DEFINE hull == Envelope(value)
           over(x) == {1} \cup {k \in 2..Len(hull) : Before(hull[k].from, [num |-> x, den |-> 1])}
           at(x) == LET v == hull[Max(over(x))].of IN (x - v) * (x - v) + value[v]
<1>1. IsEnvelope(value, hull, n)
  BY EnvelopeIs
<1>2. Transform(value) = [x \in 0..n |-> at(x)]
  <2>1. DOMAIN value = 0..n
    OBVIOUS
  <2> QED
    BY <2>1 DEF Transform
<1>3. ASSUME NEW x \in 0..n
      PROVE  at(x) \in Int /\ \E v \in 0..n : /\ at(x) = Arch(value, v, x)
                                              /\ \A u \in 0..n : at(x) <= Arch(value, u, x)
  <2> DEFINE r == Max(over(x))
  <2>1. x \in Int
    OBVIOUS
  <2> HIDE DEF hull
  <2>2. /\ hull[r].of \in 0..n
        /\ \A v \in 0..n : Arch(value, hull[r].of, x) <= Arch(value, v, x)
    BY <1>1, <2>1, RulerIsLowest
  <2>3. at(x) = Arch(value, hull[r].of, x)
    BY DEF Arch
  <2>4. Arch(value, hull[r].of, x) \in Int
    <3>1. PICK v \in 0..n : v = hull[r].of
      BY <2>2
    <3>2. Arch(value, v, x) \in Int
      BY <2>1 DEF Arch
    <3> QED
      BY <3>1, <3>2
  <2> HIDE DEF at, r
  <2> QED
    BY <2>2, <2>3, <2>4
<1> HIDE DEF at
<1> QED
  BY <1>2, <1>3

(* Squares grow with the size, and are not negative.                       *)
LEMMA SquareGrows ==
  ASSUME NEW d \in Int, NEW w \in Nat, -w <= d, d <= w
  PROVE  d * d \in Nat /\ d * d <= w * w
<1>1. CASE d >= 0
  <2>1. d \in Nat /\ d * d <= d * w /\ d * w <= w * w
    BY <1>1
  <2> QED
    BY <2>1
<1>2. CASE d < 0
  <2>1. PICK e \in Nat : d = -e /\ e <= w
    <3>1. -d \in Nat /\ d = -(-d) /\ -d <= w
      BY <1>2
    <3> QED
      BY <3>1
  <2>2. d * d = e * e /\ e * e <= e * w /\ e * w <= w * w
    BY <2>1
  <2> QED
    BY <2>1, <2>2
<1> QED
  BY <1>1, <1>2

LEMMA SquareIsNat == \A e \in Int : e * e \in Nat
<1> TAKE e \in Int
<1> DEFINE w == IF e < 0 THEN -e ELSE e
<1>1. w \in Nat /\ -w <= e /\ e <= w
  OBVIOUS
<1> QED
  BY <1>1, SquareGrows

(* The squared distance of a point from the middle of a cell.              *)
LEMMA ApartIs ==
  ASSUME NEW p \in Int \X Int, NEW c \in Cells
  PROVE  Apart(Centre(c), p) \in Nat
<1>1. PICK x \in Int, y \in Int, a \in Int, b \in Int : p = <<x, y>> /\ c = <<a, b>>
  BY PlaneAssumption DEF Cells
<1>2. Apart(Centre(c), p) = ((2 * a + 1) - x) * ((2 * a + 1) - x) + ((2 * b + 1) - y) * ((2 * b + 1) - y)
  BY <1>1 DEF Apart, Centre
<1>3. (2 * a + 1) - x \in Int /\ (2 * b + 1) - y \in Int
  OBVIOUS
<1>4. ((2 * a + 1) - x) * ((2 * a + 1) - x) \in Nat /\ ((2 * b + 1) - y) * ((2 * b + 1) - y) \in Nat
  BY <1>3, SquareIsNat
<1>5. \A i, j \in Nat : i + j \in Nat
  OBVIOUS
<1> QED
  BY <1>2, <1>4, <1>5

(* What Max and Min of the library come to.                                *)
LEMMA MaxOf ==
  ASSUME NEW S, NEW m \in S, S \subseteq Int, \A k \in S : k <= m
  PROVE  Max(S) = m
<1>1. Max(S) \in S /\ \A k \in S : k <= Max(S)
  BY DEF Max
<1>2. Max(S) <= m /\ m <= Max(S) /\ m \in Int /\ Max(S) \in Int
  BY <1>1
<1> QED
  BY <1>2

LEMMA MinIs ==
  ASSUME NEW S, NEW m \in S, S \subseteq Int, \A k \in S : m <= k
  PROVE  Min(S) = m
<1>1. Min(S) \in S /\ \A k \in S : Min(S) <= k
  BY DEF Min
<1>2. Min(S) <= m /\ m <= Min(S) /\ m \in Int /\ Min(S) \in Int
  BY <1>1
<1> QED
  BY <1>2

(* The squared distance between two cells, in whole cells, and what the    *)
(* second starts from.                                                     *)
Reach(mask, x, y, i, j) == (x - i) * (x - i) + ((y - j) * (y - j) + Given(mask, <<i, j>>))

Pass(mask, x, y) ==
  LET column == [i \in 0..Width - 1 |-> Transform([j \in 0..Height - 1 |-> Given(mask, <<i, j>>)])]
  IN  Transform([i \in 0..Width - 1 |-> column[i][y]])[x]

(* Both passes together: the least over all cells.                         *)
LEMMA PassIs ==
  ASSUME NEW mask, NEW x \in 0..Width - 1, NEW y \in 0..Height - 1
  PROVE  /\ Pass(mask, x, y) \in Int
         /\ \E i \in 0..Width - 1, j \in 0..Height - 1 : Pass(mask, x, y) = Reach(mask, x, y, i, j)
         /\ \A i \in 0..Width - 1, j \in 0..Height - 1 : Pass(mask, x, y) <= Reach(mask, x, y, i, j)
<1> DEFINE w == Width - 1
           h == Height - 1
           start(i) == [j \in 0..h |-> Given(mask, <<i, j>>)]
           column == [i \in 0..w |-> Transform(start(i))]
           row == [i \in 0..w |-> column[i][y]]
<1>1. w \in Nat /\ h \in Nat /\ Big \in Int
  BY PlaneAssumption, ClearanceAssumption
<1>2. \A i, j : Given(mask, <<i, j>>) \in Int
  BY <1>1 DEF Given
<1>3. \A i \in 0..w : start(i) \in [0..h -> Int]
  BY <1>2
<1>4. \A i \in 0..w : /\ row[i] \in Int
                      /\ \E j \in 0..h : row[i] = (y - j) * (y - j) + Given(mask, <<i, j>>)
                      /\ \A j \in 0..h : row[i] <= (y - j) * (y - j) + Given(mask, <<i, j>>)
  <2> SUFFICES ASSUME NEW i \in 0..w
               PROVE  /\ row[i] \in Int
                      /\ \E j \in 0..h : row[i] = (y - j) * (y - j) + Given(mask, <<i, j>>)
                      /\ \A j \in 0..h : row[i] <= (y - j) * (y - j) + Given(mask, <<i, j>>)
    OBVIOUS
  <2>1. row[i] = Transform(start(i))[y]
    OBVIOUS
  <2>2. \A j \in 0..h : Arch(start(i), j, y) = (y - j) * (y - j) + Given(mask, <<i, j>>)
    BY DEF Arch
  <2>3. start(i) \in [0..h -> Int]
    BY <1>3
  <2>4. y \in 0..h
    OBVIOUS
  <2> HIDE DEF start, row, h
  <2>5. /\ Transform(start(i)) \in [0..h -> Int]
        /\ \E j \in 0..h : Transform(start(i))[y] = Arch(start(i), j, y)
        /\ \A j \in 0..h : Transform(start(i))[y] <= Arch(start(i), j, y)
    BY <1>1, <2>3, <2>4, TransformIs
  <2> QED
    BY <2>1, <2>2, <2>4, <2>5
<1>5. row \in [0..w -> Int]
  BY <1>4
<1>6. Pass(mask, x, y) = Transform(row)[x]
  BY DEF Pass
<1>7. x \in 0..w
  OBVIOUS
<1> HIDE DEF row, w
<1>8. /\ Transform(row) \in [0..w -> Int]
      /\ \E i \in 0..w : Transform(row)[x] = Arch(row, i, x)
      /\ \A i \in 0..w : Transform(row)[x] <= Arch(row, i, x)
  BY <1>1, <1>5, <1>7, TransformIs
<1>9. Pass(mask, x, y) \in Int
  BY <1>6, <1>7, <1>8
<1>10. \E i \in 0..w, j \in 0..h : Pass(mask, x, y) = Reach(mask, x, y, i, j)
  <2>1. PICK i \in 0..w : Transform(row)[x] = (x - i) * (x - i) + row[i]
    BY <1>8 DEF Arch
  <2>2. PICK j \in 0..h : row[i] = (y - j) * (y - j) + Given(mask, <<i, j>>)
    BY <1>4
  <2>3. Pass(mask, x, y) = Reach(mask, x, y, i, j)
    BY <1>6, <2>1, <2>2 DEF Reach
  <2> QED
    BY <2>3
<1>11. ASSUME NEW i \in 0..w, NEW j \in 0..h PROVE Pass(mask, x, y) <= Reach(mask, x, y, i, j)
  <2> DEFINE a == (x - i) * (x - i)
             b == (y - j) * (y - j) + Given(mask, <<i, j>>)
  <2>1. a \in Int /\ b \in Int
    BY <1>1, <1>2 DEF w
  <2>2. Pass(mask, x, y) <= a + row[i]
    BY <1>6, <1>8 DEF Arch
  <2>3. row[i] <= b /\ row[i] \in Int
    BY <1>4
  <2> HIDE DEF a, b
  <2>4. Pass(mask, x, y) <= a + b
    BY <1>9, <2>1, <2>2, <2>3
  <2> QED
    BY <2>4 DEF Reach, a, b
<1> QED
  BY <1>9, <1>10, <1>11 DEF w, h

(* The distance derived from a mask is that to its nearest cell, and a     *)
(* column without obstacles never wins, for Big is beyond the map.         *)
LEMMA FromMaskIs ==
  ASSUME NEW mask, mask \subseteq Cells
  PROVE  /\ DOMAIN FromMask(mask) = Cells
         /\ \A c \in Cells : FromMask(mask)[c] = Exact(mask, c) /\ Exact(mask, c) \in Nat
<1>1. Width \in Nat \ {0} /\ Height \in Nat \ {0} /\ Big \in Nat /\ Width * Width + Height * Height <= Big
  BY PlaneAssumption, ClearanceAssumption
<1>2. ASSUME NEW c \in Cells PROVE FromMask(mask)[c] = 4 * Pass(mask, c[1], c[2])
  <2>1. c[1] \in 0..Width - 1 /\ c[2] \in 0..Height - 1
    BY DEF Cells
  <2> QED
    BY <2>1 DEF FromMask, Pass
<1>3. ASSUME NEW c \in Cells PROVE 4 * Pass(mask, c[1], c[2]) = Exact(mask, c) /\ Exact(mask, c) \in Nat
  <2>1. PICK x \in 0..Width - 1, y \in 0..Height - 1 : c = <<x, y>>
    BY DEF Cells
  <2> DEFINE t == Pass(mask, x, y)
  <2>2. PICK i \in 0..Width - 1, j \in 0..Height - 1 : t = Reach(mask, x, y, i, j)
    BY PassIs
  <2>3. /\ t \in Int
        /\ \A u \in 0..Width - 1, v \in 0..Height - 1 : t <= Reach(mask, x, y, u, v)
    BY PassIs
  <2>4. ASSUME NEW u \in 0..Width - 1, NEW v \in 0..Height - 1
        PROVE  /\ (x - u) * (x - u) \in Nat /\ (x - u) * (x - u) <= Width * Width - 1
               /\ (y - v) * (y - v) \in Nat /\ (y - v) * (y - v) <= Height * Height - 1
    <3>1. /\ x - u \in Int /\ Width - 1 \in Nat /\ -(Width - 1) <= x - u /\ x - u <= Width - 1
          /\ y - v \in Int /\ Height - 1 \in Nat /\ -(Height - 1) <= y - v /\ y - v <= Height - 1
      BY <1>1
    <3>2. /\ (x - u) * (x - u) \in Nat /\ (x - u) * (x - u) <= (Width - 1) * (Width - 1)
          /\ (y - v) * (y - v) \in Nat /\ (y - v) * (y - v) <= (Height - 1) * (Height - 1)
      BY <3>1, SquareGrows
    <3>3. \A n \in Nat \ {0} : (n - 1) * (n - 1) \in Nat /\ n * n \in Nat /\ (n - 1) * (n - 1) <= n * n - 1
      <4> TAKE n \in Nat \ {0}
      <4>1. (n - 1) * (n - 1) = n * n - 2 * n + 1 /\ n >= 1
        OBVIOUS
      <4> QED
        BY <4>1
    <3>4. /\ (Width - 1) * (Width - 1) \in Nat /\ Width * Width \in Nat /\ (Width - 1) * (Width - 1) <= Width * Width - 1
          /\ (Height - 1) * (Height - 1) \in Nat /\ Height * Height \in Nat /\ (Height - 1) * (Height - 1) <= Height * Height - 1
      BY <1>1, <3>3
    <3> DEFINE a == (x - u) * (x - u)
               b == (y - v) * (y - v)
               e == (Width - 1) * (Width - 1)
               f == (Height - 1) * (Height - 1)
               g == Width * Width
               k == Height * Height
    <3>5. a \in Nat /\ a <= e /\ e \in Nat /\ e <= g - 1 /\ b \in Nat /\ b <= f /\ f \in Nat /\ f <= k - 1 /\ g \in Nat /\ k \in Nat
      BY <3>2, <3>4
    <3> HIDE DEF a, b, e, f, g, k
    <3>6. a \in Nat /\ a <= g - 1 /\ b \in Nat /\ b <= k - 1
      BY <3>5
    <3> QED
      BY <3>6 DEF a, b, g, k
  <2> DEFINE D(u, v) == (x - u) * (x - u) + (y - v) * (y - v)
  <2>5. \A u \in 0..Width - 1, v \in 0..Height - 1 :
          /\ D(u, v) \in Nat /\ D(u, v) < Big
          /\ Reach(mask, x, y, u, v) = D(u, v) + Given(mask, <<u, v>>)
    <3> SUFFICES ASSUME NEW u \in 0..Width - 1, NEW v \in 0..Height - 1
                 PROVE  /\ D(u, v) \in Nat /\ D(u, v) < Big
                        /\ Reach(mask, x, y, u, v) = D(u, v) + Given(mask, <<u, v>>)
      OBVIOUS
    <3> DEFINE a == (x - u) * (x - u)
               b == (y - v) * (y - v)
               g == Width * Width
               k == Height * Height
               n == Given(mask, <<u, v>>)
    <3>1. a \in Nat /\ a <= g - 1 /\ b \in Nat /\ b <= k - 1
      BY <2>4
    <3>2. g \in Nat /\ k \in Nat /\ Big \in Nat /\ g + k <= Big /\ n \in Nat
      BY <1>1 DEF Given
    <3>3. Reach(mask, x, y, u, v) = a + (b + n) /\ D(u, v) = a + b
      BY DEF Reach
    <3> HIDE DEF a, b, g, k, n, D
    <3>4. D(u, v) \in Nat /\ D(u, v) < Big /\ Reach(mask, x, y, u, v) = D(u, v) + n
      BY <3>1, <3>2, <3>3
    <3> QED
      BY <3>4 DEF n
  <2> HIDE DEF D, t
  <2>a. D(i, j) \in Nat /\ D(i, j) < Big /\ t = D(i, j) + Given(mask, <<i, j>>)
    BY <2>2, <2>5
  <2>b. \A u \in 0..Width - 1, v \in 0..Height - 1 :
          D(u, v) \in Nat /\ D(u, v) < Big /\ t <= D(u, v) + Given(mask, <<u, v>>)
    BY <2>3, <2>5
  <2>c. \A k \in Nat : k + 0 = k
    OBVIOUS
  <2>6. CASE mask = {}
    <3>1. \A k : Given(mask, k) = Big
      BY <2>6 DEF Given
    <3>2. t >= Big
      BY <1>1, <2>3, <2>a, <3>1
    <3>3. D(x, y) = 0
      BY DEF D
    <3>4. t <= Big
      <4>1. t <= D(x, y) + Big
        <5>1. t <= D(x, y) + Given(mask, <<x, y>>)
          BY <2>b
        <5>2. Given(mask, <<x, y>>) = Big
          BY <3>1
        <5> QED
          BY <5>1, <5>2
      <4> QED
        BY <1>1, <4>1, <3>3
    <3>5. t = Big
      BY <1>1, <2>3, <3>2, <3>4
    <3>6. Exact(mask, c) = 4 * Big
      BY <2>6 DEF Exact
    <3>7. c[1] = x /\ c[2] = y
      BY <2>1
    <3> QED
      BY <1>1, <3>5, <3>6, <3>7 DEF t
  <2>7. CASE mask # {}
    <3>1. PICK u \in 0..Width - 1, v \in 0..Height - 1 : <<u, v>> \in mask
      BY <2>7 DEF Cells
    <3>2. t < Big
      <4>1. t <= D(u, v) + 0
        BY <2>3, <2>5, <3>1 DEF Given
      <4> QED
        <5>1. D(u, v) \in Nat /\ D(u, v) < Big
          BY <2>b
        <5> QED
          BY <1>1, <2>3, <4>1, <5>1
    <3>3. <<i, j>> \in mask
      <4>1. SUFFICES ASSUME <<i, j>> \notin mask PROVE FALSE
        OBVIOUS
      <4>2. t = D(i, j) + Big
        BY <2>2, <2>5, <4>1 DEF Given
      <4> QED
        BY <1>1, <2>3, <2>a, <3>2, <4>2
    <3>4. t = D(i, j) /\ t \in Nat
      <4>1. t = D(i, j) + 0
        BY <2>2, <2>5, <3>3 DEF Given
      <4> QED
        BY <2>a, <2>c, <4>1
    <3> DEFINE S == {Apart(Centre(c), Centre(d)) : d \in mask}
    <3>5. ASSUME NEW a \in 0..Width - 1, NEW b \in 0..Height - 1
          PROVE  Apart(Centre(c), Centre(<<a, b>>)) = 4 * D(a, b)
      <4>1. Centre(c) = <<2 * x + 1, 2 * y + 1>> /\ Centre(<<a, b>>) = <<2 * a + 1, 2 * b + 1>>
        BY <2>1 DEF Centre
      <4>2. Apart(Centre(c), Centre(<<a, b>>)) =
              ((2 * x + 1) - (2 * a + 1)) * ((2 * x + 1) - (2 * a + 1))
                + ((2 * y + 1) - (2 * b + 1)) * ((2 * y + 1) - (2 * b + 1))
        BY <4>1 DEF Apart
      <4>3. (2 * x + 1) - (2 * a + 1) = 2 * (x - a) /\ (2 * y + 1) - (2 * b + 1) = 2 * (y - b)
        BY <1>1
      <4>4. \A e \in Int : (2 * e) * (2 * e) = 4 * (e * e)
        OBVIOUS
      <4>5. x - a \in Int /\ y - b \in Int
        BY <1>1
      <4>6. Apart(Centre(c), Centre(<<a, b>>)) = 4 * ((x - a) * (x - a)) + 4 * ((y - b) * (y - b))
        BY <4>2, <4>3, <4>4, <4>5
      <4>7. \A e \in Int, f \in Int : 4 * e + 4 * f = 4 * (e + f)
        OBVIOUS
      <4>8. (x - a) * (x - a) \in Int /\ (y - b) * (y - b) \in Int
        BY <4>5
      <4> QED
        BY <4>6, <4>7, <4>8 DEF D
    <3>6. ASSUME NEW d \in mask
          PROVE  Apart(Centre(c), Centre(d)) \in Int /\ 4 * t <= Apart(Centre(c), Centre(d))
      <4>1. PICK a \in 0..Width - 1, b \in 0..Height - 1 : d = <<a, b>>
        BY DEF Cells
      <4>2. t <= D(a, b) + 0
        BY <2>3, <2>5, <3>6, <4>1 DEF Given
      <4>3. Apart(Centre(c), Centre(d)) = 4 * D(a, b) /\ D(a, b) \in Nat
        BY <2>5, <3>5, <4>1
      <4> QED
        BY <2>3, <4>2, <4>3
    <3>7. 4 * t \in S
      BY <3>3, <3>4, <3>5
    <3>8. Min(S) = 4 * t
      <4>1. S \subseteq Int /\ \A k \in S : 4 * t <= k
        BY <3>6
      <4> HIDE DEF S
      <4> QED
        BY <3>7, <4>1, MinIs
    <3>9. Exact(mask, c) = 4 * t
      BY <2>7, <3>8 DEF Exact
    <3>10. c[1] = x /\ c[2] = y
      BY <2>1
    <3> QED
      BY <3>4, <3>9, <3>10 DEF t
  <2> QED
    BY <2>6, <2>7
<1>4. DOMAIN FromMask(mask) = Cells
  BY DEF FromMask
<1> QED
  BY <1>2, <1>3, <1>4

(* The invariant: the mask is that of the file, and every distance is what *)
(* it says.                                                                *)
ClearInv ==
  /\ ClearTypeOK
  /\ loading = "loaded" => blocked = MaskOf(file)
  /\ DistancesAreExact

(* The masks of a file are cells of the map.                               *)
LEMMA MasksAreCells == \A f \in Files : f.mask \subseteq Cells /\ MaskOf(f) \subseteq Cells
BY ClearanceAssumption DEF MaskOf

(* Loading, from the mask or from the stored layer.                        *)
LEMMA LoadIsExact ==
  ASSUME ClearInv, Load
  PROVE  ClearInv'
<1>1. file \in Files /\ file' = file /\ loading = "due" /\ blocked \subseteq Cells /\ distance \in [Cells -> Nat]
  BY DEF ClearInv, ClearTypeOK, Load
<1>2. CASE file.chunks = {}
  <2>1. loading' = "missing" /\ blocked' = blocked /\ distance' = distance
    BY <1>2 DEF Load
  <2> QED
    BY <1>1, <2>1 DEF ClearInv, ClearTypeOK, DistancesAreExact
<1>3. CASE file.chunks # {}
  <2>1. /\ loading' = "loaded" /\ blocked' = MaskOf(file)
        /\ distance' = IF Usable(file) THEN Stored(file) ELSE FromMask(MaskOf(file))
    BY <1>3 DEF Load
  <2>2. file.mask \subseteq Cells /\ MaskOf(file) \subseteq Cells
    BY <1>1, MasksAreCells
  <2>3. /\ \A c \in Cells : Exact(file.mask, c) \in Nat
        /\ DOMAIN FromMask(MaskOf(file)) = Cells
        /\ \A c \in Cells : /\ FromMask(MaskOf(file))[c] = Exact(MaskOf(file), c)
                            /\ FromMask(MaskOf(file))[c] \in Nat
    BY <2>2, FromMaskIs
  <2>4. DistancesAreExact' /\ distance' \in [Cells -> Nat]
    <3>1. CASE Usable(file)
      <4>1. distance' = [c \in Cells |-> IF ChunkOf(c) \in file.edtChunks THEN Exact(file.mask, c) ELSE 0]
        BY <2>1, <3>1 DEF Stored
      <4>2. distance' \in [Cells -> Nat]
        BY <4>1, <2>3
      <4>3. \A c \in Cells : distance'[c] = IF ChunkOf(c) \in file.edtChunks THEN Exact(file.mask, c) ELSE 0
        BY <4>1
      <4> QED
        BY <1>1, <3>1, <4>2, <4>3 DEF DistancesAreExact, Usable
    <3>2. CASE ~Usable(file)
      <4>1. distance' = FromMask(MaskOf(file))
        BY <2>1, <3>2
      <4>2. FromMask(MaskOf(file)) = [c \in Cells |-> FromMask(MaskOf(file))[c]]
        BY DEF FromMask
      <4>3. distance' \in [Cells -> Nat]
        BY <2>3, <4>1, <4>2
      <4>4. \A c \in Cells : distance'[c] = Exact(blocked', c)
        BY <2>1, <2>3, <4>1
      <4> QED
        BY <4>3, <4>4 DEF DistancesAreExact
    <3> QED
      BY <3>1, <3>2
  <2> QED
    BY <1>1, <2>1, <2>2, <2>4 DEF ClearInv, ClearTypeOK
<1> QED
  BY <1>2, <1>3

(* Strictly inside, the cell of a point needs no clamping.                 *)
LEMMA InsideCell ==
  ASSUME NEW p \in (1..2 * Width - 1) \X (1..2 * Height - 1)
  PROVE  OnMap(p) /\ RawCell(p) \in Cells /\ CellOf(p) = RawCell(p)
<1>1. Width \in Nat \ {0} /\ Height \in Nat \ {0}
  BY PlaneAssumption
<1>2. PICK x \in 1..2 * Width - 1, y \in 1..2 * Height - 1 : p = <<x, y>>
  OBVIOUS
<1>3. x \div 2 \in 0..Width - 1 /\ y \div 2 \in 0..Height - 1
  BY <1>1
<1>4. ASSUME NEW n \in Nat \ {0}, NEW k \in 0..n - 1 PROVE Max({0, Min({n - 1, k})}) = k
  <2>1. Min({n - 1, k}) = k
    <3>1. k \in {n - 1, k} /\ {n - 1, k} \subseteq Int /\ \A m \in {n - 1, k} : k <= m
      OBVIOUS
    <3> QED
      BY <3>1, MinIs
  <2>2. Max({0, k}) \in {0, k} /\ \A m \in {0, k} : m <= Max({0, k})
    <3>1. k \in Nat /\ {0, k} \in SUBSET (0..k) /\ {0, k} # {}
      OBVIOUS
    <3> QED
      BY <3>1, MaxIs
  <2>3. Max({0, k}) = k
    BY <2>2
  <2> QED
    BY <2>1, <2>3
<1>5. OnMap(p)
  BY <1>1, <1>2 DEF OnMap
<1> QED
  BY <1>1, <1>2, <1>3, <1>4, <1>5 DEF RawCell, CellOf, Cells

(* An obstacle outside the window of the service is at the radius or       *)
(* beyond.                                                                 *)
LEMMA BeyondTheWindow ==
  ASSUME NEW p \in (1..2 * Width - 1) \X (1..2 * Height - 1), NEW c \in Cells \ Window(p)
  PROVE  ~(Apart(Centre(c), p) < SafeRadius * SafeRadius)
<1>1. Width \in Nat \ {0} /\ Height \in Nat \ {0} /\ SafeRadius \in Nat \ {0}
  BY PlaneAssumption, ClearanceAssumption
<1> DEFINE half == (SafeRadius + 1) \div 2
           reach == Max({1, half})
<1>2. half \in Nat /\ 2 * half >= SafeRadius
  BY <1>1
<1>3. reach \in Nat /\ 2 * reach >= SafeRadius
  <2>1. {1, half} \in SUBSET (0..half + 1) /\ {1, half} # {} /\ half + 1 \in Nat
    BY <1>2
  <2> HIDE DEF half
  <2>2. reach \in {1, half} /\ half <= reach
    BY <2>1, MaxIs
  <2> QED
    BY <1>1, <1>2, <2>2
<1>4. PICK x \in Int, y \in Int, a \in Int, b \in Int : p = <<x, y>> /\ c = <<a, b>>
  BY <1>1 DEF Cells
<1>5. RawCell(p) = <<x \div 2, y \div 2>>
  BY <1>4 DEF RawCell
<1> HIDE DEF reach, half
<1>6. ~(Size(a - (x \div 2)) <= reach) \/ ~(Size(b - (y \div 2)) <= reach)
  <2>1. ~(\A axis \in {1, 2} : Size(c[axis] - RawCell(p)[axis]) <= reach)
    BY DEF Window, reach, half
  <2> QED
    BY <1>4, <1>5, <2>1
<1>7. ASSUME NEW u \in Int, NEW v \in Int, ~(Size(u - (v \div 2)) <= reach)
      PROVE  ((2 * u + 1) - v) * ((2 * u + 1) - v) >= SafeRadius * SafeRadius
  <2> DEFINE h == v \div 2
             e == (2 * u + 1) - v
  <2>1. h \in Int /\ 2 * h <= v /\ v <= 2 * h + 1
    OBVIOUS
  <2>2. e >= SafeRadius \/ -e >= SafeRadius
    <3> HIDE DEF h
    <3>1. u - h > reach \/ h - u > reach
      BY <1>3, <1>7, <2>1 DEF h, Size
    <3> QED
      BY <1>1, <1>3, <2>1, <3>1
  <2>3. e \in Int
    OBVIOUS
  <2> HIDE DEF e
  <2>4. e * e >= SafeRadius * SafeRadius
    <3>1. CASE e >= SafeRadius
      <4>1. e * e >= e * SafeRadius /\ e * SafeRadius >= SafeRadius * SafeRadius
        BY <1>1, <2>3, <3>1
      <4> QED
        BY <1>1, <2>3, <4>1
    <3>2. CASE -e >= SafeRadius
      <4>1. PICK f \in Nat : f = -e /\ f >= SafeRadius
        BY <1>1, <2>3, <3>2
      <4>2. e * e = f * f /\ f * f >= f * SafeRadius /\ f * SafeRadius >= SafeRadius * SafeRadius
        BY <1>1, <2>3, <4>1
      <4> QED
        BY <1>1, <2>3, <4>1, <4>2
    <3> QED
      BY <2>2, <3>1, <3>2
  <2> QED
    BY <2>4 DEF e
<1>8. Apart(Centre(c), p) = ((2 * a + 1) - x) * ((2 * a + 1) - x) + ((2 * b + 1) - y) * ((2 * b + 1) - y)
  BY <1>4 DEF Apart, Centre
<1>9. \A e \in Int : e * e \in Nat
  BY SquareIsNat
<1> DEFINE l == ((2 * a + 1) - x) * ((2 * a + 1) - x)
           m == ((2 * b + 1) - y) * ((2 * b + 1) - y)
           r == SafeRadius * SafeRadius
<1>10. l \in Nat /\ m \in Nat /\ r \in Nat
  <2>1. (2 * a + 1) - x \in Int /\ (2 * b + 1) - y \in Int /\ SafeRadius \in Int
    BY <1>1
  <2> QED
    BY <2>1, <1>9
<1>11. l >= r \/ m >= r
  BY <1>6, <1>7
<1> HIDE DEF l, m, r
<1>12. ~(l + m < r)
  BY <1>10, <1>11
<1> QED
  BY <1>8, <1>12 DEF l, m, r

(* All who judge a point strictly inside agree.                            *)
LEMMA AllJudgeAlike ==
  ASSUME ClearInv
  PROVE  JudgedAlike
<1> SUFFICES ASSUME loading = "loaded", file.chunks = Chunks,
                    NEW p \in (1..2 * Width - 1) \X (1..2 * Height - 1)
             PROVE  LET walls == {c \in blocked : Apart(Centre(c), p) < SafeRadius * SafeRadius}
                    IN  /\ Reason(p) = "ok" => NearestPassable(p, Rings) = {p} /\ walls = {}
                        /\ Reason(p) = "too_close" => walls # {} /\ IsPassable(p)
                        /\ Flagged(p) = BatchFlagged(p)
  BY DEF JudgedAlike
<1> DEFINE at == RawCell(p)
           radius == SafeRadius * SafeRadius
           walls == {c \in blocked : Apart(Centre(c), p) < radius}
           near == {c \in Window(p) : CellValue(c) = "blocked"}
<1>1. OnMap(p) /\ at \in Cells /\ CellOf(p) = at
  BY InsideCell
<1>2. file \in Files /\ blocked = MaskOf(file) /\ file.mask \subseteq Cells /\ blocked \subseteq Cells
  BY MasksAreCells DEF ClearInv, ClearTypeOK
<1>3. \A c \in Cells : CellValue(c) = IF c \in blocked THEN "blocked" ELSE "free"
  BY <1>2 DEF CellValue, MaskOf, Chunks
<1>4. IsPassable(p) <=> at \notin blocked
  BY <1>1 DEF IsPassable
<1>5. Flagged(p) = BatchFlagged(p)
  BY <1>1, <1>4 DEF Flagged, BatchFlagged
<1>6. Window(p) \subseteq Cells
  BY DEF Window
<1>7. near = {c \in Window(p) : c \in blocked}
  BY <1>3, <1>6
<1>8. ToBlocked(p) = IF near = {} THEN {radius} ELSE {Min({Apart(Centre(c), p) : c \in near})}
  <2>1. \A c \in Window(p) : CellValue(c) # "absent"
    BY <1>3, <1>6
  <2> QED
    BY <2>1 DEF ToBlocked
<1>9. Reason(p) = IF at \in blocked THEN "forbidden"
                  ELSE IF \E d \in ToBlocked(p) : d < radius THEN "too_close" ELSE "ok"
  BY <1>1, <1>3 DEF Reason
<1>10. \A c \in Cells : Apart(Centre(c), p) \in Nat
  <2>1. p \in Int \X Int
    BY PlaneAssumption
  <2> QED
    BY <2>1, ApartIs
<1>11. (\E d \in ToBlocked(p) : d < radius) <=> walls # {}
  <2>0. radius \in Nat
    BY ClearanceAssumption
  <2>1. CASE near = {}
    <3>1. ToBlocked(p) = {radius}
      BY <1>8, <2>1
    <3>2. ASSUME NEW c \in walls PROVE FALSE
      <4>1. c \in Cells \ Window(p)
        BY <1>2, <1>7, <2>1
      <4> QED
        BY <4>1, BeyondTheWindow
    <3> HIDE DEF radius, walls
    <3> QED
      BY <2>0, <3>1, <3>2
  <2>2. CASE near # {}
    <3> DEFINE S == {Apart(Centre(c), p) : c \in near}
    <3>1. S \in SUBSET Nat /\ S # {}
      BY <1>6, <1>10, <2>2
    <3>2. PICK m \in S : \A k \in S : m <= k
      BY <3>1, LeastNatural
    <3>3. Min(S) = m
      <4>1. S \subseteq Int
        BY <3>1
      <4> HIDE DEF S
      <4> QED
        BY <3>2, <4>1, MinIs
    <3>4. ToBlocked(p) = {m}
      BY <1>8, <2>2, <3>3
    <3>5. ASSUME m < radius PROVE walls # {}
      <4>1. PICK c \in near : m = Apart(Centre(c), p)
        BY <3>2
      <4> QED
        BY <1>7, <3>5, <4>1
    <3>6. ASSUME NEW c \in walls PROVE m < radius
      <4>1. c \in Window(p)
        BY <1>2, BeyondTheWindow
      <4>2. c \in near
        BY <1>7, <4>1
      <4>3. m <= Apart(Centre(c), p) /\ Apart(Centre(c), p) < radius
        BY <3>2, <4>2
      <4>4. m \in Nat /\ Apart(Centre(c), p) \in Nat
        BY <1>2, <1>10, <3>1, <3>2
      <4> HIDE DEF radius
      <4> QED
        BY <2>0, <4>3, <4>4
    <3> HIDE DEF S, radius, walls
    <3> QED
      BY <3>4, <3>5, <3>6
  <2> QED
    BY <2>1, <2>2
<1>12. IsPassable(p) => NearestPassable(p, Rings) = {p}
  BY DEF NearestPassable
<1> HIDE DEF walls, radius
<1>13. Reason(p) = "ok" => IsPassable(p) /\ walls = {}
  BY <1>4, <1>9, <1>11
<1>14. Reason(p) = "too_close" => walls # {} /\ IsPassable(p)
  BY <1>4, <1>9, <1>11
<1> QED
  BY <1>5, <1>12, <1>13, <1>14 DEF walls, radius

(* ClearSpec keeps the types and the invariant: what an environment knows  *)
(* of its map is the map's mask and exact distances.                       *)
THEOREM TheFieldIsKept == ClearSpec => []ClearInv
<1>1. ClearInit => ClearInv
  <2> SUFFICES ASSUME ClearInit PROVE ClearInv
    OBVIOUS
  <2> QED
    BY DEF ClearInit, ClearInv, ClearTypeOK, DistancesAreExact
<1>2. ClearInv /\ [ClearNext]_clearVars => ClearInv'
  <2> SUFFICES ASSUME ClearInv, [ClearNext]_clearVars PROVE ClearInv'
    OBVIOUS
  <2>1. CASE Load
    BY <2>1, LoadIsExact
  <2>2. CASE UNCHANGED clearVars
    BY <2>2 DEF clearVars, ClearInv, ClearTypeOK, DistancesAreExact
  <2> QED
    BY <2>1, <2>2 DEF ClearNext
<1> QED
  BY <1>1, <1>2, PTL DEF ClearSpec

-----------------------------------------------------------------------------
(* The search around a point (nearest_passable, project_point).            *)

(* The cell of a coordinate, of n cells.                                   *)

Clamped(k, n) == IF k < 0 THEN 0 ELSE IF k > n - 1 THEN n - 1 ELSE k

(* Max and Min clamp.                                                      *)
LEMMA ClampIs ==
  ASSUME NEW n \in Nat \ {0}, NEW k \in Int
  PROVE  Max({0, Min({n - 1, k})}) = Clamped(k, n) /\ Clamped(k, n) \in 0..n - 1
<1> DEFINE m == IF k > n - 1 THEN n - 1 ELSE k
<1>1. Min({n - 1, k}) = m
  <2>1. m \in {n - 1, k} /\ {n - 1, k} \subseteq Int /\ \A i \in {n - 1, k} : m <= i
    OBVIOUS
  <2> HIDE DEF m
  <2> QED
    BY <2>1, MinIs
<1>2. Clamped(k, n) \in {0, m} /\ {0, m} \subseteq Int /\ \A i \in {0, m} : i <= Clamped(k, n)
  BY DEF Clamped
<1>3. Clamped(k, n) \in 0..n - 1
  BY DEF Clamped
<1> HIDE DEF m
<1> QED
  BY <1>1, <1>2, <1>3, MaxOf

(* The cell of any point is on the map.                                    *)
LEMMA CellOfIs ==
  ASSUME NEW p \in Int \X Int
  PROVE  CellOf(p) = <<Clamped(p[1] \div 2, Width), Clamped(p[2] \div 2, Height)>> /\ CellOf(p) \in Cells
<1>1. Width \in Nat \ {0} /\ Height \in Nat \ {0} /\ p[1] \div 2 \in Int /\ p[2] \div 2 \in Int
  BY PlaneAssumption
<1>2. /\ Max({0, Min({Width - 1, p[1] \div 2})}) = Clamped(p[1] \div 2, Width)
      /\ Clamped(p[1] \div 2, Width) \in 0..Width - 1
  BY <1>1, ClampIs
<1>3. /\ Max({0, Min({Height - 1, p[2] \div 2})}) = Clamped(p[2] \div 2, Height)
      /\ Clamped(p[2] \div 2, Height) \in 0..Height - 1
  BY <1>1, ClampIs
<1> QED
  BY <1>2, <1>3 DEF CellOf, Cells

(* The middle of a cell is on the map, and in the cell.                    *)
LEMMA CentreIsIn ==
  ASSUME NEW c \in Cells
  PROVE  Centre(c) \in Int \X Int /\ OnMap(Centre(c)) /\ CellOf(Centre(c)) = c
<1>1. Width \in Nat \ {0} /\ Height \in Nat \ {0}
  BY PlaneAssumption
<1>2. PICK a \in 0..Width - 1, b \in 0..Height - 1 : c = <<a, b>>
  BY DEF Cells
<1>3. Centre(c) = <<2 * a + 1, 2 * b + 1>>
  BY <1>2 DEF Centre
<1>4. Centre(c) \in Int \X Int /\ OnMap(Centre(c))
  BY <1>1, <1>3 DEF OnMap
<1>5. (2 * a + 1) \div 2 = a /\ (2 * b + 1) \div 2 = b
  OBVIOUS
<1>6. Clamped(a, Width) = a /\ Clamped(b, Height) = b
  BY <1>1 DEF Clamped
<1>7. Centre(c)[1] = 2 * a + 1 /\ Centre(c)[2] = 2 * b + 1
  BY <1>3
<1> QED
  BY <1>2, <1>4, <1>5, <1>6, <1>7, CellOfIs

(* The free cells of the first n rings, and the best of them.              *)
Around(p, n) == {d \in Cells \ blocked : \E m \in 1..n : d \in Ring(CellOf(p), m)}

IsBest(best, p, n) ==
  /\ best \subseteq Around(p, n)
  /\ Around(p, n) # {} => best # {}
  /\ \A c \in best, d \in Around(p, n) : Apart(Centre(c), p) <= Apart(Centre(d), p)

(* The rings, by the two axes.                                             *)
LEMMA SizeIs == \A n \in Int : Size(n) \in Nat
BY DEF Size

(* A cell of the n-th ring is n cells away on one axis and no more on the  *)
(* other.                                                                  *)
LEMMA RingIs ==
  ASSUME NEW c \in Cells, NEW d \in Cells, NEW n \in Nat
  PROVE  /\ d \in Ring(c, n) => /\ Size(d[1] - c[1]) <= n /\ Size(d[2] - c[2]) <= n
                                /\ Size(d[1] - c[1]) = n \/ Size(d[2] - c[2]) = n
         /\ /\ Size(d[1] - c[1]) <= n /\ Size(d[2] - c[2]) <= n
            /\ Size(d[1] - c[1]) = n \/ Size(d[2] - c[2]) = n
            => d \in Ring(c, n)
<1>1. Size(d[1] - c[1]) \in Nat /\ Size(d[2] - c[2]) \in Nat
  BY SizeIs, PlaneAssumption DEF Cells
<1> DEFINE a == Size(d[1] - c[1])
           b == Size(d[2] - c[2])
           m == IF a <= b THEN b ELSE a
<1>2. Max({a, b}) = m
  <2> HIDE DEF a, b
  <2>1. m \in {a, b} /\ {a, b} \subseteq Int /\ \A k \in {a, b} : k <= m
    BY <1>1 DEF a, b
  <2> HIDE DEF m
  <2> QED
    BY <2>1, MaxOf
<1>3. d \in Ring(c, n) <=> m = n
  BY <1>2 DEF Ring
<1>4. a \in Nat /\ b \in Nat
  BY <1>1
<1> HIDE DEF a, b
<1>5. m = n <=> a <= n /\ b <= n /\ (a = n \/ b = n)
  BY <1>4
<1> QED
  BY <1>3, <1>5 DEF a, b

(* A cell that is n cells away along an axis.                              *)
LEMMA FarAlong ==
  ASSUME NEW w \in Nat \ {0}, NEW x \in Int, NEW a \in 0..w - 1, NEW n \in Nat \ {0},
         Size(a - Clamped(x \div 2, w)) >= n
  PROVE  ((2 * a + 1) - x) * ((2 * a + 1) - x) >= 4 * (n - 1) * (n - 1)
<1> DEFINE h == x \div 2
           k == Clamped(h, w)
           e == (2 * a + 1) - x
           r == 2 * (n - 1)
<1>1. h \in Int /\ 2 * h <= x /\ x <= 2 * h + 1
  OBVIOUS
<1> HIDE DEF h
<1>2. e >= r \/ -e >= r
  <2>1. k \in Int /\ a - k \in Int
    BY <1>1 DEF Clamped
  <2>2. a - k >= n \/ k - a >= n
    <3> HIDE DEF k
    <3>1. Size(a - k) >= n
      BY DEF h, k
    <3> QED
      BY <2>1, <3>1 DEF Size
  <2> QED
    BY <1>1, <2>2 DEF Clamped
<1>3. e \in Int /\ r \in Nat /\ r * r = 4 * (n - 1) * (n - 1)
  <2>1. n - 1 \in Nat
    OBVIOUS
  <2>2. \A i \in Nat : (2 * i) * (2 * i) = 4 * i * i
    OBVIOUS
  <2> QED
    BY <2>1, <2>2
<1> HIDE DEF e, r
<1>4. e * e >= r * r
  <2>1. CASE e >= r
    <3>1. e * e >= e * r /\ e * r >= r * r
      BY <1>3, <2>1
    <3> QED
      BY <1>3, <3>1
  <2>2. CASE -e >= r
    <3>1. PICK f \in Nat : f = -e /\ f >= r
      BY <1>3, <2>2
    <3>2. e * e = f * f /\ f * f >= f * r /\ f * r >= r * r
      BY <1>3, <3>1
    <3> QED
      BY <1>3, <3>1, <3>2
  <2> QED
    BY <1>2, <2>1, <2>2
<1> QED
  BY <1>3, <1>4 DEF e, r

(* Nothing in the n-th ring is nearer than the check of Settled says.      *)
LEMMA RingIsFar ==
  ASSUME NEW p \in Int \X Int, NEW n \in Nat \ {0}, NEW d \in Ring(CellOf(p), n)
  PROVE  Apart(Centre(d), p) >= 4 * (n - 1) * (n - 1)
<1>1. Width \in Nat \ {0} /\ Height \in Nat \ {0}
  BY PlaneAssumption
<1>2. d \in Cells
  BY DEF Ring
<1>3. PICK x \in Int, y \in Int, a \in 0..Width - 1, b \in 0..Height - 1 : p = <<x, y>> /\ d = <<a, b>>
  BY <1>2 DEF Cells
<1>4. CellOf(p) = <<Clamped(x \div 2, Width), Clamped(y \div 2, Height)>> /\ CellOf(p) \in Cells
  BY <1>3, CellOfIs
<1>5. Size(a - Clamped(x \div 2, Width)) = n \/ Size(b - Clamped(y \div 2, Height)) = n
  <2>1. Size(d[1] - CellOf(p)[1]) = n \/ Size(d[2] - CellOf(p)[2]) = n
    BY <1>2, <1>4, RingIs
  <2> QED
    BY <1>3, <1>4, <2>1
<1> DEFINE l == ((2 * a + 1) - x) * ((2 * a + 1) - x)
           m == ((2 * b + 1) - y) * ((2 * b + 1) - y)
           r == 4 * (n - 1) * (n - 1)
<1>6. l >= r \/ m >= r
  <2>1. n >= n
    OBVIOUS
  <2>2. CASE Size(a - Clamped(x \div 2, Width)) = n
    BY <1>1, <2>1, <2>2, FarAlong
  <2>3. CASE Size(b - Clamped(y \div 2, Height)) = n
    BY <1>1, <2>1, <2>3, FarAlong
  <2> QED
    BY <1>5, <2>2, <2>3
<1>7. l \in Nat /\ m \in Nat /\ r \in Int
  <2>1. (2 * a + 1) - x \in Int /\ (2 * b + 1) - y \in Int
    OBVIOUS
  <2>2. l \in Nat /\ m \in Nat
    BY <2>1, SquareIsNat
  <2> QED
    BY <2>2
<1>8. Apart(Centre(d), p) = l + m
  BY <1>3 DEF Apart, Centre
<1> HIDE DEF l, m, r
<1>9. l + m >= r
  BY <1>6, <1>7
<1> QED
  BY <1>8, <1>9 DEF r

(* Of some cells there is one that is met first.                           *)
LEMMA FirstIsOne ==
  ASSUME NEW S \in SUBSET Cells, S # {}
  PROVE  \E c \in S : \A d \in S : c[2] < d[2] \/ (c[2] = d[2] /\ c[1] <= d[1])
<1>1. \A c \in Cells : c[1] \in Nat /\ c[2] \in Nat
  BY PlaneAssumption DEF Cells
<1> DEFINE rows == {c[2] : c \in S}
<1>2. rows \in SUBSET Nat /\ rows # {}
  BY <1>1
<1>3. PICK y \in rows : \A k \in rows : y <= k
  BY <1>2, LeastNatural
<1> DEFINE row == {c \in S : c[2] = y}
           columns == {c[1] : c \in row}
<1>4. columns \in SUBSET Nat /\ columns # {}
  BY <1>1, <1>3
<1>5. PICK x \in columns : \A k \in columns : x <= k
  BY <1>4, LeastNatural
<1>6. PICK c \in row : c[1] = x
  BY <1>5
<1>7. ASSUME NEW d \in S PROVE c[2] < d[2] \/ (c[2] = d[2] /\ c[1] <= d[1])
  <2>1. y <= d[2] /\ y \in Nat /\ d[2] \in Nat
    BY <1>1, <1>3, <1>2
  <2>2. CASE d[2] = y
    <3>1. d \in row
      BY <2>2
    <3>2. x <= d[1]
      BY <1>5, <3>1
    <3> QED
      BY <1>6, <2>2, <3>2
  <2>3. CASE d[2] # y
    BY <1>6, <2>1, <2>3
  <2> QED
    BY <2>2, <2>3
<1> QED
  BY <1>6, <1>7

(* One ring more: what was best stays so, or the best of the ring is.      *)
LEMMA SearchedIsBest ==
  ASSUME NEW p \in Int \X Int, NEW n \in Nat \ {0}, NEW best, IsBest(best, p, n - 1)
  PROVE  IsBest(Searched(best, n, p), p, n)
<1> DEFINE A(c) == Apart(Centre(c), p)
           closer(c, d) == Apart(Centre(c), p) < Apart(Centre(d), p)
           free == Ring(CellOf(p), n) \ blocked
           least == {c \in free : \A d \in free : ~closer(d, c)}
           first == CHOOSE c \in least : \A d \in least : c[2] < d[2] \/ (c[2] = d[2] /\ c[1] <= d[1])
           old == Around(p, n - 1)
           new == Around(p, n)
<1>1. new = old \cup free
  <2>1. 1..n = (1..n - 1) \cup {n}
    OBVIOUS
  <2>2. free \subseteq Cells
    BY DEF Ring
  <2> QED
    BY <2>1, <2>2 DEF Around
<1>2. new \subseteq Cells /\ best \subseteq old /\ (old # {} => best # {})
      /\ \A c \in best, d \in old : A(c) <= A(d)
  BY DEF IsBest, Around
<1>3. \A c \in new : A(c) \in Nat
  BY <1>2, ApartIs
<1>4. free # {} => first \in least
  <2> SUFFICES ASSUME free # {} PROVE first \in least
    OBVIOUS
  <2> DEFINE S == {A(c) : c \in free}
  <2>1. S \in SUBSET Nat /\ S # {}
    BY <1>1, <1>3
  <2>2. PICK m \in S : \A k \in S : m <= k
    BY <2>1, LeastNatural
  <2>3. PICK c \in free : A(c) = m
    BY <2>2
  <2>4. \A d \in free : ~closer(d, c)
    <3> TAKE d \in free
    <3>1. A(c) <= A(d) /\ A(c) \in Nat /\ A(d) \in Nat
      BY <1>1, <1>3, <2>2, <2>3
    <3> QED
      BY <3>1
  <2>5. c \in least
    BY <2>3, <2>4
  <2>6. least \in SUBSET Cells /\ least # {}
    BY <1>1, <1>2, <2>5
  <2>7. \E f \in least : \A d \in least : f[2] < d[2] \/ (f[2] = d[2] /\ f[1] <= d[1])
    <3> HIDE DEF least
    <3> QED
      BY <2>6, FirstIsOne
  <2> HIDE DEF least
  <2> QED
    BY <2>7
<1>5. Searched(best, n, p) =
        IF free = {} \/ Settled(best, n, p) \/ (\E c \in best : ~closer(first, c)) THEN best ELSE {first}
  BY DEF Searched
<1>6. free # {} => first \in free /\ \A d \in free : A(first) <= A(d)
  <2> SUFFICES ASSUME free # {} PROVE first \in free /\ \A d \in free : A(first) <= A(d)
    OBVIOUS
  <2>1. first \in free /\ \A d \in free : ~closer(d, first)
    BY <1>4
  <2> HIDE DEF first
  <2>2. ASSUME NEW d \in free PROVE A(first) <= A(d)
    <3>1. A(first) \in Nat /\ A(d) \in Nat /\ ~(A(d) < A(first))
      BY <1>1, <1>3, <2>1
    <3> HIDE DEF A
    <3> QED
      BY <3>1
  <2> QED
    BY <2>1, <2>2
<1> HIDE DEF first, least, old, new
<1>7. CASE free = {}
  <2>1. new = old /\ Searched(best, n, p) = best
    BY <1>1, <1>5, <1>7
  <2> QED
    BY <1>2, <2>1 DEF IsBest, old, new
<1>8. CASE free # {} /\ Settled(best, n, p)
  <2>1. Searched(best, n, p) = best
    BY <1>5, <1>8
  <2>2. PICK c \in best : 4 * (n - 1) * (n - 1) > A(c)
    BY <1>8 DEF Settled
  <2>3. ASSUME NEW b \in best, NEW d \in new PROVE A(b) <= A(d)
    <3>1. A(b) \in Nat /\ A(d) \in Nat /\ A(c) \in Nat /\ A(b) <= A(c)
      BY <1>1, <1>2, <1>3
    <3>2. CASE d \in old
      BY <1>2, <3>2
    <3>3. CASE d \in free
      <4>1. A(d) >= 4 * (n - 1) * (n - 1)
        BY <3>3, RingIsFar
      <4> DEFINE r == 4 * (n - 1) * (n - 1)
      <4>2. r \in Int /\ A(d) >= r /\ r > A(c)
        BY <2>2, <4>1
      <4> HIDE DEF A, r
      <4> QED
        BY <3>1, <4>2
    <3> QED
      BY <1>1, <3>2, <3>3
  <2>4. best \subseteq new /\ (new # {} => best # {})
    BY <1>1, <1>2, <2>2
  <2> QED
    BY <2>1, <2>3, <2>4 DEF IsBest, new
<1>9. CASE free # {} /\ ~Settled(best, n, p) /\ \E c \in best : ~closer(first, c)
  <2>1. Searched(best, n, p) = best
    BY <1>5, <1>9
  <2>2. PICK c \in best : ~closer(first, c)
    BY <1>9
  <2>3. ASSUME NEW b \in best, NEW d \in new PROVE A(b) <= A(d)
    <3>1. A(b) \in Nat /\ A(d) \in Nat /\ A(c) \in Nat /\ A(first) \in Nat /\ A(b) <= A(c) /\ ~(A(first) < A(c))
      BY <1>1, <1>2, <1>3, <1>6, <1>9, <2>2
    <3>2. CASE d \in old
      BY <1>2, <3>2
    <3>3. CASE d \in free
      <4>1. A(first) <= A(d)
        BY <1>6, <1>9, <3>3
      <4> HIDE DEF A
      <4> QED
        BY <3>1, <4>1
    <3> QED
      BY <1>1, <3>2, <3>3
  <2>4. best \subseteq new /\ (new # {} => best # {})
    BY <1>1, <1>2, <2>2
  <2> QED
    BY <2>1, <2>3, <2>4 DEF IsBest, new
<1>10. CASE free # {} /\ ~Settled(best, n, p) /\ ~\E c \in best : ~closer(first, c)
  <2>1. Searched(best, n, p) = {first}
    BY <1>5, <1>10
  <2>2. first \in new
    BY <1>1, <1>6, <1>10
  <2>3. ASSUME NEW d \in new PROVE A(first) <= A(d)
    <3>1. CASE d \in free
      BY <1>6, <1>10, <3>1
    <3>2. CASE d \in old
      <4>1. PICK c \in best : A(c) <= A(d) /\ A(first) < A(c)
        BY <1>2, <1>10, <3>2
      <4>2. A(c) \in Nat /\ A(d) \in Nat /\ A(first) \in Nat
        BY <1>1, <1>2, <1>3, <2>2
      <4> HIDE DEF A
      <4> QED
        BY <4>1, <4>2
    <3> QED
      BY <1>1, <3>1, <3>2
  <2> QED
    BY <2>1, <2>2, <2>3 DEF IsBest, new
<1> QED
  BY <1>7, <1>8, <1>9, <1>10

(* The rings together.                                                     *)
LEMMA SearchIsBest ==
  ASSUME NEW p \in Int \X Int, ~IsPassable(p), Surrounded(p, Rings)
  PROVE  \E best : IsBest(best, p, Rings) /\ NearestPassable(p, Rings) = {Centre(c) : c \in best}
<1>0. Rings \in Nat
  BY ClearanceAssumption
<1> DEFINE h == CHOOSE g : StepsTo(g, "ring", p, {}, Rings)
<1>1. StepsTo(h, "ring", p, {}, Rings)
  BY <1>0, StepsExist
<1>2. NearestPassable(p, Rings) = {Centre(c) : c \in h[Rings]}
  BY DEF NearestPassable, StepsTo, Stepped
<1> HIDE DEF h
<1>3. \A n \in 0..Rings : h[n] = IF n = 0 THEN {} ELSE Searched(h[n - 1], n, p)
  BY <1>1 DEF StepsTo, Stepped
<1> DEFINE Fits == {n \in Nat : n <= Rings => IsBest(h[n], p, n)}
<1>4. 0 \in Fits
  <2>1. h[0] = {} /\ 1..0 = {}
    BY <1>0, <1>3
  <2>2. Around(p, 0) = {}
    BY <2>1 DEF Around
  <2> QED
    BY <2>1, <2>2 DEF IsBest
<1>5. ASSUME NEW n \in Nat, n \in Fits PROVE n + 1 \in Fits
  <2>1. SUFFICES ASSUME n + 1 <= Rings PROVE IsBest(h[n + 1], p, n + 1)
    OBVIOUS
  <2>2. n + 1 \in 0..Rings /\ n + 1 \in Nat \ {0} /\ (n + 1) - 1 = n /\ n <= Rings
    BY <1>0, <2>1
  <2>3. IsBest(h[n], p, (n + 1) - 1)
    BY <1>5, <2>2
  <2>4. h[n + 1] = Searched(h[n], n + 1, p)
    BY <1>3, <2>2
  <2> QED
    BY <2>2, <2>3, <2>4, SearchedIsBest
<1> HIDE DEF Fits
<1>6. Rings \in Fits
  BY <1>0, <1>4, <1>5, InductionOnNat
<1> QED
  BY <1>2, <1>6 DEF Fits

(* What is in reach is what the rings sweep.                               *)
LEMMA ReachIsAround ==
  ASSUME NEW p \in Int \X Int
  PROVE  InReach(p) = IF Surrounded(p, Rings) THEN Around(p, Rings) ELSE {}
<1>0. Rings \in Nat
  BY ClearanceAssumption
<1>1. CASE ~Surrounded(p, Rings)
  BY <1>1 DEF InReach
<1>2. CASE Surrounded(p, Rings)
  <2> DEFINE o == CellOf(p)
  <2>1. o \in Cells
    BY CellOfIs
  <2> HIDE DEF o
  <2>2. ASSUME NEW d \in Cells
        PROVE  (\E m \in 1..Rings : d \in Ring(o, m)) <=>
                 d # o /\ \A axis \in {1, 2} : Size(d[axis] - o[axis]) <= Rings
    <3> DEFINE a == Size(d[1] - o[1])
               b == Size(d[2] - o[2])
               m == IF a <= b THEN b ELSE a
    <3>1. a \in Nat /\ b \in Nat
      BY <2>1, SizeIs, PlaneAssumption DEF Cells
    <3>2. d # o <=> a # 0 \/ b # 0
      <4>1. PICK x \in Int, y \in Int, u \in Int, v \in Int : d = <<x, y>> /\ o = <<u, v>>
        BY <2>1, PlaneAssumption DEF Cells
      <4>2. \A i \in Int : Size(i) = 0 <=> i = 0
        BY DEF Size
      <4>3. x - u \in Int /\ y - v \in Int /\ (x - u = 0 <=> x = u) /\ (y - v = 0 <=> y = v)
        OBVIOUS
      <4> QED
        BY <4>1, <4>2, <4>3
    <3>3. ASSUME NEW k \in 1..Rings, d \in Ring(o, k)
          PROVE  d # o /\ \A axis \in {1, 2} : Size(d[axis] - o[axis]) <= Rings
      <4>1. k \in Nat /\ k <= Rings /\ k # 0
        BY <1>0
      <4>2. a <= k /\ b <= k /\ (a = k \/ b = k)
        BY <2>1, <3>3, <4>1, RingIs
      <4> HIDE DEF a, b
      <4>3. a <= Rings /\ b <= Rings /\ (a # 0 \/ b # 0)
        BY <1>0, <3>1, <4>1, <4>2
      <4> QED
        BY <3>2, <4>3 DEF a, b
    <3>4. ASSUME d # o, \A axis \in {1, 2} : Size(d[axis] - o[axis]) <= Rings
          PROVE  \E k \in 1..Rings : d \in Ring(o, k)
      <4>1. a <= Rings /\ b <= Rings /\ (a # 0 \/ b # 0)
        BY <3>2, <3>4
      <4>2. m \in Nat /\ m \in 1..Rings /\ a <= m /\ b <= m /\ (a = m \/ b = m)
        <5> HIDE DEF a, b
        <5> QED
          BY <1>0, <3>1, <4>1
      <4>3. d \in Ring(o, m)
        <5> HIDE DEF m
        <5> QED
          BY <2>1, <4>2, RingIs
      <4> HIDE DEF m
      <4> QED
        BY <4>2, <4>3
    <3> QED
      BY <3>3, <3>4
  <2>3. InReach(p) = {d \in Cells \ (blocked \cup {o}) : \A axis \in {1, 2} : Size(d[axis] - o[axis]) <= Rings}
    BY <1>2 DEF InReach, o
  <2>4. Around(p, Rings) = {d \in Cells \ blocked : \E m \in 1..Rings : d \in Ring(o, m)}
    BY DEF Around, o
  <2>5. \A d : d \in InReach(p) <=> d \in Around(p, Rings)
    BY <2>2, <2>3, <2>4
  <2> QED
    BY <1>2, <2>5
<1> QED
  BY <1>1, <1>2

(* What the search hands out for any point: the point itself, the nearest  *)
(* cell in reach, or nothing if there is none.                             *)
LEMMA NearestIs ==
  ASSUME NEW p \in Int \X Int
  PROVE  /\ IsPassable(p) => NearestPassable(p, Rings) = {p}
         /\ ~IsPassable(p) =>
              /\ NearestPassable(p, Rings) \subseteq Nearest({Centre(c) : c \in InReach(p)}, p)
              /\ NearestPassable(p, Rings) = {} <=> InReach(p) = {}
         /\ \A q \in NearestPassable(p, Rings) : q \in Int \X Int /\ IsPassable(q)
<1>1. CASE IsPassable(p)
  <2>1. NearestPassable(p, Rings) = {p}
    BY <1>1 DEF NearestPassable
  <2> QED
    BY <1>1, <2>1
<1>2. CASE ~IsPassable(p) /\ ~Surrounded(p, Rings)
  <2>1. NearestPassable(p, Rings) = {}
    BY <1>2 DEF NearestPassable
  <2>2. InReach(p) = {}
    BY <1>2, ReachIsAround
  <2> QED
    BY <1>2, <2>1, <2>2
<1>3. CASE ~IsPassable(p) /\ Surrounded(p, Rings)
  <2>1. PICK best : IsBest(best, p, Rings) /\ NearestPassable(p, Rings) = {Centre(c) : c \in best}
    BY <1>3, SearchIsBest
  <2>2. InReach(p) = Around(p, Rings)
    BY <1>3, ReachIsAround
  <2>3. /\ best \subseteq InReach(p) /\ (InReach(p) # {} => best # {})
        /\ \A c \in best, d \in InReach(p) : Apart(Centre(c), p) <= Apart(Centre(d), p)
    BY <2>1, <2>2 DEF IsBest
  <2>4. NearestPassable(p, Rings) \subseteq Nearest({Centre(c) : c \in InReach(p)}, p)
    BY <2>1, <2>3 DEF Nearest
  <2>5. NearestPassable(p, Rings) = {} <=> InReach(p) = {}
    BY <2>1, <2>3
  <2>6. ASSUME NEW c \in best PROVE Centre(c) \in Int \X Int /\ IsPassable(Centre(c))
    <3>1. c \in Cells /\ c \notin blocked
      BY <2>1 DEF IsBest, Around
    <3> QED
      BY <3>1, CentreIsIn DEF IsPassable
  <2> QED
    BY <1>3, <2>1, <2>4, <2>5, <2>6
<1> QED
  BY <1>1, <1>2, <1>3

(* A projected point, wherever it was pushed to.                           *)
LEMMA ProjectedIs ==
  ASSUME NEW p \in Int \X Int, NEW q \in Projected(p)
  PROVE  IsPassable(q) \/ InReach(q) = {}
<1> DEFINE pulled == IF IsPassable(p) THEN {p} ELSE NearestPassable(p, Rings)
           near(u) == distance[CellOf(u)] < SafeRadius * SafeRadius
           pushed(u) == {r \in ((u[1] - SafeRadius)..(u[1] + SafeRadius))
                               \X ((u[2] - SafeRadius)..(u[2] + SafeRadius)) :
                         Within(r, u, SafeRadius)}
           landed(r) == IF NearestPassable(r, Rings) = {} THEN {r} ELSE NearestPassable(r, Rings)
<1>1. Projected(p) = IF pulled = {} THEN {p}
                     ELSE UNION {IF near(u) THEN UNION {landed(r) : r \in pushed(u)} ELSE {u} : u \in pulled}
  BY DEF Projected
<1>2. pulled = NearestPassable(p, Rings)
  BY NearestIs
<1>3. \A u \in pulled : u \in Int \X Int /\ IsPassable(u)
  BY <1>2, NearestIs
<1>4. \A u \in Int \X Int : pushed(u) \subseteq Int \X Int
  <2>1. SafeRadius \in Nat
    BY ClearanceAssumption
  <2> TAKE u \in Int \X Int
  <2>2. u[1] \in Int /\ u[2] \in Int
    OBVIOUS
  <2>3. (u[1] - SafeRadius)..(u[1] + SafeRadius) \subseteq Int /\ (u[2] - SafeRadius)..(u[2] + SafeRadius) \subseteq Int
    BY <2>1, <2>2
  <2> QED
    BY <2>3
<1>5. ASSUME NEW r \in Int \X Int, q \in landed(r) PROVE IsPassable(q) \/ InReach(q) = {}
  <2>1. CASE NearestPassable(r, Rings) = {}
    <3>1. q = r
      BY <1>5, <2>1
    <3>2. ~IsPassable(r)
      BY <2>1, NearestIs
    <3> QED
      BY <2>1, <3>1, <3>2, NearestIs
  <2>2. CASE NearestPassable(r, Rings) # {}
    <3>1. q \in NearestPassable(r, Rings)
      BY <1>5, <2>2
    <3> QED
      BY <3>1, NearestIs
  <2> QED
    BY <2>1, <2>2
<1>6. CASE pulled = {}
  <2>1. q = p /\ NearestPassable(p, Rings) = {}
    BY <1>1, <1>2, <1>6
  <2>2. ~IsPassable(p)
    BY <2>1, NearestIs
  <2> QED
    BY <2>1, <2>2, NearestIs
<1>7. CASE pulled # {}
  <2> HIDE DEF pulled, near, pushed, landed
  <2>1. PICK u \in pulled : q \in (IF near(u) THEN UNION {landed(r) : r \in pushed(u)} ELSE {u})
    BY <1>1, <1>7
  <2>2. CASE near(u)
    <3>1. PICK r \in pushed(u) : q \in landed(r)
      BY <2>1, <2>2
    <3>2. r \in Int \X Int
      BY <1>3, <1>4
    <3> QED
      BY <1>5, <3>1, <3>2
  <2>3. CASE ~near(u)
    BY <1>3, <2>1, <2>3
  <2> QED
    BY <2>2, <2>3
<1> QED
  BY <1>6, <1>7

(* ClearSpec => []SnapsToNearest: the loop over the rings stops early and  *)
(* still finds the nearest passable cell (SnapsToNearest), on any mask.    *)
THEOREM TheNearestIsFound == ClearSpec => []SnapsToNearest
<1>1. SnapsToNearest
  <2>1. \A p \in Surroundings(2) : p \in Int \X Int
    BY PlaneAssumption DEF Surroundings
  <2> QED
    BY <2>1, NearestIs, ProjectedIs DEF SnapsToNearest
<1> QED
  BY <1>1, PTL

(* ClearSpec => []ClearanceIsKnown: distances are exact, the service, the  *)
(* planner and a backend judge a point alike, and a point is moved to the  *)
(* nearest passable cell (ClearanceIsKnown).                               *)
THEOREM TheClearanceIsKnown == ClearSpec => []ClearanceIsKnown
<1>1. ClearInv /\ SnapsToNearest => ClearanceIsKnown
  BY AllJudgeAlike DEF ClearanceIsKnown, ClearInv
<1> QED
  BY <1>1, TheFieldIsKept, TheNearestIsFound, PTL
===============================================================================
