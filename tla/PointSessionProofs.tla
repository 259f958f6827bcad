------------------------- MODULE PointSessionProofs -------------------------
(***************************************************************************)
(* Proofs about the parts of PointSession: the slab of a PointData for     *)
(* every width of usize, the growing of Bounds for every number of axes    *)
(* and points, points on their way to Rust and back for every vector of    *)
(* them, the keys of an octree for every depth and width, and the COPC     *)
(* reader for every set of files.                                          *)
(***************************************************************************)
EXTENDS PointSession, SequenceTheorems, WellFoundedInduction, TLAPS

-----------------------------------------------------------------------------
(* The slab *)

\* resize_for multiplies without wrapping: what checked_mul and the conversion
\* to isize let through is the exact product, and what they refuse is too much.
LEMMA ProductExact ==
  ASSUME NEW n \in Nat, NEW len \in RecordLens
  PROVE  /\ n * len < Slab!USize => (n * len) % Slab!USize = n * len
         /\ ~(n * len < Slab!USize /\ n * len <= Slab!ISizeMax) => n * len > Slab!ISizeMax
<1>1. PICK half \in Int : half = 2 ^ (USizeBits - 1)
  BY PointAssumption
<1>2. len \in 1 .. half - 1
  BY <1>1, PointAssumption
<1>3. PICK p \in Nat : p = n * len
  BY <1>2
<1>4. Slab!USize = 2 * half /\ Slab!ISizeMax = half - 1
  <2>1. USizeBits - 1 \in 0 .. USizeBits + KeyBits /\ (USizeBits - 1) + 1 = USizeBits
    BY PointAssumption
  <2>2. 2 ^ ((USizeBits - 1) + 1) = 2 * 2 ^ (USizeBits - 1)
    BY <2>1, Doubling
  <2> QED  BY <1>1, <2>1, <2>2 DEF Slab!USize, Slab!ISizeMax
<1>5. p < 2 * half => p % (2 * half) = p
  BY <1>1, <1>2
<1> QED  BY <1>1, <1>2, <1>3, <1>4, <1>5

\* One call on the slab: a resize is exact or changes nothing.
LEMMA SlabStep ==
  ASSUME record_len \in RecordLens, Slab!Next
  PROVE  /\ record_len' = record_len
         /\ ret'.op = "resize" =>
              IF ret'.ok THEN size' = ret'.n * record_len /\ span' = size'
                         ELSE size' = size /\ ret'.n * record_len > Slab!ISizeMax
<1>1. ASSUME NEW n \in 0 .. Slab!ISizeMax, Slab!BuildFromBytes(n)
      PROVE  record_len' = record_len /\ ret'.op = "build"
  BY <1>1 DEF Slab!BuildFromBytes, Slab!Answer
<1>2. ASSUME NEW n \in 0 .. Slab!USize - 1, Slab!ResizeFor(n)
      PROVE  /\ record_len' = record_len
             /\ IF ret'.ok THEN size' = ret'.n * record_len /\ span' = size'
                           ELSE size' = size /\ ret'.n * record_len > Slab!ISizeMax
  <2>1. n \in Nat /\ ret'.n = n /\ ret'.ok = Slab!Fits(n) /\ record_len' = record_len
    BY <1>2 DEF Slab!ResizeFor, Slab!Answer
  <2>2. CASE Slab!Fits(n)
    <3>1. size' = (n * record_len) % Slab!USize /\ span' = (n * record_len) % Slab!USize
      BY <1>2, <2>2 DEF Slab!ResizeFor
    <3> QED  BY <2>1, <2>2, <3>1, ProductExact DEF Slab!Fits
  <2>3. CASE ~Slab!Fits(n)
    <3>1. size' = size
      BY <1>2, <2>3 DEF Slab!ResizeFor
    <3>2. n * record_len > Slab!ISizeMax
      BY <2>1, <2>3, ProductExact DEF Slab!Fits
    <3> QED  BY <2>1, <2>3, <3>1, <3>2
  <2> QED  BY <2>2, <2>3
<1> QED  BY <1>1, <1>2 DEF Slab!Next

-----------------------------------------------------------------------------
(* The bounds *)

\* A box between the infinities, and sets of points.
GrowthTyped ==
  /\ bounds \in [Boxes -> [min : [Axes -> Nat], max : [Axes -> Nat]]]
  /\ shown \in [Boxes -> SUBSET Growth!Points]

\* What a box says of one axis, once it has been shown the numbers in S.
Tight(lo, hi, S) ==
  IF S = {} THEN lo = Limit + 1 /\ hi = 0
  ELSE lo \in S /\ hi \in S /\ \A x \in S : lo <= x /\ x <= hi

\* One axis of Bounds::grow: the comparison with NaN is false, so NaN changes
\* nothing, and a number moves an end only outwards.
LEMMA AxisGrows ==
  ASSUME NEW lo \in Nat, NEW hi \in Nat, NEW x \in Growth!Coordinates,
         NEW S \in SUBSET (1 .. Limit), Tight(lo, hi, S)
  PROVE  /\ Growth!StdMin(lo, x) \in Nat /\ Growth!StdMax(hi, x) \in Nat
         /\ Tight(Growth!StdMin(lo, x), Growth!StdMax(hi, x), (S \cup {x}) \ {NaN})
<1>1. NaN \notin S /\ NaN # lo /\ NaN # hi
  <2>1. NaN \notin Int
    BY ONLY PointAssumption
  <2>2. \A y \in S : y \in Int
    OBVIOUS
  <2>3. lo \in Int /\ hi \in Int
    OBVIOUS
  <2> QED  BY <2>1, <2>2, <2>3
<1>2. CASE x = NaN
  <2>1. Growth!StdMin(lo, x) = lo /\ Growth!StdMax(hi, x) = hi
    BY <1>2 DEF Growth!StdMin, Growth!StdMax, Growth!Less
  <2>2. (S \cup {x}) \ {NaN} = S
    BY <1>1, <1>2
  <2> QED  BY <2>1, <2>2
<1>3. CASE x # NaN
  <2>1. x \in 1 .. Limit
    BY <1>3 DEF Growth!Coordinates
  <2>2. (S \cup {x}) \ {NaN} = S \cup {x}
    BY <1>1, <1>3
  <2>3. /\ Growth!StdMin(lo, x) = IF x < lo THEN x ELSE lo
        /\ Growth!StdMax(hi, x) = IF hi < x THEN x ELSE hi
    BY <1>1, <1>3 DEF Growth!StdMin, Growth!StdMax, Growth!Less
  <2>4. Limit \in Nat
    BY PointAssumption
  <2>5. CASE S = {}
    BY <2>1, <2>2, <2>3, <2>4, <2>5 DEF Tight
  <2>6. CASE S # {}
    <3>1. lo \in S /\ hi \in S /\ \A y \in S : lo <= y /\ y <= hi
      BY <2>6 DEF Tight
    <3>2. \A y \in S : y \in Nat
      BY <2>4
    <3> DEFINE min == IF x < lo THEN x ELSE lo
               max == IF hi < x THEN x ELSE hi
    <3>3. min \in S \cup {x} /\ max \in S \cup {x}
      BY <3>1
    <3>4. \A y \in S \cup {x} : min <= y /\ y <= max
      BY <2>1, <2>4, <3>1, <3>2
    <3> QED  BY <2>1, <2>2, <2>3, <2>4, <3>3, <3>4 DEF Tight
  <2> QED  BY <2>5, <2>6
<1> QED  BY <1>2, <1>3

\* The property, one box and one axis at a time.
LEMMA SmallestBoxIsTight ==
  SmallestBox <=> \A b \in Boxes, a \in Axes :
                    Tight(bounds[b].min[a], bounds[b].max[a], Growth!Shown(b, a))
BY DEF SmallestBox, Growth!SmallestBox, Tight, Growth!PosInf, Growth!NegInf

\* Bounds that were shown nothing are empty.
LEMMA GrowthStart ==
  ASSUME Growth!Init
  PROVE  GrowthTyped /\ SmallestBox
<1>1. \A b \in Boxes : shown[b] = {}
  BY DEF Growth!Init
<1>2. \A b \in Boxes, a \in Axes : Growth!Shown(b, a) = {}
  BY <1>1 DEF Growth!Shown
<1>3. Limit + 1 \in Nat /\ 0 \in Nat
  BY PointAssumption
<1>4. GrowthTyped
  BY <1>3 DEF GrowthTyped, Growth!Init, Growth!PosInf, Growth!NegInf
<1>5. \A b \in Boxes, a \in Axes : bounds[b].min[a] = Limit + 1 /\ bounds[b].max[a] = 0
  BY DEF Growth!Init, Growth!PosInf, Growth!NegInf
<1> QED  BY <1>2, <1>4, <1>5, SmallestBoxIsTight DEF Tight

\* Growing by a point takes the lesser and the greater on each axis.
LEMMA GrowthStep ==
  ASSUME GrowthTyped, SmallestBox, Growth!Next
  PROVE  GrowthTyped' /\ SmallestBox'
<1>1. PICK b \in Boxes, p \in Growth!Points : Growth!grow(b, p)
  BY DEF Growth!Next
<1>2. PICK box : box = bounds[b]
  OBVIOUS
<1>3. box \in [min : [Axes -> Nat], max : [Axes -> Nat]] /\ p \in [Axes -> Growth!Coordinates]
  BY <1>2 DEF GrowthTyped, Growth!Points
<1>4. bounds' = [bounds EXCEPT ![b] = Growth!Grown(box, p)]
  BY <1>1, <1>2 DEF Growth!grow
<1>5. shown' = [shown EXCEPT ![b] = @ \cup {p}]
  BY <1>1 DEF Growth!grow
<1>6. \A q \in Boxes, a \in Axes : Growth!Shown(q, a) \in SUBSET (1 .. Limit)
  BY DEF Growth!Shown, GrowthTyped, Growth!Points, Growth!Coordinates
<1>7. \A a \in Axes : LET S == Growth!Shown(b, a)
                      IN  /\ Growth!StdMin(box.min[a], p[a]) \in Nat
                          /\ Growth!StdMax(box.max[a], p[a]) \in Nat
                          /\ Tight(Growth!StdMin(box.min[a], p[a]), Growth!StdMax(box.max[a], p[a]),
                                   (S \cup {p[a]}) \ {NaN})
  BY <1>2, <1>3, <1>6, AxisGrows, SmallestBoxIsTight
<1>8. Growth!Grown(box, p) \in [min : [Axes -> Nat], max : [Axes -> Nat]]
  BY <1>7 DEF Growth!Grown
<1>9. GrowthTyped'
  BY <1>1, <1>4, <1>5, <1>8 DEF GrowthTyped
<1>10. ASSUME NEW q \in Boxes, NEW a \in Axes
       PROVE  Tight(bounds'[q].min[a], bounds'[q].max[a], Growth!Shown(q, a)')
  <2>1. CASE q = b
    <3>1. shown'[q] = shown[b] \cup {p}
      BY <1>5, <2>1 DEF GrowthTyped
    <3>2. Growth!Shown(q, a)' = (Growth!Shown(b, a) \cup {p[a]}) \ {NaN}
      BY <3>1 DEF Growth!Shown
    <3>3. /\ bounds'[q].min[a] = Growth!StdMin(box.min[a], p[a])
          /\ bounds'[q].max[a] = Growth!StdMax(box.max[a], p[a])
      BY <1>4, <2>1 DEF GrowthTyped, Growth!Grown
    <3> QED  BY <1>7, <3>2, <3>3
  <2>2. CASE q # b
    <3>1. shown'[q] = shown[q] /\ bounds'[q] = bounds[q]
      BY <1>4, <1>5, <2>2 DEF GrowthTyped
    <3>2. Growth!Shown(q, a)' = Growth!Shown(q, a)
      BY <3>1 DEF Growth!Shown
    <3> QED  BY <3>1, <3>2, SmallestBoxIsTight
  <2> QED  BY <2>1, <2>2
<1>11. SmallestBox'
  BY <1>10 DEF SmallestBox, Growth!SmallestBox, Tight, Growth!PosInf, Growth!NegInf
<1> QED  BY <1>9, <1>11

-----------------------------------------------------------------------------
(* The COPC reader *)

\* What a hierarchy says of a cell is a place and a number of points.
FilesOK == \A r \in Readers : \A k \in DOMAIN file[r] : file[r][k] = <<file[r][k][1], file[r][k][2]>>

\* An entry says where which cell's points are, and how many.
HandOK == hand # None => hand = Copc!Entry(hand.key, hand.offset, hand.point_count)

\* A selection survives the tagged struct it crosses in, zeros and all.
LEMMA LodCrosses ==
  ASSUME NEW lod \in Copc!Lods
  PROVE  Copc!LodFromC(Copc!LodToC(lod)) = lod
<1> USE DEF Copc!LodFromC, Copc!LodToC, Copc!LodStruct
<1>1. CASE lod = <<"All">>
  BY <1>1
<1>2. ASSUME NEW l \in 0 .. 2, lod = <<"Resolution", l>> PROVE Copc!LodFromC(Copc!LodToC(lod)) = lod
  BY <1>2
<1>3. ASSUME NEW l \in 0 .. 1, lod = <<"Level", l>> PROVE Copc!LodFromC(Copc!LodToC(lod)) = lod
  BY <1>3
<1>4. ASSUME NEW l \in 0 .. 1, NEW m \in 0 .. 2, lod = <<"LevelMinMax", l, m>>
      PROVE  Copc!LodFromC(Copc!LodToC(lod)) = lod
  BY <1>4
<1>5. \/ lod = <<"All">>
      \/ \E l \in 0 .. 2 : lod = <<"Resolution", l>>
      \/ \E l \in 0 .. 1 : lod = <<"Level", l>>
      \/ \E l \in 0 .. 1, m \in 0 .. 2 : lod = <<"LevelMinMax", l, m>>
  BY DEF Copc!Lods
<1> QED  BY <1>1, <1>2, <1>3, <1>4, <1>5

\* So does a box, also the empty one and none at all.
LEMMA BoxCrosses ==
  ASSUME NEW box
  PROVE  Copc!BoundsFromC(Copc!BoundsToC(box)) = box
BY DEF Copc!BoundsFromC, Copc!BoundsToC

\* The queries of the two levels share out the query of all levels.
LEMMA LevelsShareOut ==
  ASSUME NEW h, NEW box
  PROVE  Copc!LasQuery(h, <<"All">>, box) =
           UNION {Copc!LasQuery(h, Copc!LodFromC(Copc!LodToC(<<"Level", l>>)), box) : l \in 0 .. 1}
<1>1. \A l \in 0 .. 1 : Copc!LodFromC(Copc!LodToC(<<"Level", l>>)) = <<"Level", l>>
  BY LodCrosses DEF Copc!Lods
<1>2. \A k : Copc!InLevels(<<"All">>, Copc!Level(k))
  BY DEF Copc!InLevels
<1>3. \A k : \A l \in 0 .. 1 : Copc!InLevels(<<"Level", l>>, Copc!Level(k)) <=> Copc!Level(k) = l
  BY DEF Copc!InLevels
<1>4. \A k : Copc!Level(k) \in 0 .. 1
  BY DEF Copc!Level
<1>5. \A k : k \in Copc!LasQuery(h, <<"All">>, box) <=> k \in DOMAIN h /\ Copc!Touched(box, k)
  BY <1>2 DEF Copc!LasQuery
<1>6. \A k : \A l \in 0 .. 1 : k \in Copc!LasQuery(h, <<"Level", l>>, box)
                                 <=> k \in DOMAIN h /\ Copc!Level(k) = l /\ Copc!Touched(box, k)
  BY <1>3 DEF Copc!LasQuery
<1> HIDE DEF Copc!LasQuery
<1> DEFINE All == UNION {Copc!LasQuery(h, Copc!LodFromC(Copc!LodToC(<<"Level", l>>)), box) : l \in 0 .. 1}
<1>7. \A k : k \in All <=> \E l \in 0 .. 1 : k \in Copc!LasQuery(h, <<"Level", l>>, box)
  BY <1>1
<1> HIDE DEF All
<1>8. \A k : k \in All <=> k \in DOMAIN h /\ Copc!Touched(box, k)
  BY <1>4, <1>6, <1>7
<1>9. Copc!LasQuery(h, <<"All">>, box) = All
  BY <1>5, <1>8
<1> QED  BY <1>9 DEF All

\* The two passes over a page agree: all of it or a bad entry.
LEMMA PassesAgree ==
  ASSUME NEW n \in Nat, NEW page \in [1 .. n -> {"good", "bad"}]
  PROVE  LET entries == Copc!FillPass(page, Copc!CountPass(page))
         IN  IF entries = None THEN \E i \in DOMAIN page : page[i] = "bad"
             ELSE entries = page /\ \A i \in DOMAIN page : page[i] = "good"
<1>1. page \in Seq({"good", "bad"}) /\ Len(page) = n /\ DOMAIN page = 1 .. n
  OBVIOUS
<1>2. None # n /\ None # page
  BY <1>1, PointAssumption
<1>3. CASE \E i \in DOMAIN page : page[i] = "bad"
  BY <1>3 DEF Copc!FillPass, Copc!CountPass
<1>4. CASE ~\E i \in DOMAIN page : page[i] = "bad"
  <2>1. Copc!CountPass(page) = n
    BY <1>1, <1>4 DEF Copc!CountPass
  <2>2. Copc!FillPass(page, n) = SubSeq(page, 1, n)
    BY <1>1, <1>2, <1>4 DEF Copc!FillPass
  <2>3. SubSeq(page, 1, n) = page
    BY <1>1
  <2>4. \A i \in DOMAIN page : page[i] = "good"
    BY <1>1, <1>4
  <2> QED  BY <1>2, <2>1, <2>2, <2>3, <2>4
<1> QED  BY <1>3, <1>4

\* A read: KnownEntry is exactly that the entry is one of this file's.
LEMMA KnownMeansOwn ==
  ASSUME NEW r \in Readers, FilesOK, HandOK, hand # None
  PROVE  /\ Copc!KnownEntry(file[r], hand) <=>
              \E k \in DOMAIN file[r] : hand = Copc!Entry(k, file[r][k][1], file[r][k][2])
         /\ Copc!KnownEntry(file[r], hand) =>
              /\ file[r][hand.key] = <<hand.offset, hand.point_count>>
              /\ file[r][hand.key][1] = hand.offset /\ file[r][hand.key][2] = hand.point_count
<1>1. ASSUME Copc!KnownEntry(file[r], hand)
      PROVE  /\ hand.key \in DOMAIN file[r]
             /\ file[r][hand.key] = <<hand.offset, hand.point_count>>
             /\ file[r][hand.key][1] = hand.offset /\ file[r][hand.key][2] = hand.point_count
             /\ hand = Copc!Entry(hand.key, file[r][hand.key][1], file[r][hand.key][2])
  BY <1>1 DEF HandOK, Copc!KnownEntry
<1>2. ASSUME NEW k \in DOMAIN file[r], hand = Copc!Entry(k, file[r][k][1], file[r][k][2])
      PROVE  Copc!KnownEntry(file[r], hand)
  BY <1>2 DEF FilesOK, Copc!KnownEntry, Copc!Entry
<1> QED  BY <1>1, <1>2

CopcOK == FilesOK /\ HandOK /\ ReadsOwnChunks /\ QueryVisitsSelected /\ ListsWholePage

\* Every call of a COPC caller keeps what is known of its answers.
LEMMA CopcStep ==
  ASSUME CopcOK, Copc!Next
  PROVE  CopcOK'
<1> USE DEF CopcOK
<1> DEFINE Settled == ReadsOwnChunks' /\ QueryVisitsSelected' /\ ListsWholePage'
<1>1. ASSUME out'.op = "none" PROVE Settled
  BY <1>1 DEF ReadsOwnChunks, Copc!ReadsOwnChunks, QueryVisitsSelected, Copc!QueryVisitsSelected,
              ListsWholePage, Copc!ListsWholePage
<1>2. ASSUME NEW r \in Readers, NEW k \in Copc!Keys, Copc!TakeEntry(r, k)
      PROVE  file' = file /\ HandOK' /\ Settled
  <2>1. file' = file /\ out'.op = "none"
    BY <1>2 DEF Copc!TakeEntry, Copc!NoAnswer
  <2>2. HandOK'
    BY <1>2 DEF Copc!TakeEntry, HandOK, Copc!Entry
  <2> QED  BY <1>1, <2>1, <2>2
<1>3. ASSUME NEW o \in Offsets, NEW n \in 1 .. MaxCount + 1, Copc!EditEntry(o, n)
      PROVE  file' = file /\ HandOK' /\ Settled
  <2>1. file' = file /\ out'.op = "none"
    BY <1>3 DEF Copc!EditEntry, Copc!NoAnswer
  <2>2. HandOK'
    BY <1>3 DEF Copc!EditEntry, HandOK, Copc!Entry
  <2> QED  BY <1>1, <2>1, <2>2
<1>4. ASSUME NEW r \in Readers, Copc!read_entry(r)
      PROVE  file' = file /\ HandOK' /\ Settled
  <2>1. /\ out'.op = "read" /\ out'.reader = r /\ out'.entry = hand
        /\ out'.points \in IF Copc!KnownEntry(file[r], hand) THEN Copc!LasReadEntry(r, hand) ELSE {None}
        /\ out'.room = IF Copc!KnownEntry(file[r], hand) THEN hand.point_count ELSE 0
        /\ file' = file /\ held' = held /\ hand' = hand /\ hand # None
    BY <1>4 DEF Copc!read_entry
  <2>2. ReadsOwnChunks'
    <3>1. CASE Copc!KnownEntry(file[r], hand)
      <4>1. out'.points # None =>
              out'.points = <<hand.offset, hand.point_count>> /\ hand.point_count <= held[r][hand.offset]
        BY <2>1, <3>1 DEF Copc!LasReadEntry
      <4> QED  BY <2>1, <3>1, <4>1, KnownMeansOwn DEF ReadsOwnChunks, Copc!ReadsOwnChunks, Copc!Entry
    <3>2. CASE ~Copc!KnownEntry(file[r], hand)
      BY <2>1, <3>2, KnownMeansOwn DEF ReadsOwnChunks, Copc!ReadsOwnChunks, Copc!Entry
    <3> QED  BY <3>1, <3>2
  <2> QED
    BY <2>1, <2>2 DEF HandOK, QueryVisitsSelected, Copc!QueryVisitsSelected, ListsWholePage,
                      Copc!ListsWholePage
<1>5. ASSUME NEW r \in Readers, NEW lod \in Copc!Lods, NEW box \in SUBSET Children \cup {None},
             Copc!query(r, lod, box)
      PROVE  file' = file /\ HandOK' /\ Settled
  <2>1. /\ out'.op = "query" /\ out'.reader = r /\ out'.lod = lod /\ out'.box = box
        /\ out'.cells \in Copc!LasQueried(r, lod, box)
        /\ file' = file /\ hand' = hand
    BY <1>5, LodCrosses, BoxCrosses DEF Copc!query
  <2>2. out'.cells # None => out'.cells = Copc!LasQuery(file[r], lod, box) /\ lod # <<"Resolution", 0>>
    BY <2>1 DEF Copc!LasQueried
  <2>3. lod = <<"All">> =>
          Copc!LasQuery(file[r], lod, box) =
            UNION {Copc!LasQuery(file[r], Copc!LodFromC(Copc!LodToC(<<"Level", l>>)), box) : l \in 0 .. 1}
    BY LevelsShareOut
  <2>4. QueryVisitsSelected'
    BY <2>1, <2>2, <2>3 DEF QueryVisitsSelected, Copc!QueryVisitsSelected
  <2> QED
    BY <2>1, <2>4 DEF HandOK, ReadsOwnChunks, Copc!ReadsOwnChunks, ListsWholePage, Copc!ListsWholePage
<1>6. ASSUME NEW n \in 0 .. MaxPage, NEW page \in [1 .. n -> {"good", "bad"}], Copc!iter_entries(page)
      PROVE  file' = file /\ HandOK' /\ Settled
  <2>1. /\ out'.op = "iter" /\ out'.page = page
        /\ out'.entries = Copc!FillPass(page, Copc!CountPass(page))
        /\ file' = file /\ hand' = hand
    BY <1>6 DEF Copc!iter_entries
  <2>2. ListsWholePage'
    BY <2>1, PassesAgree DEF ListsWholePage, Copc!ListsWholePage
  <2> QED
    BY <2>1, <2>2 DEF HandOK, ReadsOwnChunks, Copc!ReadsOwnChunks, QueryVisitsSelected,
                      Copc!QueryVisitsSelected
<1>7. ASSUME Copc!Looked PROVE file' = file /\ HandOK' /\ Settled
  <2>1. file' = file /\ hand' = hand /\ out'.op = "none"
    BY <1>7 DEF Copc!Looked, Copc!NoAnswer
  <2> QED  BY <1>1, <2>1 DEF HandOK
<1>8. file' = file /\ HandOK' /\ Settled
  BY <1>2, <1>3, <1>4, <1>5, <1>6, <1>7 DEF Copc!Next
<1> QED  BY <1>8 DEF FilesOK

\* Before any call there is no answer.
LEMMA CopcStart ==
  ASSUME Init
  PROVE  CopcOK
<1>1. out.op = "none" /\ hand = None
  BY DEF Init, Copc!Init, Copc!NoAnswer
<1>2. FilesOK
  <2>1. CASE part = "copc"
    <3>1. file \in [Readers -> Copc!Hierarchies]
      BY <2>1 DEF Init, Copc!Init
    <3>2. ASSUME NEW h \in Copc!Hierarchies, NEW k \in DOMAIN h
          PROVE  h[k] = <<h[k][1], h[k][2]>>
      <4>1. PICK ks \in SUBSET Copc!Keys : h \in [ks -> Offsets \X (1 .. MaxCount)]
        BY <3>2 DEF Copc!Hierarchies
      <4>2. h[k] \in Offsets \X (1 .. MaxCount)
        BY <4>1
      <4> QED  BY <4>2
    <3> QED  BY <3>1, <3>2 DEF FilesOK
  <2>2. CASE part # "copc"
    <3>1. \A r \in Readers : file[r] = <<>>
      BY <2>2 DEF Init
    <3> QED  BY <3>1 DEF FilesOK
  <2> QED  BY <2>1, <2>2
<1> QED
  BY <1>1, <1>2 DEF CopcOK, HandOK, ReadsOwnChunks, Copc!ReadsOwnChunks, QueryVisitsSelected,
                    Copc!QueryVisitsSelected, ListsWholePage, Copc!ListsWholePage

-----------------------------------------------------------------------------
(* Buffers put one after the other *)

\* Induction over the numbers, for a set.
LEMMA Induction ==
  ASSUME NEW S, 0 \in S, \A n \in Nat : n \in S => n + 1 \in S
  PROVE  Nat \subseteq S
<1> DEFINE R == OpToRel(<, Nat)
           T == Nat \ S
<1>1. IsWellFoundedOn(R, Nat)
  BY NatLessThanWellFounded, Zenon
<1>2. SUFFICES ASSUME T # {} PROVE FALSE
  OBVIOUS
<1>3. PICK x \in T : \A y \in T : <<y, x>> \notin R
  <2>1. T \subseteq Nat
    OBVIOUS
  <2> HIDE DEF R, T
  <2> QED  BY <1>1, <1>2, <2>1, WFMin
<1>4. x # 0 /\ x - 1 \in Nat /\ x - 1 < x /\ (x - 1) + 1 = x
  OBVIOUS
<1>5. <<x - 1, x>> \in R
  BY <1>4, Zenon DEF OpToRel
<1> QED  BY <1>3, <1>4, <1>5

Joined(s, t) == s \o t

\* How buffers are joined: the length, what is where, and in which order.
LEMMA JoinedIs ==
  ASSUME NEW T
  PROVE  /\ \A s, t \in Seq(T) :
              /\ Joined(s, t) \in Seq(T)
              /\ Len(Joined(s, t)) = Len(s) + Len(t)
              /\ \A i \in 1 .. Len(s) : Joined(s, t)[i] = s[i]
              /\ \A i \in 1 .. Len(t) : Joined(s, t)[Len(s) + i] = t[i]
         /\ \A s \in Seq(T) : Joined(s, <<>>) = s /\ Joined(<<>>, s) = s
         /\ \A s, t, u \in Seq(T) : Joined(Joined(s, t), u) = Joined(s, Joined(t, u))
<1>1. ASSUME NEW s \in Seq(T), NEW t \in Seq(T)
      PROVE  /\ Joined(s, t) \in Seq(T)
             /\ Len(Joined(s, t)) = Len(s) + Len(t)
             /\ \A i \in 1 .. Len(s) : Joined(s, t)[i] = s[i]
             /\ \A i \in 1 .. Len(t) : Joined(s, t)[Len(s) + i] = t[i]
  BY DEF Joined
<1>2. ASSUME NEW s \in Seq(T) PROVE Joined(s, <<>>) = s /\ Joined(<<>>, s) = s
  BY ConcatEmptySeq DEF Joined
<1>3. ASSUME NEW s \in Seq(T), NEW t \in Seq(T), NEW u \in Seq(T)
      PROVE  Joined(Joined(s, t), u) = Joined(s, Joined(t, u))
  BY ConcatAssociative DEF Joined
<1> QED  BY <1>1, <1>2, <1>3

\* Joining one buffer after the other, as far as it is defined.
Joins(s, n, T, f) ==
  /\ f \in [0 .. n -> Seq(T)]
  /\ f[0] = <<>>
  /\ \A i \in 1 .. n : f[i] = Joined(f[i - 1], s[i])

\* There is a way to do so.
LEMMA JoinsExist ==
  ASSUME NEW T, NEW n \in Nat, NEW s \in [1 .. n -> Seq(T)]
  PROVE  \E f : Joins(s, n, T, f)
<1> DEFINE N == {k \in Nat : k <= n => \E f : Joins(s, k, T, f)}
<1>1. 0 \in N
  <2> DEFINE f == [i \in 0 .. 0 |-> <<>>]
  <2>1. f \in [0 .. 0 -> Seq(T)] /\ f[0] = <<>> /\ 1 .. 0 = {}
    OBVIOUS
  <2> HIDE DEF f
  <2>2. Joins(s, 0, T, f)
    BY <2>1 DEF Joins
  <2> QED  BY <2>2
<1>2. ASSUME NEW k \in Nat, k \in N PROVE k + 1 \in N
  <2> SUFFICES ASSUME k + 1 <= n PROVE \E f : Joins(s, k + 1, T, f)
    OBVIOUS
  <2>1. PICK f : Joins(s, k, T, f)
    BY <1>2
  <2>2. f \in [0 .. k -> Seq(T)] /\ f[k] \in Seq(T) /\ s[k + 1] \in Seq(T)
    BY <2>1 DEF Joins
  <2>3. PICK next : next = Joined(f[k], s[k + 1])
    OBVIOUS
  <2>4. next \in Seq(T)
    BY <2>2, <2>3, JoinedIs
  <2> DEFINE g == [i \in 0 .. k + 1 |-> IF i = k + 1 THEN next ELSE f[i]]
  <2>5. /\ g \in [0 .. k + 1 -> Seq(T)] /\ g[0] = f[0] /\ g[k + 1] = next
        /\ \A i \in 0 .. k : g[i] = f[i]
    BY <2>2, <2>4
  <2> HIDE DEF g
  <2>6. ASSUME NEW i \in 1 .. k + 1 PROVE g[i] = Joined(g[i - 1], s[i])
    <3>1. CASE i = k + 1
      <4>1. i - 1 = k /\ k \in 0 .. k
        BY <3>1
      <4>2. g[i - 1] = f[k]
        BY <2>5, <4>1
      <4> QED  BY <2>3, <2>5, <3>1, <4>2
    <3>2. CASE i # k + 1
      <4>1. i \in 1 .. k /\ i \in 0 .. k /\ i - 1 \in 0 .. k
        BY <3>2
      <4>2. f[i] = Joined(f[i - 1], s[i])
        BY <2>1, <4>1 DEF Joins
      <4>3. g[i] = f[i] /\ g[i - 1] = f[i - 1]
        BY <2>5, <4>1
      <4> QED  BY <4>2, <4>3
    <3> QED  BY <3>1, <3>2
  <2>7. Joins(s, k + 1, T, g)
    BY <2>1, <2>5, <2>6 DEF Joins
  <2> QED  BY <2>7
<1>3. Nat \subseteq N
  <2> HIDE DEF N
  <2> QED  BY <1>1, <1>2, Induction
<1> QED  BY <1>3

\* FlattenSeq is where it ends.
LEMMA FlattenIs ==
  ASSUME NEW T, NEW n \in Nat, NEW s \in [1 .. n -> Seq(T)], NEW f, Joins(s, n, T, f)
  PROVE  Exchange!FlattenSeq(s) = f[n] /\ Exchange!FlattenSeq(s) \in Seq(T)
<1>1. Len(s) = n /\ (n = 0 => s = <<>>)
  OBVIOUS
<1>2. f \in [0 .. n -> Seq(T)] /\ f[n] \in Seq(T) /\ f[0] = <<>>
  BY DEF Joins
<1>3. CASE n = 0
  BY <1>1, <1>2, <1>3 DEF Exchange!FlattenSeq
<1>4. CASE n # 0
  <2> DEFINE Def(g) == g = [i \in 1 .. n |-> IF i = 1 THEN s[i] ELSE g[i - 1] \o s[i]]
             flatten == CHOOSE g : Def(g)
             h == [i \in 1 .. n |-> f[i]]
  <2>1. Def(h)
    <3>1. ASSUME NEW i \in 1 .. n PROVE h[i] = IF i = 1 THEN s[i] ELSE h[i - 1] \o s[i]
      <4>1. f[i] = Joined(f[i - 1], s[i]) /\ s[i] \in Seq(T)
        BY DEF Joins
      <4>2. CASE i = 1
        <5>1. f[i] = s[i]
          BY <1>2, <4>1, <4>2, JoinedIs
        <5> QED  BY <4>2, <5>1
      <4>3. CASE i # 1
        <5>1. h[i - 1] = f[i - 1] /\ h[i] = f[i]
          BY <4>3
        <5> QED  BY <4>1, <4>3, <5>1 DEF Joined
      <4> QED  BY <4>2, <4>3
    <3> QED  BY <3>1
  <2>2. Def(flatten)
    <3> HIDE DEF Def, h
    <3> QED  BY <2>1
  <2>3. Exchange!FlattenSeq(s) = flatten[n]
    BY <1>1, <1>4 DEF Exchange!FlattenSeq
  <2> HIDE DEF flatten
  <2>4. \A i \in 1 .. n : flatten[i] = IF i = 1 THEN s[i] ELSE flatten[i - 1] \o s[i]
    BY <2>2
  <2> DEFINE N == {i \in Nat : i \in 1 .. n => flatten[i] = f[i]}
  <2>5. 0 \in N
    OBVIOUS
  <2>6. ASSUME NEW i \in Nat, i \in N PROVE i + 1 \in N
    <3> SUFFICES ASSUME i + 1 \in 1 .. n PROVE flatten[i + 1] = f[i + 1]
      OBVIOUS
    <3>1. (i + 1) - 1 = i /\ f[i + 1] = Joined(f[i], s[i + 1]) /\ s[i + 1] \in Seq(T)
      <4>1. PICK k : k = i + 1
        OBVIOUS
      <4>2. k \in 1 .. n /\ k - 1 = i
        BY <4>1
      <4>3. f[k] = Joined(f[k - 1], s[k])
        BY <4>2 DEF Joins
      <4>4. s[k] \in Seq(T)
        BY <4>2
      <4> QED  BY <4>1, <4>2, <4>3, <4>4
    <3>2. CASE i = 0
      <4>1. f[i + 1] = s[i + 1]
        BY <1>2, <3>1, <3>2, JoinedIs
      <4> QED  BY <2>4, <3>2, <4>1
    <3>3. CASE i # 0
      <4>1. i + 1 # 1 /\ flatten[i] = f[i]
        BY <2>6, <3>3
      <4>2. flatten[i + 1] = flatten[i] \o s[i + 1]
        BY <2>4, <3>1, <4>1
      <4> QED  BY <3>1, <4>1, <4>2 DEF Joined
    <3> QED  BY <3>2, <3>3
  <2>7. Nat \subseteq N
    <3> HIDE DEF N
    <3> QED  BY <2>5, <2>6, Induction
  <2> QED  BY <1>2, <1>4, <2>3, <2>7
<1> QED  BY <1>3, <1>4

\* Of nothing, nothing.
LEMMA FlattenNone == Exchange!FlattenSeq(<<>>) = <<>>
BY DEF Exchange!FlattenSeq

Buffers(n, T) == [1 .. n -> Seq(T)]

\* The first buffer comes first, and then the others.
LEMMA FlattenFirst ==
  ASSUME NEW T, NEW n \in Nat, NEW k, k = n + 1,
         NEW s \in Buffers(k, T), NEW t \in Buffers(n, T), \A i \in 1 .. n : t[i] = s[i + 1]
  PROVE  /\ Exchange!FlattenSeq(s) = Joined(s[1], Exchange!FlattenSeq(t))
         /\ s[1] \in Seq(T)
         /\ Exchange!FlattenSeq(t) \in Seq(T)
<1>1. t \in [1 .. n -> Seq(T)] /\ s \in [1 .. n + 1 -> Seq(T)] /\ s[1] \in Seq(T) /\ n + 1 \in Nat
  BY DEF Buffers
<1>2. PICK f : Joins(s, n + 1, T, f)
  BY <1>1, JoinsExist
<1>3. PICK g : Joins(t, n, T, g)
  BY <1>1, JoinsExist
<1>4. g \in [0 .. n -> Seq(T)]
  BY <1>3 DEF Joins
<1> DEFINE N == {i \in Nat : i <= n => f[i + 1] = Joined(s[1], g[i])}
<1>5. 0 \in N
  <2>1. f[1] = Joined(f[0], s[1]) /\ f[0] = <<>> /\ g[0] = <<>>
    <3>1. 1 \in 1 .. n + 1 /\ 1 - 1 = 0
      OBVIOUS
    <3> QED  BY <1>2, <1>3, <3>1 DEF Joins
  <2>2. f[1] = s[1] /\ Joined(s[1], <<>>) = s[1]
    BY <1>1, <2>1, JoinedIs
  <2> QED  BY <2>1, <2>2
<1>6. ASSUME NEW i \in Nat, i \in N PROVE i + 1 \in N
  <2> SUFFICES ASSUME i + 1 <= n PROVE f[(i + 1) + 1] = Joined(s[1], g[i + 1])
    OBVIOUS
  <2>1. i + 1 \in 1 .. n /\ (i + 1) + 1 \in 1 .. n + 1 /\ ((i + 1) + 1) - 1 = i + 1 /\ (i + 1) - 1 = i
        /\ i \in 0 .. n
    OBVIOUS
  <2>2. f[(i + 1) + 1] = Joined(f[i + 1], s[(i + 1) + 1])
    BY <1>2, <2>1 DEF Joins
  <2>3. g[i + 1] = Joined(g[i], t[i + 1])
    BY <1>3, <2>1 DEF Joins
  <2>4. f[i + 1] = Joined(s[1], g[i])
    BY <1>6, <2>1
  <2>5. t[i + 1] = s[(i + 1) + 1] /\ t[i + 1] \in Seq(T) /\ g[i] \in Seq(T)
    <3>1. t[i + 1] = s[(i + 1) + 1]
      BY <2>1
    <3>2. t[i + 1] \in Seq(T)
      BY <1>1, <2>1
    <3> QED  BY <1>4, <2>1, <3>1, <3>2
  <2>6. Joined(Joined(s[1], g[i]), t[i + 1]) = Joined(s[1], Joined(g[i], t[i + 1]))
    <3>1. PICK u, v, w : u = s[1] /\ v = g[i] /\ w = t[i + 1]
      OBVIOUS
    <3>2. u \in Seq(T) /\ v \in Seq(T) /\ w \in Seq(T)
      BY <1>1, <2>5, <3>1
    <3>3. Joined(Joined(u, v), w) = Joined(u, Joined(v, w))
      BY <3>2, JoinedIs
    <3> QED  BY <3>1, <3>3, Zenon
  <2> QED  BY <2>2, <2>3, <2>4, <2>5, <2>6, Zenon
<1>7. Nat \subseteq N
  <2> HIDE DEF N
  <2> QED  BY <1>5, <1>6, Induction
<1>8. f[n + 1] = Joined(s[1], g[n])
  BY <1>7
<1>9. Exchange!FlattenSeq(s) = f[n + 1]
  BY <1>1, <1>2, FlattenIs
<1>10. Exchange!FlattenSeq(t) = g[n] /\ Exchange!FlattenSeq(t) \in Seq(T)
  BY <1>1, <1>3, FlattenIs
<1> QED  BY <1>1, <1>8, <1>9, <1>10

EquallyLong(s, n, T, m) ==
  /\ s \in [1 .. n -> Seq(T)]
  /\ \A i \in 1 .. n : Len(s[i]) = m

\* Where each buffer lies when all are equally long.
LEMMA FlattenSlots ==
  ASSUME NEW T, NEW n \in Nat, NEW s, NEW m \in Nat, EquallyLong(s, n, T, m), NEW i \in 1 .. n
  PROVE  SubSeq(Exchange!FlattenSeq(s), (i - 1) * m + 1, i * m) = s[i]
<1>1. PICK f : Joins(s, n, T, f)
  BY JoinsExist DEF EquallyLong
<1>2. Exchange!FlattenSeq(s) = f[n] /\ f[n] \in Seq(T)
  BY <1>1, FlattenIs DEF EquallyLong, Joins
<1> DEFINE Slots(k) == /\ Len(f[k]) = k * m
                       /\ \A a \in 1 .. k, j \in 1 .. m : f[k][(a - 1) * m + j] = s[a][j]
           N == {k \in Nat : k <= n => Slots(k)}
<1>3. 0 \in N
  BY <1>1 DEF Joins
<1>4. ASSUME NEW k \in Nat, k \in N PROVE k + 1 \in N
  <2> SUFFICES ASSUME k + 1 <= n PROVE Slots(k + 1)
    OBVIOUS
  <2>1. Slots(k)
    BY <1>4
  <2>2. PICK x, y : x = f[k] /\ y = s[k + 1]
    OBVIOUS
  <2>3. x \in Seq(T) /\ y \in Seq(T) /\ Len(y) = m /\ Len(x) = k * m
    BY <1>1, <2>1, <2>2 DEF EquallyLong, Joins
  <2>4. f[k + 1] = Joined(x, y)
    <3>1. k + 1 \in 1 .. n /\ (k + 1) - 1 = k
      OBVIOUS
    <3> QED  BY <1>1, <2>2, <3>1 DEF Joins
  <2>5. PICK z : z = Joined(x, y)
    OBVIOUS
  <2>6. /\ Len(z) = k * m + m
        /\ \A p \in 1 .. k * m : z[p] = x[p]
        /\ \A p \in 1 .. m : z[k * m + p] = y[p]
    <3>1. Len(z) = Len(x) + Len(y)
      BY <2>3, <2>5, JoinedIs
    <3>2. \A p \in 1 .. Len(x) : z[p] = x[p]
      BY <2>3, <2>5, JoinedIs
    <3>3. \A p \in 1 .. Len(y) : z[Len(x) + p] = y[p]
      BY <2>3, <2>5, JoinedIs
    <3> QED  BY <2>3, <3>1, <3>2, <3>3
  <2>7. (k + 1) * m = k * m + m /\ (k + 1) - 1 = k
    OBVIOUS
  <2>8. ASSUME NEW a \in 1 .. k + 1, NEW j \in 1 .. m PROVE z[(a - 1) * m + j] = s[a][j]
    <3>1. CASE a = k + 1
      BY <2>2, <2>6, <2>7, <3>1
    <3>2. CASE a # k + 1
      <4>1. a \in 1 .. k
        BY <3>2
      <4>2. PICK b \in Nat : a - 1 + b = k - 1
        <5>1. k - a \in Nat /\ (a - 1) + (k - a) = k - 1
          BY <4>1
        <5> QED  BY <5>1
      <4>3. (a - 1) * m \in Nat /\ b * m \in Nat /\ k * m \in Nat
        BY <4>1
      <4>4. k * m = (a - 1) * m + b * m + m
        <5>1. k = (a - 1) + b + 1
          BY <4>1, <4>2
        <5> QED  BY <4>1, <5>1
      <4>5. (a - 1) * m + j \in 1 .. k * m
        <5>1. PICK A \in Nat, B \in Nat, K \in Nat : A = (a - 1) * m /\ B = b * m /\ K = k * m
          BY <4>3
        <5>2. K = A + B + m
          BY <4>4, <5>1
        <5>3. j \in 1 .. m /\ m \in Nat
          OBVIOUS
        <5>4. A + j \in 1 .. K
          BY ONLY <5>2, <5>3, A \in Nat, B \in Nat
        <5> QED  BY <5>1, <5>4
      <4> QED  BY <2>1, <2>2, <2>6, <4>1, <4>5
    <3> QED  BY <3>1, <3>2
  <2> QED  BY <2>4, <2>5, <2>6, <2>7, <2>8
<1>5. Nat \subseteq N
  <2> HIDE DEF N
  <2> QED  BY <1>3, <1>4, Induction
<1>6. Slots(n)
  BY <1>5
<1>7. PICK lo : lo = (i - 1) * m
  OBVIOUS
<1>8. lo \in Nat /\ i * m = lo + m
  BY <1>7
<1>9. s[i] \in Seq(T) /\ Len(s[i]) = m
  BY DEF EquallyLong
<1>10. SubSeq(f[n], lo + 1, lo + m) = [j \in 1 .. m |-> f[n][lo + j]]
  BY <1>2, <1>8
<1>11. s[i] = [j \in 1 .. m |-> s[i][j]]
  BY <1>9
<1>12. \A j \in 1 .. m : f[n][lo + j] = s[i][j]
  BY <1>6, <1>7
<1> QED  BY <1>2, <1>7, <1>8, <1>10, <1>11, <1>12

-----------------------------------------------------------------------------
(* Points there and back *)

\* What a buffer is split into when the first part is cut off.
LEMMA SplitOff ==
  ASSUME NEW T, NEW x \in Seq(T), NEW y \in Seq(T), NEW z, z = Joined(x, y)
  PROVE  SubSeq(z, 1, Len(x)) = x /\ SubSeq(z, Len(x) + 1, Len(z)) = y /\ Len(x) <= Len(z)
<1>1. /\ z \in Seq(T) /\ Len(z) = Len(x) + Len(y)
      /\ \A i \in 1 .. Len(x) : z[i] = x[i]
      /\ \A i \in 1 .. Len(y) : z[Len(x) + i] = y[i]
  <2>1. /\ Joined(x, y) \in Seq(T) /\ Len(Joined(x, y)) = Len(x) + Len(y)
        /\ \A i \in 1 .. Len(x) : Joined(x, y)[i] = x[i]
        /\ \A i \in 1 .. Len(y) : Joined(x, y)[Len(x) + i] = y[i]
    BY JoinedIs
  <2> QED  BY <2>1
<1>2. SubSeq(z, 1, Len(x)) = [i \in 1 .. Len(x) |-> z[i]]
  BY <1>1
<1>3. SubSeq(z, Len(x) + 1, Len(z)) = [i \in 1 .. Len(y) |-> z[Len(x) + i]]
  BY <1>1
<1>4. x = [i \in 1 .. Len(x) |-> x[i]] /\ y = [i \in 1 .. Len(y) |-> y[i]]
  OBVIOUS
<1>5. [i \in 1 .. Len(x) |-> z[i]] = [i \in 1 .. Len(x) |-> x[i]]
  BY <1>1
<1>6. [i \in 1 .. Len(y) |-> z[Len(x) + i]] = [i \in 1 .. Len(y) |-> y[i]]
  BY <1>1
<1>7. Len(x) <= Len(z)
  BY <1>1
<1> QED  BY <1>2, <1>3, <1>4, <1>5, <1>6, <1>7

\* The caller's points, and those that las-rs decodes, whose coordinate may be one
\* the caller did not have.
AnyPoints == [x : Nat, scan_direction : Directions, classification : Classes,
              optional : [Optional -> Numbers \cup {Exchange!Absent}],
              extra_bytes : UNION {[1 .. n -> Bytes] : n \in 0 .. MaxExtra}]

LEMMA PointsAreAny == Exchange!Points \subseteq AnyPoints
<1>1. Xs \subseteq Nat
  BY PointAssumption
<1> QED  BY <1>1 DEF Exchange!Points, AnyPoints

\* A point is what Rust makes of its C struct and its own extra bytes, and what
\* C++ makes of them: an absent field is absent on the other side, and not 0.
LEMMA AnyPointCrosses ==
  ASSUME NEW p \in AnyPoints
  PROVE  /\ p.extra_bytes \in Seq(Bytes)
         /\ Exchange!ToC(p).extra_bytes_len = Len(p.extra_bytes)
         /\ Exchange!FromFfi(Exchange!ToC(p), p.extra_bytes) = p
         /\ Exchange!FromC(Exchange!ToC(p), p.extra_bytes) = p
<1>1. p = [x |-> p.x, scan_direction |-> p.scan_direction,
           classification |-> p.classification, optional |-> p.optional,
           extra_bytes |-> p.extra_bytes]
  BY DEF AnyPoints
<1>2. p.optional \in [Optional -> Numbers \cup {Exchange!Absent}]
  BY DEF AnyPoints
<1>3. p.extra_bytes \in Seq(Bytes)
  <2>1. PICK n \in 0 .. MaxExtra : p.extra_bytes \in [1 .. n -> Bytes]
    BY DEF AnyPoints
  <2>2. n \in Nat
    BY PointAssumption
  <2> QED  BY <2>1, <2>2
<1> DEFINE q == Exchange!ToC(p)
           crossed == [field \in Optional |-> IF field \in q.has THEN q.optional[field]
                                              ELSE Exchange!Absent]
<1>4. \A field \in Optional : crossed[field] = p.optional[field]
  BY DEF Exchange!ToC
<1>5. crossed = p.optional
  <2>1. p.optional = [field \in Optional |-> p.optional[field]]
    BY <1>2
  <2> QED  BY <1>4, <2>1
<1>6. /\ q.x = p.x /\ q.scan_direction = p.scan_direction
      /\ q.classification = p.classification /\ q.extra_bytes_len = Len(p.extra_bytes)
  BY DEF Exchange!ToC
<1> HIDE DEF q
<1>7. Exchange!FromFfi(q, p.extra_bytes) = p
  BY <1>1, <1>5, <1>6 DEF Exchange!FromFfi
<1>8. Exchange!FromC(q, p.extra_bytes) = p
  BY <1>1, <1>5, <1>6 DEF Exchange!FromC
<1> QED  BY <1>3, <1>6, <1>7, <1>8 DEF q

LEMMA PointCrosses ==
  ASSUME NEW p \in Exchange!Points
  PROVE  /\ p.extra_bytes \in Seq(Bytes)
         /\ Exchange!ToC(p).extra_bytes_len = Len(p.extra_bytes)
         /\ Exchange!FromFfi(Exchange!ToC(p), p.extra_bytes) = p
BY PointsAreAny, AnyPointCrosses

\* The division of a product and a rest by one of the factors.
LEMMA QuotientIs ==
  ASSUME NEW a \in Nat, NEW b \in Nat \ {0}, NEW q \in Nat, NEW r \in Nat, a = b * q + r, r < b
  PROVE  a \div b = q
<1>1. PICK d \in Int : d = a \div b
  OBVIOUS
<1>2. PICK m \in 0 .. b - 1 : a = b * d + m
  BY <1>1
<1>3. b * (q - d) = m - r
  BY <1>2
<1>4. q - d < 1
  BY <1>3
<1>5. q - d > -1
  BY <1>3
<1> QED  BY <1>1, <1>4, <1>5

\* A number that a record can hold survives the encoding.
LEMMA RepresentableSurvives ==
  ASSUME NEW n \in Exchange!Representable
  PROVE  Exchange!Direct(Exchange!ToRaw(n)) = n
<1>1. PICK raw \in 0 .. MaxRaw : n = Exchange!Direct(raw)
  BY DEF Exchange!Representable
<1>2. raw \in Nat /\ Scale \in Nat \ {0}
  BY PointAssumption
<1>3. PICK p \in Nat : p = raw * Scale
  BY <1>2
<1>4. 2 * p + Scale = (2 * Scale) * raw + Scale
  BY <1>2, <1>3
<1>5. 2 * p + Scale \in Nat /\ 2 * Scale \in Nat \ {0} /\ Scale < 2 * Scale
  BY <1>2
<1>6. (2 * p + Scale) \div (2 * Scale) = raw
  BY <1>2, <1>4, <1>5, QuotientIs
<1> QED  BY <1>1, <1>3, <1>6 DEF Exchange!ToRaw, Exchange!Direct

\* What las-rs decodes of a point it could encode is that point, but for the
\* coordinate, which is one a record can hold.
LEMMA DecodedIs ==
  ASSUME NEW p \in Exchange!Points, Exchange!Encodable(p)
  PROVE  LET d == Exchange!Decoded(p)
         IN  /\ d \in AnyPoints
             /\ d.extra_bytes = p.extra_bytes /\ d.optional = p.optional
             /\ d.x \in Exchange!Representable
             /\ [d EXCEPT !.x = p.x] = p
             /\ p.x \in Exchange!Representable => d = p
<1>1. PICK y : y = Exchange!Direct(Exchange!ToRaw(p.x))
  OBVIOUS
<1>2. y \in Exchange!Representable
  BY <1>1 DEF Exchange!Encodable, Exchange!Representable
<1>3. y \in Nat
  <2>1. \A raw \in 0 .. MaxRaw : raw * Scale \in Nat
    BY PointAssumption
  <2> QED  BY <1>2, <2>1 DEF Exchange!Representable, Exchange!Direct
<1>4. PICK d : d = [p EXCEPT !.x = y]
  OBVIOUS
<1>5. Exchange!Decoded(p) = d
  BY <1>1, <1>4 DEF Exchange!Decoded
<1>6. p \in AnyPoints
  BY PointsAreAny
<1>7. d \in AnyPoints /\ d.x = y /\ d.extra_bytes = p.extra_bytes /\ d.optional = p.optional
  BY <1>3, <1>4, <1>6 DEF AnyPoints
<1>8. [d EXCEPT !.x = p.x] = p
  BY <1>4, <1>6 DEF AnyPoints
<1>9. ASSUME p.x \in Exchange!Representable PROVE d = p
  <2>1. y = p.x
    BY <1>1, <1>9, RepresentableSurvives
  <2> QED  BY <1>4, <1>6, <2>1 DEF AnyPoints
<1> QED  BY <1>2, <1>5, <1>7, <1>8, <1>9

\* The extra bytes of the points after the first n.
Extras(ps, n) == [i \in 1 .. Len(ps) - n |-> ps[n + i].extra_bytes]

\* They are those of the next point and of the points after it.
LEMMA ExtrasSplit ==
  ASSUME NEW ps, NEW n \in Nat, ps \in Seq(Exchange!Points), n < Len(ps)
  PROVE  /\ Exchange!FlattenSeq(Extras(ps, n))
              = Joined(ps[n + 1].extra_bytes, Exchange!FlattenSeq(Extras(ps, n + 1)))
         /\ ps[n + 1].extra_bytes \in Seq(Bytes)
         /\ Exchange!FlattenSeq(Extras(ps, n + 1)) \in Seq(Bytes)
<1>1. PICK m \in Nat : Len(ps) - n = m + 1 /\ Len(ps) - (n + 1) = m
  <2>1. PICK m : m = Len(ps) - (n + 1)
    OBVIOUS
  <2>2. m \in Nat /\ Len(ps) - n = m + 1
    BY <2>1
  <2> QED  BY <2>1, <2>2
<1>2. \A i \in 1 .. m + 1 : ps[n + i].extra_bytes \in Seq(Bytes)
  <2>1. ASSUME NEW i \in 1 .. m + 1 PROVE ps[n + i].extra_bytes \in Seq(Bytes)
    <3>1. n + i \in 1 .. Len(ps)
      BY <1>1
    <3>2. ps[n + i] \in Exchange!Points
      BY <3>1
    <3> QED  BY <3>2, PointCrosses
  <2> QED  BY <2>1
<1>3. PICK s, t : s = Extras(ps, n) /\ t = Extras(ps, n + 1)
  OBVIOUS
<1>4. s = [i \in 1 .. m + 1 |-> ps[n + i].extra_bytes]
  BY <1>1, <1>3 DEF Extras
<1>5. PICK k : k = m + 1 /\ s \in [1 .. k -> Seq(Bytes)] /\ s[1] = ps[n + 1].extra_bytes
  <2>1. s \in [1 .. m + 1 -> Seq(Bytes)]
    BY <1>2, <1>4
  <2>2. 1 \in 1 .. m + 1
    OBVIOUS
  <2> QED  BY <1>4, <2>1, <2>2
<1>6. t = [i \in 1 .. m |-> s[i + 1]]
  <2>1. t = [i \in 1 .. m |-> ps[(n + 1) + i].extra_bytes]
    BY <1>1, <1>3 DEF Extras
  <2>2. \A i \in 1 .. m : i + 1 \in 1 .. m + 1 /\ n + (i + 1) = (n + 1) + i
    OBVIOUS
  <2> QED  BY <1>4, <2>1, <2>2
<1>7. /\ Exchange!FlattenSeq(s) = Joined(s[1], Exchange!FlattenSeq(t))
      /\ s[1] \in Seq(Bytes)
      /\ Exchange!FlattenSeq(t) \in Seq(Bytes)
  <2>1. m \in Nat
    OBVIOUS
  <2>2. \A i \in 1 .. m : t[i] = s[i + 1]
    BY <1>6
  <2>3. t \in [1 .. m -> Seq(Bytes)]
    BY <1>5, <1>6
  <2>4. s \in Buffers(k, Bytes) /\ t \in Buffers(m, Bytes)
    BY <1>5, <2>3 DEF Buffers
  <2> QED  BY ONLY <1>5, <2>1, <2>2, <2>4, FlattenFirst
<1> QED  BY <1>3, <1>5, <1>7

\* What is known of a call that hands points over, by how far it is.
ExchangeTyped ==
  /\ points \in Seq(Exchange!Points)
  /\ format.extra_bytes \in Nat
  /\ DOMAIN columns = Optional
  /\ status \in {"given", "crossing", "taken", "stored", "refused", "left"}
  /\ status = "given" => taken = <<>>
  /\ status = "crossing" =>
       /\ c.points = [i \in 1 .. Len(points) |-> Exchange!ToC(points[i])]
       /\ taken \in Seq(Exchange!Points) /\ Len(taken) <= Len(points)
       /\ \A k \in 1 .. Len(taken) : Exchange!Accepted(points[k])
  /\ status \in {"taken", "stored", "left"} =>
       taken = points /\ \A k \in 1 .. Len(points) : Exchange!Accepted(points[k])
  /\ status = "refused" =>
       \/ \E k \in 1 .. Len(points) : ~Exchange!Accepted(points[k])
       \/ taken = points /\ \E k \in 1 .. Len(points) : ~Exchange!Encodable(points[k])
  /\ status = "stored" =>
       /\ \A i \in 1 .. Len(points) :
            Exchange!Matches(points[i], format) /\ Exchange!Encodable(points[i])
       /\ stored = [i \in 1 .. Len(points) |-> Exchange!Decoded(points[i])]
  /\ status # "stored" => back = {} /\ \A field \in Optional : columns[field] = {}

ExchangeOK == ExchangeTyped /\ BuffersInStep /\ ReadsBack

\* The bytes that are still to come, in the words of the property.
LEMMA InStep ==
  BuffersInStep <=> (status = "crossing" => /\ taken = SubSeq(points, 1, Len(taken))
                                            /\ rest = Exchange!FlattenSeq(Extras(points, Len(taken))))
BY DEF BuffersInStep, Exchange!BuffersInStep, Extras

\* Both buffers start with the first point.
LEMMA HandOverOK == ASSUME ExchangeOK, Exchange!HandOver PROVE ExchangeOK'
<1>1. /\ points \in Seq(Exchange!Points) /\ taken = <<>> /\ points' = points /\ taken' = taken
      /\ format' = format /\ status' = "crossing" /\ back' = back /\ columns' = columns
      /\ c'.points = [i \in DOMAIN points |-> Exchange!ToC(points[i])]
      /\ rest' = Exchange!FlattenSeq([i \in DOMAIN points |-> points[i].extra_bytes])
      /\ status = "given"
  BY DEF ExchangeOK, ExchangeTyped, Exchange!HandOver
<1>2. DOMAIN points = 1 .. Len(points) /\ Len(taken) = 0 /\ Len(points) \in Nat
  BY <1>1
<1>3. ExchangeTyped'
  <2>1. taken \in Seq(Exchange!Points)
    BY <1>1
  <2> QED  BY <1>1, <1>2, <2>1 DEF ExchangeOK, ExchangeTyped
<1>4. Extras(points, 0) = [i \in DOMAIN points |-> points[i].extra_bytes]
  BY <1>2 DEF Extras
<1>5. SubSeq(points, 1, 0) = <<>>
  BY <1>1
<1>6. BuffersInStep'
  <2>1. taken' = SubSeq(points', 1, Len(taken'))
    BY <1>1, <1>2, <1>5
  <2>2. rest' = Exchange!FlattenSeq(Extras(points, 0))
    BY <1>1, <1>4
  <2>3. rest' = Exchange!FlattenSeq(Extras(points', Len(taken')))
    BY <1>1, <1>2, <2>2
  <2> QED
    BY <2>1, <2>3 DEF BuffersInStep, Exchange!BuffersInStep, Extras
<1>7. ReadsBack'
  BY <1>1 DEF ReadsBack, Exchange!ReadsBack
<1> QED  BY <1>3, <1>6, <1>7 DEF ExchangeOK

\* One more point is the start of the points with one more.
LEMMA OneMorePoint ==
  ASSUME NEW ps, NEW n \in Nat, ps \in Seq(Exchange!Points), n < Len(ps),
         NEW qs \in Seq(Exchange!Points), qs = SubSeq(ps, 1, n)
  PROVE  /\ Append(qs, ps[n + 1]) = SubSeq(ps, 1, n + 1)
         /\ ps[n + 1] \in Exchange!Points
         /\ Append(qs, ps[n + 1]) \in Seq(Exchange!Points)
         /\ Len(Append(qs, ps[n + 1])) = n + 1
<1>1. ps[n + 1] \in Exchange!Points /\ Len(qs) = n
  OBVIOUS
<1>2. SubSeq(ps, 1, n + 1) = [i \in 1 .. n + 1 |-> ps[i]]
  OBVIOUS
<1>3. Append(qs, ps[n + 1]) = [i \in 1 .. n + 1 |-> IF i = n + 1 THEN ps[n + 1] ELSE qs[i]]
  BY <1>1
<1>4. \A i \in 1 .. n : qs[i] = ps[i]
  OBVIOUS
<1> QED  BY <1>1, <1>2, <1>3, <1>4

\* points_from_ffi takes the next point, with its own bytes, or refuses it.
LEMMA NextPointOK == ASSUME ExchangeOK, Exchange!NextPoint PROVE ExchangeOK'
<1>1. /\ points \in Seq(Exchange!Points) /\ taken \in Seq(Exchange!Points) /\ status = "crossing"
      /\ c.points = [i \in 1 .. Len(points) |-> Exchange!ToC(points[i])]
      /\ Len(taken) < Len(c.points)
      /\ points' = points /\ format' = format /\ c' = c /\ back' = back /\ columns' = columns
  BY DEF ExchangeOK, ExchangeTyped, Exchange!NextPoint
<1>2. /\ taken = SubSeq(points, 1, Len(taken))
      /\ rest = Exchange!FlattenSeq(Extras(points, Len(taken)))
  BY <1>1, InStep DEF ExchangeOK
<1>3. PICK n, ps, r : n = Len(taken) /\ ps = points /\ r = rest
  OBVIOUS
<1>4. n \in Nat /\ n < Len(ps) /\ ps \in Seq(Exchange!Points) /\ n + 1 \in 1 .. Len(ps)
  <2>1. Len(c.points) = Len(points)
    BY <1>1
  <2> QED  BY <1>1, <1>3, <2>1
<1>5. PICK p \in Exchange!Points : p = ps[n + 1]
  BY <1>4
<1>6. c.points[Len(taken) + 1] = Exchange!ToC(p)
  BY <1>1, <1>3, <1>4, <1>5
<1>7. PICK x, y : x = p.extra_bytes /\ y = Exchange!FlattenSeq(Extras(ps, n + 1))
  OBVIOUS
<1>8. x \in Seq(Bytes) /\ y \in Seq(Bytes) /\ r = Joined(x, y)
  BY <1>2, <1>3, <1>4, <1>5, <1>7, ExtrasSplit
<1>9. SubSeq(r, 1, Len(x)) = x /\ SubSeq(r, Len(x) + 1, Len(r)) = y
  BY <1>8, SplitOff
<1>10. Exchange!SplitAt(Exchange!ToC(p)) = Len(x)
  BY <1>7, PointCrosses DEF Exchange!SplitAt
<1>11. \/ /\ taken' = Append(taken, Exchange!FromFfi(Exchange!ToC(p), SubSeq(r, 1, Len(x))))
          /\ rest' = SubSeq(r, Len(x) + 1, Len(r))
          /\ status' = status
          /\ Exchange!Accepted(p)
       \/ /\ status' = "refused"
          /\ taken' = taken /\ rest' = rest
          /\ ~Exchange!Accepted(p)
  <2>1. Exchange!Accepted(Exchange!ToC(p)) <=> Exchange!Accepted(p)
    BY DEF Exchange!Accepted, Exchange!ToC
  <2> QED  BY <1>3, <1>6, <1>10, <2>1 DEF Exchange!NextPoint
<1>12. CASE /\ taken' = Append(taken, Exchange!FromFfi(Exchange!ToC(p), SubSeq(r, 1, Len(x))))
            /\ rest' = SubSeq(r, Len(x) + 1, Len(r))
            /\ status' = status
            /\ Exchange!Accepted(p)
  <2>1. Exchange!FromFfi(Exchange!ToC(p), SubSeq(r, 1, Len(x))) = p
    BY <1>7, <1>9, PointCrosses
  <2>2. taken' = Append(taken, p) /\ rest' = y
    BY <1>9, <1>12, <2>1
  <2>3. PICK qs : qs = taken
    OBVIOUS
  <2>4. qs \in Seq(Exchange!Points) /\ qs = SubSeq(ps, 1, n)
    BY <1>1, <1>2, <1>3, <2>3
  <2>5. /\ Append(qs, ps[n + 1]) = SubSeq(ps, 1, n + 1)
        /\ Append(qs, ps[n + 1]) \in Seq(Exchange!Points)
        /\ Len(Append(qs, ps[n + 1])) = n + 1
    BY <1>4, <2>4, OneMorePoint
  <2>6. /\ taken' = SubSeq(ps, 1, n + 1) /\ taken' \in Seq(Exchange!Points) /\ Len(taken') = n + 1
    BY <1>5, <2>2, <2>3, <2>5
  <2>7. ExchangeTyped'
    <3>1. \A k \in 1 .. n + 1 : Exchange!Accepted(ps[k])
      <4>1. \A k \in 1 .. n : Exchange!Accepted(ps[k])
        BY <1>1, <1>3 DEF ExchangeOK, ExchangeTyped
      <4>2. ASSUME NEW k \in 1 .. n + 1, k # n + 1 PROVE k \in 1 .. n
        BY <1>4, <4>2
      <4> QED  BY <1>5, <1>12, <4>1, <4>2
    <3>2. \A k \in 1 .. Len(taken') : Exchange!Accepted(points'[k])
      BY <1>1, <1>3, <2>6, <3>1
    <3> QED  BY <1>1, <1>3, <1>4, <1>12, <2>6, <3>2 DEF ExchangeOK, ExchangeTyped
  <2>8. taken' = SubSeq(points', 1, Len(taken')) /\ rest' = Exchange!FlattenSeq(Extras(points', Len(taken')))
    BY <1>1, <1>3, <1>7, <2>2, <2>6
  <2>9. BuffersInStep'
    BY <2>8 DEF BuffersInStep, Exchange!BuffersInStep, Extras
  <2>10. ReadsBack'
    BY <1>1, <1>12 DEF ReadsBack, Exchange!ReadsBack
  <2> QED  BY <2>7, <2>9, <2>10 DEF ExchangeOK
<1>13. CASE status' = "refused" /\ taken' = taken /\ rest' = rest /\ ~Exchange!Accepted(p)
  <2>1. ExchangeTyped'
    <3>1. \E k \in 1 .. Len(points') : ~Exchange!Accepted(points'[k])
      BY <1>1, <1>3, <1>4, <1>5, <1>13
    <3> QED  BY <1>1, <1>13, <3>1 DEF ExchangeOK, ExchangeTyped
  <2>2. BuffersInStep' /\ ReadsBack'
    BY <1>13 DEF BuffersInStep, Exchange!BuffersInStep, ReadsBack, Exchange!ReadsBack
  <2> QED  BY <2>1, <2>2 DEF ExchangeOK
<1> QED  BY <1>11, <1>12, <1>13

\* Once Rust has been through all of them it has the caller's points.
LEMMA AllTakenOK == ASSUME ExchangeOK, Exchange!AllTaken PROVE ExchangeOK'
<1>1. /\ points \in Seq(Exchange!Points) /\ status = "crossing"
      /\ c.points = [i \in 1 .. Len(points) |-> Exchange!ToC(points[i])]
      /\ taken = SubSeq(points, 1, Len(taken)) /\ Len(taken) = Len(c.points)
      /\ status' = "taken"
      /\ points' = points /\ format' = format /\ taken' = taken /\ back' = back /\ columns' = columns
  BY DEF ExchangeOK, ExchangeTyped, BuffersInStep, Exchange!BuffersInStep, Exchange!AllTaken
<1>2. Len(c.points) = Len(points)
  BY <1>1
<1>3. taken = points
  <2>1. PICK ps : ps = points
    OBVIOUS
  <2>2. ps \in Seq(Exchange!Points) /\ taken = SubSeq(ps, 1, Len(ps))
    BY <1>1, <1>2, <2>1
  <2>3. SubSeq(ps, 1, Len(ps)) = ps
    BY <2>2
  <2> QED  BY <2>1, <2>2, <2>3
<1>4. ExchangeTyped'
  BY <1>1, <1>3 DEF ExchangeOK, ExchangeTyped
<1>5. BuffersInStep' /\ ReadsBack'
  BY <1>1 DEF BuffersInStep, Exchange!BuffersInStep, ReadsBack, Exchange!ReadsBack
<1> QED  BY <1>4, <1>5 DEF ExchangeOK

\* Points are stored in a format that all of them match, if all can be encoded.
LEMMA EncodeOK == ASSUME ExchangeOK, Exchange!Encode PROVE ExchangeOK'
<1>1. /\ points \in Seq(Exchange!Points) /\ taken = points /\ status = "taken"
      /\ format' \in Exchange!Formats
      /\ points' = points /\ taken' = taken /\ back' = back /\ columns' = columns
      /\ back = {} /\ \A field \in Optional : columns[field] = {}
      /\ DOMAIN columns = Optional
      /\ DOMAIN taken = 1 .. Len(points)
  BY DEF ExchangeOK, ExchangeTyped, Exchange!Encode
<1>2. format'.extra_bytes \in Nat
  BY <1>1, PointAssumption DEF Exchange!Formats
<1>3. \/ status' = "left"
      \/ status' = "refused" /\ \E i \in 1 .. Len(points) : ~Exchange!Encodable(points[i])
      \/ /\ status' = "stored"
         /\ \A i \in 1 .. Len(points) :
              Exchange!Matches(points[i], format') /\ Exchange!Encodable(points[i])
         /\ stored' = [i \in 1 .. Len(points) |-> Exchange!Decoded(points[i])]
  BY <1>1 DEF Exchange!Encode
<1>4. ExchangeTyped'
  <2>1. status' = "stored" =>
          /\ \A i \in 1 .. Len(points') :
               Exchange!Matches(points[i], format)' /\ Exchange!Encodable(points'[i])
          /\ stored' = [i \in 1 .. Len(points') |-> Exchange!Decoded(points'[i])]
    BY <1>1, <1>3 DEF Exchange!Matches
  <2>2. \A k \in 1 .. Len(points') : Exchange!Accepted(points'[k])
    BY <1>1 DEF ExchangeOK, ExchangeTyped
  <2>3. status' = "refused" =>
          taken' = points' /\ \E k \in 1 .. Len(points') : ~Exchange!Encodable(points'[k])
    BY <1>1, <1>3
  <2>4. status' \in {"left", "refused", "stored"}
    BY <1>3
  <2> QED  BY <1>1, <1>2, <2>1, <2>2, <2>3, <2>4 DEF ExchangeTyped
<1>5. BuffersInStep'
  BY <1>3 DEF BuffersInStep, Exchange!BuffersInStep
<1>6. ReadsBack'
  BY <1>1 DEF ReadsBack, Exchange!ReadsBack
<1> QED  BY <1>4, <1>5, <1>6 DEF ExchangeOK

CutOut(ps, slots, m) ==
  [i \in DOMAIN ps |-> Exchange!FromC(Exchange!ToC(ps[i]), SubSeq(slots, (i - 1) * m + 1, i * m))]

\* What C++ makes of the structs and of the slots of one buffer: the points, when
\* each has as many extra bytes as a slot.
LEMMA SlotsCutOut ==
  ASSUME NEW ps, NEW m \in Nat, ps \in Seq(AnyPoints),
         \A i \in 1 .. Len(ps) : Len(ps[i].extra_bytes) = m,
         NEW slots, slots = Exchange!FlattenSeq([i \in DOMAIN ps |-> ps[i].extra_bytes])
  PROVE  CutOut(ps, slots, m) = ps
<1>1. PICK n \in Nat : n = Len(ps) /\ DOMAIN ps = 1 .. n
  OBVIOUS
<1>2. PICK s : s = [i \in 1 .. n |-> ps[i].extra_bytes]
  OBVIOUS
<1>3. \A i \in 1 .. n : ps[i] \in AnyPoints /\ ps[i].extra_bytes \in Seq(Bytes)
  BY <1>1, AnyPointCrosses
<1>4. EquallyLong(s, n, Bytes, m)
  BY <1>1, <1>2, <1>3 DEF EquallyLong
<1>5. slots = Exchange!FlattenSeq(s)
  BY <1>1, <1>2
<1>6. ASSUME NEW i \in 1 .. n
      PROVE  Exchange!FromC(Exchange!ToC(ps[i]), SubSeq(slots, (i - 1) * m + 1, i * m)) = ps[i]
  <2>1. SubSeq(slots, (i - 1) * m + 1, i * m) = s[i]
    <3>1. SubSeq(Exchange!FlattenSeq(s), (i - 1) * m + 1, i * m) = s[i]
      BY ONLY n \in Nat, m \in Nat, i \in 1 .. n, <1>4, FlattenSlots, Zenon
    <3> QED  BY ONLY <1>5, <3>1, Zenon
  <2>2. s[i] = ps[i].extra_bytes
    BY <1>2
  <2> QED  BY <1>3, <2>1, <2>2, AnyPointCrosses
<1>7. PICK cut : cut = CutOut(ps, slots, m)
  OBVIOUS
<1>8. /\ cut = [i \in 1 .. n |-> cut[i]]
      /\ \A i \in 1 .. n : cut[i] = Exchange!FromC(Exchange!ToC(ps[i]),
                                                   SubSeq(slots, (i - 1) * m + 1, i * m))
  BY <1>1, <1>7 DEF CutOut
<1>9. \A i \in 1 .. n : cut[i] = ps[i]
  BY <1>6, <1>8
<1>10. ps = [i \in 1 .. n |-> ps[i]]
  BY <1>1
<1>11. cut = ps
  BY ONLY <1>8, <1>9, <1>10
<1> QED  BY <1>7, <1>11

\* points() gives the points that las-rs decodes.
LEMMA PointsBackOK == ASSUME ExchangeOK, Exchange!PointsBack PROVE ExchangeOK'
<1>1. /\ points \in Seq(Exchange!Points) /\ taken = points /\ status = "stored"
      /\ \A i \in 1 .. Len(points) : Exchange!Matches(points[i], format) /\ Exchange!Encodable(points[i])
      /\ stored = [i \in 1 .. Len(points) |-> Exchange!Decoded(points[i])]
      /\ format.extra_bytes \in Nat
      /\ points' = points /\ format' = format /\ taken' = taken /\ stored' = stored
      /\ status' = status /\ columns' = columns
  BY DEF ExchangeOK, ExchangeTyped, Exchange!PointsBack
<1>2. PICK ps, m, slots :
        /\ ps = stored /\ m = format.extra_bytes
        /\ slots = Exchange!FlattenSeq([i \in DOMAIN ps |-> ps[i].extra_bytes])
  OBVIOUS
<1>3. back' = {CutOut(ps, slots, m)}
  BY <1>1, <1>2 DEF Exchange!PointsBack, CutOut
<1>4. PICK n \in Nat : n = Len(points) /\ DOMAIN points = 1 .. n
  BY <1>1
<1>5. \A i \in 1 .. n :
        /\ ps[i] \in AnyPoints
        /\ ps[i].extra_bytes = points[i].extra_bytes
        /\ ps[i].x \in Exchange!Representable
        /\ [ps[i] EXCEPT !.x = points[i].x] = points[i]
        /\ points[i].x \in Exchange!Representable => ps[i] = points[i]
  <2>1. \A i \in 1 .. n : points[i] \in Exchange!Points /\ ps[i] = Exchange!Decoded(points[i])
    BY <1>1, <1>2, <1>4
  <2> QED  BY <1>1, <1>4, <2>1, DecodedIs
<1>6. ps \in Seq(AnyPoints) /\ Len(ps) = n /\ DOMAIN ps = 1 .. n
  <2>1. ps = [i \in 1 .. n |-> ps[i]]
    BY <1>1, <1>2, <1>4
  <2>2. ps \in [1 .. n -> AnyPoints]
    BY <1>5, <2>1
  <2> QED  BY <2>2
<1>7. \A i \in 1 .. Len(ps) : Len(ps[i].extra_bytes) = m
  BY <1>1, <1>2, <1>4, <1>5, <1>6 DEF Exchange!Matches
<1>8. back' = {ps}
  <2>1. m \in Nat
    BY <1>1, <1>2
  <2>2. CutOut(ps, slots, m) = ps
    BY <1>2, <1>6, <1>7, <2>1, SlotsCutOut
  <2> QED  BY <1>3, <2>2
<1>9. ExchangeTyped'
  <2>1. \A i \in 1 .. Len(points') : Exchange!Matches(points[i], format)'
    BY <1>1 DEF Exchange!Matches
  <2> QED  BY <1>1, <2>1 DEF ExchangeOK, ExchangeTyped
<1>10. BuffersInStep'
  BY <1>1 DEF BuffersInStep, Exchange!BuffersInStep
<1>11. ReadsBack'
  BY <1>1, <1>4, <1>5, <1>6, <1>8 DEF ExchangeOK, ReadsBack, Exchange!ReadsBack, Exchange!Representable
<1> QED  BY <1>9, <1>10, <1>11 DEF ExchangeOK

\* A column gives this field of the caller's points.
LEMMA ReadColumnOK ==
  ASSUME ExchangeOK, NEW which \in Optional, Exchange!ReadColumn(which)
  PROVE  ExchangeOK'
<1>1. /\ points \in Seq(Exchange!Points) /\ taken = points /\ status = "stored"
      /\ \A i \in 1 .. Len(points) : Exchange!Matches(points[i], format) /\ Exchange!Encodable(points[i])
      /\ stored = [i \in 1 .. Len(points) |-> Exchange!Decoded(points[i])]
      /\ DOMAIN columns = Optional
      /\ points' = points /\ format' = format /\ taken' = taken /\ stored' = stored
      /\ status' = status /\ back' = back
      /\ columns' = [columns EXCEPT ![which] = {Exchange!Column(which)}]
  BY DEF ExchangeOK, ExchangeTyped, Exchange!ReadColumn
<1>2. ExchangeTyped'
  <2>1. \A i \in 1 .. Len(points') : Exchange!Matches(points[i], format)'
    BY <1>1 DEF Exchange!Matches
  <2> QED  BY <1>1, <2>1 DEF ExchangeOK, ExchangeTyped
<1>3. BuffersInStep'
  BY <1>1 DEF BuffersInStep, Exchange!BuffersInStep
<1>4. ReadsBack'
  <2>1. DOMAIN stored = DOMAIN points
    BY <1>1
  <2>2. \A i \in DOMAIN points : stored[i].optional = points[i].optional
    <3>1. \A i \in DOMAIN points : points[i] \in Exchange!Points /\ i \in 1 .. Len(points)
      BY <1>1
    <3> QED  BY <1>1, <3>1, DecodedIs
  <2>3. [i \in DOMAIN stored |-> stored[i].optional[which]]
          = [i \in DOMAIN points |-> points[i].optional[which]]
    BY <2>1, <2>2
  <2>4. Exchange!Column(which) = IF which \in format.has
                                 THEN <<[i \in DOMAIN points |-> points[i].optional[which]]>>
                                 ELSE <<>>
    BY <2>3 DEF Exchange!Column
  <2> QED
    BY <1>1, <2>4 DEF ExchangeOK, ReadsBack, Exchange!ReadsBack, Exchange!Representable
<1> QED  BY <1>2, <1>3, <1>4 DEF ExchangeOK

\* The steps of the exchange.
LEMMA ExchangeStep == ASSUME ExchangeOK, Exchange!Next PROVE ExchangeOK'
<1>1. CASE Exchange!HandOver
  BY <1>1, HandOverOK
<1>2. CASE Exchange!NextPoint
  BY <1>2, NextPointOK
<1>3. CASE Exchange!AllTaken
  BY <1>3, AllTakenOK
<1>4. CASE Exchange!Encode
  BY <1>4, EncodeOK
<1>5. CASE Exchange!PointsBack
  BY <1>5, PointsBackOK
<1>6. ASSUME NEW which \in Optional, Exchange!ReadColumn(which) PROVE ExchangeOK'
  BY <1>6, ReadColumnOK
<1> QED
  BY <1>1, <1>2, <1>3, <1>4, <1>5, <1>6 DEF Exchange!Next, Exchange!Call

\* Before the call, with any points of the caller's or with none.
LEMMA ExchangeStart ==
  ASSUME IF part = "exchange" THEN Exchange!Init ELSE points = <<>> /\ Exchange!Given
  PROVE  ExchangeOK
<1>1. points \in Seq(Exchange!Points)
  <2>1. CASE part = "exchange"
    <3>1. PICK n \in 0 .. MaxPoints : points \in [1 .. n -> Exchange!Points]
      BY <2>1 DEF Exchange!Init
    <3>2. n \in Nat
      BY PointAssumption
    <3> QED  BY <3>1, <3>2
  <2>2. CASE part # "exchange"
    BY <2>2
  <2> QED  BY <2>1, <2>2
<1>2. Exchange!Given
  BY DEF Exchange!Init
<1>3. ExchangeTyped
  BY <1>1, <1>2 DEF Exchange!Given, ExchangeTyped
<1>4. BuffersInStep /\ ReadsBack
  BY <1>2 DEF Exchange!Given, BuffersInStep, Exchange!BuffersInStep, ReadsBack, Exchange!ReadsBack
<1> QED  BY <1>3, <1>4 DEF ExchangeOK

\* The steps of the other parts leave the exchange alone.
LEMMA ExchangeAlone ==
  ASSUME ExchangeOK, UNCHANGED exchangeVars
  PROVE  ExchangeOK'
BY DEF exchangeVars, ExchangeOK, ExchangeTyped, Exchange!Matches, BuffersInStep,
       Exchange!BuffersInStep, ReadsBack, Exchange!ReadsBack, Exchange!Representable

\* Where the next point is cut off there are its bytes.
SplitFits ==
  status = "crossing" /\ Len(taken) < Len(c.points) =>
    Exchange!SplitAt(c.points[Len(taken) + 1]) <= Len(rest)

\* It is the length of its own extra bytes, and those come first.
LEMMA NextSplitFits == ExchangeOK => SplitFits
<1> SUFFICES ASSUME ExchangeOK, status = "crossing", Len(taken) < Len(c.points)
             PROVE  Exchange!SplitAt(c.points[Len(taken) + 1]) <= Len(rest)
  BY DEF SplitFits
<1>1. /\ points \in Seq(Exchange!Points) /\ taken \in Seq(Exchange!Points)
      /\ c.points = [i \in 1 .. Len(points) |-> Exchange!ToC(points[i])]
      /\ rest = Exchange!FlattenSeq(Extras(points, Len(taken)))
  BY InStep DEF ExchangeOK, ExchangeTyped
<1>2. PICK n, ps, r : n = Len(taken) /\ ps = points /\ r = rest
  OBVIOUS
<1>3. n \in Nat /\ n < Len(ps) /\ ps \in Seq(Exchange!Points) /\ n + 1 \in 1 .. Len(ps)
  <2>1. Len(c.points) = Len(points)
    BY <1>1
  <2> QED  BY <1>1, <1>2, <2>1
<1>4. PICK p \in Exchange!Points : p = ps[n + 1]
  BY <1>3
<1>5. c.points[Len(taken) + 1] = Exchange!ToC(p)
  BY <1>1, <1>2, <1>3, <1>4
<1>6. PICK x, y : x = p.extra_bytes /\ y = Exchange!FlattenSeq(Extras(ps, n + 1))
  OBVIOUS
<1>7. x \in Seq(Bytes) /\ y \in Seq(Bytes) /\ r = Joined(x, y)
  BY <1>1, <1>2, <1>3, <1>4, <1>6, ExtrasSplit
<1>8. Len(x) <= Len(r)
  BY <1>7, SplitOff
<1>9. Exchange!SplitAt(Exchange!ToC(p)) = Len(x)
  BY <1>6, PointCrosses DEF Exchange!SplitAt
<1> QED  BY <1>2, <1>5, <1>8, <1>9

\* What has come of a call: all the points or a refusal, by what they are.
OutcomeFits ==
  /\ status \in {"taken", "stored", "left"} =>
       taken = points /\ \A k \in DOMAIN points : Exchange!Accepted(points[k])
  /\ status = "stored" => \A k \in DOMAIN points : Exchange!Encodable(points[k])
  /\ status = "refused" =>
       \/ \E k \in DOMAIN points : ~Exchange!Accepted(points[k])
       \/ taken = points /\ \E k \in DOMAIN points : ~Exchange!Encodable(points[k])

\* By what is known of it at each point.
LEMMA OutcomeKnown == ExchangeOK => OutcomeFits
<1> SUFFICES ASSUME ExchangeOK PROVE OutcomeFits
  OBVIOUS
<1>1. DOMAIN points = 1 .. Len(points)
  BY DEF ExchangeOK, ExchangeTyped
<1> QED  BY <1>1 DEF ExchangeOK, ExchangeTyped, OutcomeFits

\* How many steps a call has to go at most.
ToGo == IF status = "given" THEN Len(points) + 3
        ELSE IF status = "crossing" THEN (Len(points) - Len(taken)) + 2
        ELSE IF status = "taken" THEN 1 ELSE 0

\* Every step of a call brings it nearer to its end.
LEMMA CallShrinks ==
  ASSUME ExchangeOK, Exchange!Call
  PROVE  ToGo \in Nat /\ ToGo' \in Nat /\ ToGo' < ToGo
<1>1. points \in Seq(Exchange!Points) /\ points' = points
  BY DEF ExchangeOK, ExchangeTyped, Exchange!Call, Exchange!HandOver, Exchange!NextPoint,
         Exchange!AllTaken, Exchange!Encode
<1>2. PICK n \in Nat : n = Len(points) /\ n = Len(points')
  BY <1>1
<1>3. CASE Exchange!HandOver
  <2>1. status = "given" /\ status' = "crossing" /\ taken = <<>> /\ taken' = <<>>
    BY <1>3 DEF ExchangeOK, ExchangeTyped, Exchange!HandOver
  <2>2. ToGo = n + 3 /\ ToGo' = (n - 0) + 2
    BY <1>2, <2>1 DEF ToGo
  <2> QED  BY <2>2
<1>4. CASE Exchange!NextPoint
  <2>1. /\ status = "crossing" /\ taken \in Seq(Exchange!Points)
        /\ c.points = [i \in 1 .. Len(points) |-> Exchange!ToC(points[i])]
        /\ Len(taken) < Len(c.points)
    BY <1>4 DEF ExchangeOK, ExchangeTyped, Exchange!NextPoint
  <2>2. PICK k \in Nat : k = Len(taken) /\ k < n
    <3>1. Len(c.points) = Len(points)
      BY <1>1, <2>1
    <3> QED  BY <1>2, <2>1, <3>1
  <2>3. status' = "refused" \/ (status' = "crossing" /\ Len(taken') = k + 1)
    <3>1. status' = "refused" \/ (status' = "crossing" /\ \E p : taken' = Append(taken, p))
      BY <1>4, <2>1 DEF Exchange!NextPoint
    <3>2. PICK t \in Seq(Exchange!Points) : t = taken
      BY <2>1
    <3>3. \A p : Len(Append(t, p)) = Len(t) + 1
      BY AppendProperties
    <3> QED  BY <2>2, <3>1, <3>2, <3>3
  <2>4. ToGo = (n - k) + 2 /\ (ToGo' = 0 \/ ToGo' = (n - (k + 1)) + 2)
    BY <1>2, <2>1, <2>2, <2>3 DEF ToGo
  <2> QED  BY <2>2, <2>4
<1>5. CASE Exchange!AllTaken
  <2>1. status = "crossing" /\ status' = "taken" /\ Len(taken) <= Len(points) /\ Len(taken) \in Nat
    BY <1>5 DEF ExchangeOK, ExchangeTyped, Exchange!AllTaken
  <2> QED  BY <1>2, <2>1 DEF ToGo
<1>6. CASE Exchange!Encode
  <2>1. status = "taken" /\ status' \in {"stored", "refused", "left"}
    BY <1>6 DEF Exchange!Encode
  <2> QED  BY <2>1 DEF ToGo
<1> QED  BY <1>3, <1>4, <1>5, <1>6 DEF Exchange!Call

-----------------------------------------------------------------------------
(* The octree *)

\* The three bits of a direction say which it is.
LEMMA DirectionBits ==
  /\ \A d \in 0 .. 7, i \in 0 .. 2 : Octree!Bit(d, i) \in {0, 1}
  /\ \A d, e \in 0 .. 7 : (\A i \in 0 .. 2 : Octree!Bit(d, i) = Octree!Bit(e, i)) => d = e
<1>1. 2 ^ 0 = 1 /\ 2 ^ 1 = 2 /\ 2 ^ 2 = 4
  <2>1. 0 \in 0 .. USizeBits + KeyBits /\ 1 \in 0 .. USizeBits + KeyBits
    BY PointAssumption
  <2>2. 2 ^ (0 + 1) = 2 * 2 ^ 0 /\ 2 ^ (1 + 1) = 2 * 2 ^ 1 /\ 2 ^ 0 = 1
    BY <2>1, Doubling
  <2> QED  BY <2>2
<1>2. \A d \in 0 .. 7 : /\ Octree!Bit(d, 0) = d % 2
                        /\ Octree!Bit(d, 1) = (d \div 2) % 2
                        /\ Octree!Bit(d, 2) = (d \div 4) % 2
  BY <1>1 DEF Octree!Bit
<1>3. \A d \in 0 .. 7 : /\ Octree!Bit(d, 0) \in {0, 1} /\ Octree!Bit(d, 1) \in {0, 1}
                        /\ Octree!Bit(d, 2) \in {0, 1}
                        /\ d = 4 * Octree!Bit(d, 2) + 2 * Octree!Bit(d, 1) + Octree!Bit(d, 0)
  BY <1>2
<1>4. \A i \in 0 .. 2 : i = 0 \/ i = 1 \/ i = 2
  OBVIOUS
<1>5. ASSUME NEW d \in 0 .. 7, NEW i \in 0 .. 2 PROVE Octree!Bit(d, i) \in {0, 1}
  BY <1>3, <1>4
<1>6. ASSUME NEW d \in 0 .. 7, NEW e \in 0 .. 7,
             \A i \in 0 .. 2 : Octree!Bit(d, i) = Octree!Bit(e, i)
      PROVE  d = e
  <2>1. /\ Octree!Bit(d, 0) = Octree!Bit(e, 0) /\ Octree!Bit(d, 1) = Octree!Bit(e, 1)
        /\ Octree!Bit(d, 2) = Octree!Bit(e, 2)
    BY <1>6
  <2> QED  BY <1>3, <2>1
<1> QED  BY <1>5, <1>6

\* Powers of two grow with their exponents.
LEMMA PowersGrow ==
  \A n \in 0 .. KeyBits : 2 ^ n \in Nat \ {0} /\ \A m \in 0 .. n : 2 ^ m <= 2 ^ n
<1> DEFINE Grown(n) == 2 ^ n \in Nat \ {0} /\ \A m \in 0 .. n : 2 ^ m <= 2 ^ n
           N == {n \in Nat : n <= KeyBits => Grown(n)}
<1>1. 0 \in N
  <2>1. 2 ^ 0 = 1
    BY Doubling
  <2>2. ASSUME NEW m \in 0 .. 0 PROVE 2 ^ m <= 2 ^ 0
    <3>1. m = 0
      OBVIOUS
    <3>2. 2 ^ m = 2 ^ 0
      BY <3>1
    <3> QED  BY <2>1, <3>2
  <2>3. Grown(0)
    BY <2>1, <2>2
  <2> QED  BY <2>3
<1>2. ASSUME NEW n \in Nat, n \in N PROVE n + 1 \in N
  <2> SUFFICES ASSUME n + 1 <= KeyBits PROVE Grown(n + 1)
    OBVIOUS
  <2>1. Grown(n)
    BY <1>2, PointAssumption
  <2>2. 2 ^ (n + 1) = 2 * 2 ^ n
    <3>1. n \in 0 .. USizeBits + KeyBits
      BY PointAssumption
    <3> QED  BY <3>1, Doubling
  <2>3. 2 ^ (n + 1) \in Nat \ {0} /\ 2 ^ n <= 2 ^ (n + 1)
    BY <2>1, <2>2
  <2>4. ASSUME NEW m \in 0 .. n + 1 PROVE 2 ^ m <= 2 ^ (n + 1)
    <3>1. CASE m = n + 1
      BY <2>3, <3>1
    <3>2. CASE m # n + 1
      <4>1. m \in 0 .. n
        BY <3>2
      <4>2. 2 ^ m <= 2 ^ n
        BY <2>1, <4>1
      <4> QED  BY <2>1, <2>3, <4>2
    <3> QED  BY <3>1, <3>2
  <2> QED  BY <2>3, <2>4
<1>3. Nat \subseteq N
  <2> HIDE DEF N
  <2> QED  BY <1>1, <1>2, Induction
<1> QED  BY <1>3, PointAssumption

\* f gives the i-th coordinate of each cell on the way along p.
Chain(f, p, i) ==
  /\ f[0] = 0
  /\ \A j \in 0 .. Len(p) : f[j] \in Nat
  /\ \A j \in 1 .. Len(p) : f[j] = 2 * f[j - 1] + Octree!Bit(p[j], i)

Paths == Seq(0 .. 7)

\* Coordinates at a level are less than two to the power of the level.
LEMMA ChainBounded ==
  ASSUME NEW f, NEW p, p \in Paths, Len(p) <= KeyBits, NEW i \in 0 .. 2, Chain(f, p, i)
  PROVE  \A j \in 0 .. Len(p) : f[j] < 2 ^ j
<1> DEFINE N == {j \in Nat : j <= Len(p) => f[j] < 2 ^ j}
<1>1. Len(p) \in Nat
  BY DEF Paths
<1>2. 0 \in N
  BY Doubling DEF Chain
<1>3. ASSUME NEW j \in Nat, j \in N PROVE j + 1 \in N
  <2> SUFFICES ASSUME j + 1 <= Len(p) PROVE f[j + 1] < 2 ^ (j + 1)
    OBVIOUS
  <2>1. j \in 0 .. Len(p) /\ j + 1 \in 1 .. Len(p) /\ (j + 1) - 1 = j
        /\ j \in 0 .. USizeBits + KeyBits /\ j \in 0 .. KeyBits
    BY <1>1, PointAssumption
  <2>2. f[j] \in Nat /\ f[j + 1] = 2 * f[j] + Octree!Bit(p[j + 1], i)
    BY <2>1 DEF Chain
  <2>3. p[j + 1] \in 0 .. 7
    BY <2>1 DEF Paths
  <2>4. Octree!Bit(p[j + 1], i) \in {0, 1}
    BY <2>3, DirectionBits
  <2>5. f[j] < 2 ^ j /\ 2 ^ (j + 1) = 2 * 2 ^ j /\ 2 ^ j \in Nat
    BY <1>1, <1>3, <2>1, Doubling, PowersGrow
  <2>6. PICK pow \in Nat : pow = 2 ^ j
    BY <2>5
  <2>7. PICK x \in Nat, b \in {0, 1} : x = f[j] /\ b = Octree!Bit(p[j + 1], i)
    BY <2>2, <2>4
  <2> QED  BY ONLY <2>2, <2>5, <2>6, <2>7
<1>4. Nat \subseteq N
  <2> HIDE DEF N
  <2> QED  BY <1>2, <1>3, Induction
<1> QED  BY <1>1, <1>4

Axes3 == 0 .. 2

Chains(F, p) == \A i \in Axes3 : Chain(F[i], p, i)

\* Two ways down lead to the same cell of a level exactly when they are the same.
LEMMA SameCellSameWay ==
  ASSUME NEW p, NEW q, p \in Paths, q \in Paths, NEW F, NEW G, Chains(F, p), Chains(G, q),
         NEW n \in Nat, n <= Len(p), n <= Len(q)
  PROVE  (\A i \in Axes3 : F[i][n] = G[i][n]) <=> (\A j \in 1 .. n : p[j] = q[j])
<1> DEFINE Agree(k) == \A i \in Axes3 : F[i][k] = G[i][k]
           Same(k) == \A j \in 1 .. k : p[j] = q[j]
           N == {k \in Nat : k <= n => (Agree(k) <=> Same(k))}
<1>1. 0 \in N
  BY DEF Chains, Chain
<1>2. ASSUME NEW k \in Nat, k \in N PROVE k + 1 \in N
  <2> SUFFICES ASSUME k + 1 <= n PROVE Agree(k + 1) <=> Same(k + 1)
    OBVIOUS
  <2>1. /\ k \in 0 .. Len(p) /\ k \in 0 .. Len(q)
        /\ k + 1 \in 1 .. Len(p) /\ k + 1 \in 1 .. Len(q) /\ (k + 1) - 1 = k
    BY DEF Paths
  <2>2. p[k + 1] \in 0 .. 7 /\ q[k + 1] \in 0 .. 7
    BY <2>1 DEF Paths
  <2>3. ASSUME NEW i \in Axes3
        PROVE  F[i][k + 1] = G[i][k + 1] <=> /\ F[i][k] = G[i][k]
                                             /\ Octree!Bit(p[k + 1], i) = Octree!Bit(q[k + 1], i)
    <3>1. /\ F[i][k] \in Nat /\ F[i][k + 1] = 2 * F[i][k] + Octree!Bit(p[k + 1], i)
          /\ G[i][k] \in Nat /\ G[i][k + 1] = 2 * G[i][k] + Octree!Bit(q[k + 1], i)
      BY <2>1 DEF Chains, Chain
    <3>2. Octree!Bit(p[k + 1], i) \in {0, 1} /\ Octree!Bit(q[k + 1], i) \in {0, 1}
      BY <2>2, DirectionBits DEF Axes3
    <3>3. PICK x \in Nat, y \in Nat, b \in {0, 1}, d \in {0, 1} :
            /\ x = F[i][k] /\ y = G[i][k]
            /\ b = Octree!Bit(p[k + 1], i) /\ d = Octree!Bit(q[k + 1], i)
      BY <3>1, <3>2
    <3>4. 2 * x + b = 2 * y + d <=> x = y /\ b = d
      OBVIOUS
    <3> QED  BY <3>1, <3>3, <3>4
  <2>4. Agree(k + 1) <=> /\ Agree(k)
                         /\ \A i \in Axes3 : Octree!Bit(p[k + 1], i) = Octree!Bit(q[k + 1], i)
    BY <2>3
  <2>5. (\A i \in Axes3 : Octree!Bit(p[k + 1], i) = Octree!Bit(q[k + 1], i)) <=> p[k + 1] = q[k + 1]
    BY <2>2, DirectionBits DEF Axes3
  <2>6. Same(k + 1) <=> Same(k) /\ p[k + 1] = q[k + 1]
    <3>1. \A j \in 1 .. k + 1 : j \in 1 .. k \/ j = k + 1
      OBVIOUS
    <3>2. 1 .. k \subseteq 1 .. k + 1 /\ k + 1 \in 1 .. k + 1
      OBVIOUS
    <3> QED  BY <3>1, <3>2
  <2>7. Agree(k) <=> Same(k)
    BY <1>2
  <2> HIDE DEF Agree, Same
  <2> QED  BY <2>4, <2>5, <2>6, <2>7
<1>3. Nat \subseteq N
  <2> HIDE DEF N
  <2> QED  BY <1>1, <1>2, Induction
<1>4. Agree(n) <=> Same(n)
  BY <1>3
<1> QED  BY <1>4

Side(n) == 2 ^ (MaxDepth - n)

\* The cells of a level are half as wide as those above.
LEMMA SidesHalve ==
  /\ \A n \in 0 .. MaxDepth : Side(n) \in Nat \ {0}
  /\ \A n \in 0 .. MaxDepth - 1 : Side(n) = 2 * Side(n + 1)
<1>1. ASSUME NEW n \in 0 .. MaxDepth PROVE Side(n) \in Nat \ {0}
  <2>1. MaxDepth - n \in 0 .. KeyBits
    BY PointAssumption
  <2> QED  BY <2>1, PowersGrow DEF Side
<1>2. ASSUME NEW n \in 0 .. MaxDepth - 1 PROVE Side(n) = 2 * Side(n + 1)
  <2>1. PICK m : m = MaxDepth - (n + 1)
    OBVIOUS
  <2>2. m \in 0 .. USizeBits + KeyBits /\ m + 1 = MaxDepth - n
    BY <2>1, PointAssumption
  <2>3. 2 ^ (m + 1) = 2 * 2 ^ m
    BY <2>2, Doubling
  <2> QED  BY <2>1, <2>2, <2>3 DEF Side
<1> QED  BY <1>1, <1>2

\* A cell lies in each cell on the way to it, along each axis.
LEMMA Nested ==
  ASSUME NEW f, NEW p, p \in Paths, Len(p) <= MaxDepth, NEW i \in 0 .. 2, Chain(f, p, i),
         NEW m \in 0 .. Len(p)
  PROVE  /\ f[m] * Side(m) <= f[Len(p)] * Side(Len(p))
         /\ (f[Len(p)] + 1) * Side(Len(p)) <= (f[m] + 1) * Side(m)
<1> DEFINE In(k) == /\ f[m] * Side(m) <= f[m + k] * Side(m + k)
                    /\ (f[m + k] + 1) * Side(m + k) <= (f[m] + 1) * Side(m)
           N == {k \in Nat : m + k <= Len(p) => In(k)}
<1>1. Len(p) \in Nat /\ m \in Nat /\ MaxDepth \in Nat
  BY PointAssumption DEF Paths
<1>2. 0 \in N
  <2>1. m + 0 = m
    BY <1>1
  <2>2. f[m] \in Nat /\ Side(m) \in Nat
    BY <1>1, SidesHalve DEF Chain
  <2>3. f[m] * Side(m) <= f[m] * Side(m) /\ (f[m] + 1) * Side(m) <= (f[m] + 1) * Side(m)
    <3>1. PICK x \in Int, y \in Int : x = f[m] * Side(m) /\ y = (f[m] + 1) * Side(m)
      BY <2>2
    <3> QED  BY <3>1
  <2>4. In(0)
    BY <2>1, <2>3
  <2> QED  BY <2>4
<1>3. ASSUME NEW k \in Nat, k \in N PROVE k + 1 \in N
  <2> SUFFICES ASSUME m + (k + 1) <= Len(p) PROVE In(k + 1)
    OBVIOUS
  <2>1. PICK n \in Nat : n = m + k
    BY <1>1
  <2>2. /\ m + (k + 1) = n + 1 /\ n + 1 \in 1 .. Len(p) /\ n \in 0 .. Len(p) /\ (n + 1) - 1 = n
        /\ n \in 0 .. MaxDepth - 1 /\ n + 1 \in 0 .. MaxDepth
    BY <1>1, <2>1
  <2>3. f[m] * Side(m) <= f[n] * Side(n) /\ (f[n] + 1) * Side(n) <= (f[m] + 1) * Side(m)
    BY <1>1, <1>3, <2>1
  <2>4. p[n + 1] \in 0 .. 7
    BY <2>2 DEF Paths
  <2>5. PICK b \in {0, 1} : b = Octree!Bit(p[n + 1], i)
    BY <2>4, DirectionBits
  <2>6. PICK x \in Nat, y \in Nat, s \in Nat :
          x = f[n] /\ y = f[n + 1] /\ s = Side(n + 1) /\ y = 2 * x + b /\ Side(n) = 2 * s
    <3>1. f[n] \in Nat /\ f[n + 1] \in Nat
      BY <2>2 DEF Chain
    <3>2. f[n + 1] = 2 * f[n] + b
      BY <2>2, <2>5 DEF Chain
    <3>3. Side(n + 1) \in Nat /\ Side(n) = 2 * Side(n + 1)
      BY <2>2, SidesHalve
    <3> QED  BY <3>1, <3>2, <3>3
  <2>7. PICK z \in Nat, a \in Int, d \in Int :
          z = x * s /\ a = f[m] * Side(m) /\ d = (f[m] + 1) * Side(m)
    <3>1. f[m] \in Nat /\ Side(m) \in Nat
      BY <1>1, SidesHalve DEF Chain
    <3>2. x * s \in Nat
      BY ONLY x \in Nat, s \in Nat
    <3>3. f[m] * Side(m) \in Int /\ (f[m] + 1) * Side(m) \in Int
      BY ONLY <3>1
    <3> QED  BY <3>2, <3>3
  <2>8. x * (2 * s) = 2 * z /\ (x + 1) * (2 * s) = 2 * z + 2 * s
    BY ONLY <2>7, x \in Nat, s \in Nat
  <2>9. y * s = 2 * z + b * s /\ (y + 1) * s = 2 * z + b * s + s
    <3>1. CASE b = 0
      <4>1. y = 2 * x /\ b * s = 0
        BY <2>6, <3>1
      <4> QED  BY ONLY <2>7, <4>1, x \in Nat, s \in Nat
    <3>2. CASE b = 1
      <4>1. y = 2 * x + 1 /\ b * s = s
        BY <2>6, <3>2
      <4> QED  BY ONLY <2>7, <4>1, x \in Nat, s \in Nat
    <3> QED  BY <3>1, <3>2
  <2>10. 0 <= b * s /\ b * s <= s
    BY ONLY s \in Nat, b \in {0, 1}
  <2>11. a <= 2 * z /\ 2 * z + 2 * s <= d
    BY <2>3, <2>6, <2>7, <2>8
  <2>12. a <= y * s /\ (y + 1) * s <= d
    <3>1. PICK bs \in Int, ys \in Int, ys1 \in Int : bs = b * s /\ ys = y * s /\ ys1 = (y + 1) * s
      <4>1. b * s \in Int /\ y * s \in Int /\ (y + 1) * s \in Int
        BY ONLY b \in {0, 1}, y \in Nat, s \in Nat
      <4> QED  BY <4>1
    <3>2. ys = 2 * z + bs /\ ys1 = 2 * z + bs + s /\ 0 <= bs /\ bs <= s
      BY <2>9, <2>10, <3>1
    <3>3. a <= ys /\ ys1 <= d
      BY ONLY <2>11, <3>2, z \in Nat, s \in Nat, a \in Int, d \in Int, bs \in Int
    <3> QED  BY <3>1, <3>3
  <2> QED  BY <2>2, <2>6, <2>7, <2>12
<1>4. Nat \subseteq N
  <2> HIDE DEF N
  <2> QED  BY <1>2, <1>3, Induction
<1>5. PICK k \in Nat : k = Len(p) - m
  BY <1>1
<1>6. m + k = Len(p) /\ m + k <= Len(p)
  BY <1>1, <1>5
<1>7. In(k)
  BY <1>4, <1>6
<1> QED  BY <1>6, <1>7

\* Along one axis an interval that lies in one interval of a wider grid overlaps
\* that one and no other of the grid.
LEMMA OverlapInGrid ==
  ASSUME NEW u \in Nat, NEW v \in Nat, NEW wide \in Nat, NEW lo \in Nat, NEW side \in Nat \ {0},
         u * wide <= lo, lo + side <= (u + 1) * wide
  PROVE  v * wide < lo + side /\ lo < v * wide + wide <=> u = v
<1>1. PICK x \in Nat, y \in Nat : x = u * wide /\ y = v * wide
  <2>1. u * wide \in Nat /\ v * wide \in Nat
    OBVIOUS
  <2> QED  BY <2>1
<1>2. (u + 1) * wide = x + wide /\ (v + 1) * wide = y + wide
  BY <1>1
<1>3. ASSUME u < v PROVE x + wide <= y
  <2>1. PICK d \in Nat : v = u + 1 + d
    <3>1. v - (u + 1) \in Nat /\ v = u + 1 + (v - (u + 1))
      BY <1>3
    <3> QED  BY <3>1
  <2>2. v * wide = u * wide + wide + d * wide
    BY <2>1
  <2>3. PICK e \in Nat : e = d * wide
    <3>1. d * wide \in Nat
      OBVIOUS
    <3> QED  BY <3>1
  <2> QED  BY <1>1, <2>2, <2>3
<1>4. ASSUME v < u PROVE y + wide <= x
  <2>1. PICK d \in Nat : u = v + 1 + d
    <3>1. u - (v + 1) \in Nat /\ u = v + 1 + (u - (v + 1))
      BY <1>4
    <3> QED  BY <3>1
  <2>2. u * wide = v * wide + wide + d * wide
    BY <2>1
  <2>3. PICK e \in Nat : e = d * wide
    <3>1. d * wide \in Nat
      OBVIOUS
    <3> QED  BY <3>1
  <2> QED  BY <1>1, <2>2, <2>3
<1>5. x <= lo /\ lo + side <= x + wide
  BY <1>1, <1>2
<1>6. u = v => x = y
  BY <1>1
<1>7. u < v \/ v < u \/ u = v
  OBVIOUS
<1>8. y < lo + side /\ lo < y + wide <=> u = v
  BY ONLY <1>3, <1>4, <1>5, <1>6, <1>7, x \in Nat, y \in Nat, wide \in Nat, lo \in Nat,
          side \in Nat \ {0}, u \in Nat, v \in Nat
<1> QED  BY <1>1, <1>8

\* The key of the cell at the end of a way down.
Cell(F, p) == Octree!VoxelKey(Len(p), F[0][Len(p)], F[1][Len(p)], F[2][Len(p)])

\* Where its box begins and ends along each axis.
LEMMA CellBox ==
  ASSUME NEW F, NEW p, NEW i \in Axes3
  PROVE  /\ Octree!bounds(Cell(F, p)).min[i + 1] = F[i][Len(p)] * Side(Len(p))
         /\ Octree!bounds(Cell(F, p)).max[i + 1]
              = F[i][Len(p)] * Side(Len(p)) + Side(Len(p))
<1>1. i = 0 \/ i = 1 \/ i = 2
  BY DEF Axes3
<1>2. /\ Cell(F, p).l = Len(p) /\ Cell(F, p).x = F[0][Len(p)]
      /\ Cell(F, p).y = F[1][Len(p)] /\ Cell(F, p).z = F[2][Len(p)]
  BY DEF Cell, Octree!VoxelKey
<1>3. Octree!Size(Cell(F, p).l) = Side(Len(p))
  BY <1>2 DEF Octree!Size, Side
<1> HIDE DEF Cell
<1> QED  BY <1>1, <1>2, <1>3 DEF Octree!bounds

\* The box of a cell overlaps that of a cell further down exactly when the way to
\* it is the beginning of the way to the other.
LEMMA OverlapBelow ==
  ASSUME NEW p, NEW q, p \in Paths, q \in Paths, Len(p) <= Len(q), Len(q) <= MaxDepth,
         NEW F, NEW G, Chains(F, p), Chains(G, q)
  PROVE  Octree!Overlap(Octree!bounds(Cell(F, p)), Octree!bounds(Cell(G, q)))
           <=> \A j \in 1 .. Len(p) : p[j] = q[j]
<1>1. PICK m \in Nat, n \in Nat : m = Len(p) /\ n = Len(q) /\ m \in 0 .. n /\ n \in 0 .. MaxDepth
  BY PointAssumption DEF Paths
<1>2. m \in 0 .. MaxDepth
  BY <1>1, PointAssumption
<1>3. PICK b, d : b = Octree!bounds(Cell(F, p)) /\ d = Octree!bounds(Cell(G, q))
  OBVIOUS
<1>4. ASSUME NEW i \in Axes3
      PROVE  b.min[i + 1] < d.max[i + 1] /\ d.min[i + 1] < b.max[i + 1] <=> F[i][m] = G[i][m]
  <2>1. PICK wide \in Nat, side \in Nat \ {0} : wide = Side(m) /\ side = Side(n)
    BY <1>1, <1>2, SidesHalve
  <2>2. /\ b.min[i + 1] = F[i][m] * wide /\ b.max[i + 1] = F[i][m] * wide + wide
        /\ d.min[i + 1] = G[i][n] * side /\ d.max[i + 1] = G[i][n] * side + side
    BY <1>1, <1>3, <2>1, CellBox
  <2>3. Chain(F[i], p, i) /\ Chain(G[i], q, i)
    BY DEF Chains
  <2>4. PICK u \in Nat, v \in Nat, x \in Nat : u = G[i][m] /\ v = F[i][m] /\ x = G[i][n]
    BY <1>1, <2>3 DEF Chain
  <2>5. u * wide <= x * side /\ (x + 1) * side <= (u + 1) * wide
    <3>1. PICK f : f = G[i]
      OBVIOUS
    <3>2. Chain(f, q, i) /\ i \in 0 .. 2 /\ m \in 0 .. Len(q) /\ Len(q) <= MaxDepth
      BY <1>1, <2>3, <3>1 DEF Axes3
    <3>3. /\ f[m] * Side(m) <= f[Len(q)] * Side(Len(q))
          /\ (f[Len(q)] + 1) * Side(Len(q)) <= (f[m] + 1) * Side(m)
      BY <3>2, Nested
    <3> QED  BY <1>1, <2>1, <2>4, <3>1, <3>3
  <2>6. PICK lo \in Nat : lo = x * side
    <3>1. x * side \in Nat
      BY ONLY x \in Nat, side \in Nat \ {0}
    <3> QED  BY <3>1
  <2>7. (x + 1) * side = lo + side
    BY <2>6
  <2>8. v * wide < lo + side /\ lo < v * wide + wide <=> u = v
    BY <2>5, <2>6, <2>7, OverlapInGrid
  <2> QED  BY <2>2, <2>4, <2>6, <2>8
<1>5. Octree!Overlap(b, d) <=> \A i \in Axes3 : F[i][m] = G[i][m]
  <2>1. \A a \in 1 .. 3 : a - 1 \in Axes3 /\ (a - 1) + 1 = a
    BY DEF Axes3
  <2>2. \A i \in Axes3 : i + 1 \in 1 .. 3
    BY DEF Axes3
  <2>3. Octree!Overlap(b, d) <=> \A i \in Axes3 : /\ b.min[i + 1] < d.max[i + 1]
                                                  /\ d.min[i + 1] < b.max[i + 1]
    <3>1. ASSUME Octree!Overlap(b, d), NEW i \in Axes3
          PROVE  b.min[i + 1] < d.max[i + 1] /\ d.min[i + 1] < b.max[i + 1]
      BY <2>2, <3>1 DEF Octree!Overlap
    <3>2. ASSUME \A i \in Axes3 : /\ b.min[i + 1] < d.max[i + 1] /\ d.min[i + 1] < b.max[i + 1],
                 NEW a \in 1 .. 3
          PROVE  b.min[a] < d.max[a] /\ d.min[a] < b.max[a]
      <4>1. PICK i \in Axes3 : i + 1 = a
        BY <2>1
      <4> QED  BY <3>2, <4>1
    <3> QED  BY <3>1, <3>2 DEF Octree!Overlap
  <2> QED  BY <1>4, <2>3
<1>6. (\A i \in Axes3 : F[i][m] = G[i][m]) <=> \A j \in 1 .. m : p[j] = q[j]
  BY <1>1, SameCellSameWay
<1> QED  BY <1>1, <1>3, <1>5, <1>6

\* Shifting a coordinate to the left drops no bit on the levels the walkers reach.
LEMMA ShiftIsExact ==
  ASSUME NEW n \in Nat, n < MaxDepth, NEW v \in Nat, v < 2 ^ n, NEW bit \in {0, 1}
  PROVE  Octree!Down(v, bit) = 2 * v + bit
<1>1. n + 1 \in 0 .. KeyBits - 1 /\ KeyBits - 1 \in 0 .. KeyBits /\ (KeyBits - 1) + 1 = KeyBits
      /\ n \in 0 .. USizeBits + KeyBits /\ KeyBits - 1 \in 0 .. USizeBits + KeyBits
      /\ n \in 0 .. KeyBits
  BY PointAssumption
<1>2. 2 ^ n \in Nat /\ 2 ^ (KeyBits - 1) \in Nat \ {0} /\ 2 ^ (n + 1) <= 2 ^ (KeyBits - 1)
  BY <1>1, PowersGrow
<1>3. 2 ^ (n + 1) = 2 * 2 ^ n
  BY <1>1, Doubling
<1>4. 2 ^ KeyBits = 2 * 2 ^ (KeyBits - 1)
  <2>1. 2 ^ ((KeyBits - 1) + 1) = 2 * 2 ^ (KeyBits - 1)
    BY <1>1, Doubling
  <2> QED  BY <1>1, <2>1
<1>5. PICK half \in Nat \ {0}, pow \in Nat : half = 2 ^ (KeyBits - 1) /\ pow = 2 ^ n
  BY <1>2
<1>6. 2 * pow <= half /\ 2 ^ KeyBits = 2 * half /\ v < pow
  BY <1>2, <1>3, <1>4, <1>5
<1>7. 0 <= 2 * v + half /\ 2 * v + half < 2 * half
  BY ONLY <1>6, v \in Nat, half \in Nat \ {0}, pow \in Nat
<1>8. (2 * v + half) % (2 * half) = 2 * v + half
  <2>1. PICK x \in Nat, y \in Nat \ {0} : x = 2 * v + half /\ y = 2 * half
    OBVIOUS
  <2>2. x % y = x
    BY ONLY <1>7, <2>1, x \in Nat, y \in Nat \ {0}
  <2> QED  BY <2>1, <2>2
<1>9. Octree!Wrap(2 * v) = 2 * v
  BY <1>5, <1>6, <1>8 DEF Octree!Wrap
<1> QED  BY <1>9 DEF Octree!Down

\* child gives the key of the cell one step further on.
LEMMA ChildCell ==
  ASSUME NEW p, p \in Paths, Len(p) < MaxDepth, NEW d \in 0 .. 7, NEW F, Chains(F, p)
  PROVE  \E G : /\ Chains(G, Append(p, d))
                /\ Octree!child(Cell(F, p), d) = Cell(G, Append(p, d))
<1>1. PICK n \in Nat : n = Len(p) /\ n < MaxDepth /\ n <= KeyBits
  BY PointAssumption DEF Paths
<1>2. PICK q : q = Append(p, d)
  OBVIOUS
<1>3. /\ q \in Paths /\ Len(q) = n + 1 /\ q[n + 1] = d
      /\ \A j \in 1 .. n : q[j] = p[j]
  BY <1>1, <1>2 DEF Paths
<1>4. PICK G : G = [i \in Axes3 |->
                     [j \in 0 .. n + 1 |-> IF j <= n THEN F[i][j]
                                           ELSE 2 * F[i][n] + Octree!Bit(d, i)]]
  OBVIOUS
<1>5. \A i \in Axes3 : /\ \A j \in 0 .. n : G[i][j] = F[i][j]
                       /\ G[i][n + 1] = 2 * F[i][n] + Octree!Bit(d, i)
  BY <1>1, <1>4
<1>6. \A i \in Axes3 : Octree!Bit(d, i) \in {0, 1}
  BY DirectionBits DEF Axes3
<1>7. \A i \in Axes3 : F[i][n] \in Nat /\ F[i][n] < 2 ^ n
  <2>1. ASSUME NEW i \in Axes3 PROVE F[i][n] \in Nat /\ F[i][n] < 2 ^ n
    <3>1. PICK f : f = F[i]
      OBVIOUS
    <3>2. Chain(f, p, i) /\ i \in 0 .. 2 /\ Len(p) <= KeyBits /\ n \in 0 .. Len(p)
      BY <1>1, <3>1 DEF Chains, Axes3
    <3>3. f[n] < 2 ^ n
      BY <3>2, ChainBounded
    <3>4. f[n] \in Nat
      BY <3>2 DEF Chain
    <3> QED  BY <3>1, <3>3, <3>4
  <2> QED  BY <2>1
<1>8. ASSUME NEW i \in Axes3 PROVE Chain(G[i], q, i)
  <2>1. Chain(F[i], p, i)
    BY DEF Chains
  <2>2. G[i][0] = 0
    BY <1>5, <2>1 DEF Chain
  <2>3. ASSUME NEW j \in 0 .. Len(q) PROVE G[i][j] \in Nat
    <3>1. CASE j = n + 1
      BY <1>5, <1>6, <1>7, <3>1
    <3>2. CASE j # n + 1
      <4>1. j \in 0 .. n
        BY <1>3, <3>2
      <4> QED  BY <1>1, <1>5, <2>1, <4>1 DEF Chain
    <3> QED  BY <3>1, <3>2
  <2>4. ASSUME NEW j \in 1 .. Len(q) PROVE G[i][j] = 2 * G[i][j - 1] + Octree!Bit(q[j], i)
    <3>1. CASE j = n + 1
      <4>1. j - 1 = n /\ n \in 0 .. n
        BY <3>1
      <4> QED  BY <1>3, <1>5, <3>1, <4>1
    <3>2. CASE j # n + 1
      <4>1. j \in 1 .. n /\ j \in 0 .. n /\ j - 1 \in 0 .. n
        BY <1>3, <3>2
      <4> QED  BY <1>1, <1>3, <1>5, <2>1, <4>1 DEF Chain
    <3> QED  BY <3>1, <3>2
  <2> QED  BY <2>2, <2>3, <2>4 DEF Chain
<1>9. \A i \in Axes3 : Octree!Down(F[i][n], Octree!Bit(d, i)) = G[i][n + 1]
  BY <1>1, <1>5, <1>6, <1>7, ShiftIsExact
<1>10. Octree!child(Cell(F, p), d) = Cell(G, q)
  <2>1. 0 \in Axes3 /\ 1 \in Axes3 /\ 2 \in Axes3
    BY DEF Axes3
  <2>2. Cell(F, p) = Octree!VoxelKey(n, F[0][n], F[1][n], F[2][n])
    BY <1>1 DEF Cell
  <2>3. Cell(G, q) = Octree!VoxelKey(n + 1, G[0][n + 1], G[1][n + 1], G[2][n + 1])
    BY <1>3 DEF Cell
  <2>4. Octree!child(Cell(F, p), d)
          = Octree!VoxelKey(n + 1, Octree!Down(F[0][n], Octree!Bit(d, 0)),
                            Octree!Down(F[1][n], Octree!Bit(d, 1)),
                            Octree!Down(F[2][n], Octree!Bit(d, 2)))
    BY <2>2 DEF Octree!child, Octree!VoxelKey
  <2> QED  BY <1>9, <2>1, <2>3, <2>4
<1> QED  BY <1>2, <1>8, <1>10 DEF Chains

\* parent gives the key of the cell one step before.
LEMMA ParentCell ==
  ASSUME NEW p, p \in Paths, p # <<>>, NEW F, Chains(F, p)
  PROVE  /\ Octree!Front(p) \in Paths /\ Len(Octree!Front(p)) = Len(p) - 1
         /\ Chains(F, Octree!Front(p))
         /\ Octree!parent(Cell(F, p)) = Cell(F, Octree!Front(p))
<1>1. PICK n \in Nat : n + 1 = Len(p)
  <2>1. Len(p) \in Nat /\ Len(p) # 0
    BY DEF Paths
  <2>2. Len(p) - 1 \in Nat /\ (Len(p) - 1) + 1 = Len(p)
    BY <2>1
  <2> QED  BY <2>2
<1>2. PICK q : q = Octree!Front(p)
  OBVIOUS
<1>3. q \in Paths /\ Len(q) = n /\ \A j \in 1 .. n : q[j] = p[j]
  <2>1. q = SubSeq(p, 1, n)
    BY <1>1, <1>2 DEF Octree!Front
  <2> QED  BY <1>1, <2>1 DEF Paths
<1>4. ASSUME NEW i \in Axes3
      PROVE  /\ Chain(F[i], q, i)
             /\ F[i][n + 1] \div 2 = F[i][n]
  <2>1. Chain(F[i], p, i)
    BY DEF Chains
  <2>2. \A j \in 0 .. n : j \in 0 .. Len(p)
    BY <1>1
  <2>3. \A j \in 1 .. n : j \in 1 .. Len(p)
    BY <1>1
  <2>4. Chain(F[i], q, i)
    BY <1>3, <2>1, <2>2, <2>3 DEF Chain
  <2>5. p[n + 1] \in 0 .. 7 /\ n + 1 \in 1 .. Len(p) /\ n \in 0 .. Len(p) /\ (n + 1) - 1 = n
    BY <1>1 DEF Paths
  <2>6. Octree!Bit(p[n + 1], i) \in {0, 1}
    BY <2>5, DirectionBits DEF Axes3
  <2>7. F[i][n] \in Nat /\ F[i][n + 1] = 2 * F[i][n] + Octree!Bit(p[n + 1], i)
    BY <2>1, <2>5 DEF Chain
  <2>8. PICK x \in Nat, b \in {0, 1} : x = F[i][n] /\ b = Octree!Bit(p[n + 1], i)
    BY <2>6, <2>7
  <2>9. (2 * x + b) \div 2 = x
    OBVIOUS
  <2> QED  BY <2>4, <2>7, <2>8, <2>9
<1>5. Octree!parent(Cell(F, p)) = Cell(F, q)
  <2>1. 0 \in Axes3 /\ 1 \in Axes3 /\ 2 \in Axes3
    BY DEF Axes3
  <2>2. Cell(F, p) = Octree!VoxelKey(n + 1, F[0][n + 1], F[1][n + 1], F[2][n + 1])
    BY <1>1 DEF Cell
  <2>3. Cell(F, q) = Octree!VoxelKey(n, F[0][n], F[1][n], F[2][n])
    BY <1>3 DEF Cell
  <2>4. (IF (n + 1) - 1 > 0 THEN (n + 1) - 1 ELSE 0) = n
    OBVIOUS
  <2> QED  BY <1>4, <2>1, <2>2, <2>3, <2>4 DEF Octree!parent, Octree!VoxelKey
<1> QED  BY <1>1, <1>2, <1>3, <1>4, <1>5 DEF Chains

LeadsTo(p, cell) == \E F : Chains(F, p) /\ cell = Cell(F, p)

\* Each walker holds the key of the cell its way leads to.
OctreeOK ==
  /\ DOMAIN key = Walkers /\ DOMAIN path = Walkers
  /\ \A w \in Walkers : /\ path[w] \in Paths /\ Len(path[w]) <= MaxDepth
                        /\ LeadsTo(path[w], key[w])

\* The root is where no step leads to.
LEMMA OctreeStart == Octree!Init => OctreeOK
<1> SUFFICES ASSUME Octree!Init PROVE OctreeOK
  OBVIOUS
<1>1. LeadsTo(<<>>, Octree!ROOT)
  <2>1. PICK F : F = [i \in Axes3 |-> [j \in {0} |-> 0]]
    OBVIOUS
  <2>2. Chains(F, <<>>)
    BY <2>1 DEF Chains, Chain
  <2>3. Octree!ROOT = Cell(F, <<>>)
    BY <2>1 DEF Cell, Octree!ROOT, Octree!VoxelKey, Axes3
  <2> QED  BY <2>2, <2>3 DEF LeadsTo
<1>2. <<>> \in Paths /\ Len(<<>>) <= MaxDepth
  BY PointAssumption DEF Paths
<1> QED  BY <1>1, <1>2 DEF Octree!Init, OctreeOK

\* A step leads each walker on.
LEMMA OctreeStep == ASSUME OctreeOK, Octree!Next PROVE OctreeOK'
<1>1. PICK w \in Walkers : Octree!GoUp(w) \/ \E direction \in -1 .. 8 : Octree!GoDown(w, direction)
  BY DEF Octree!Next
<1>2. PICK p, cell : p = path[w] /\ cell = key[w]
  OBVIOUS
<1>3. p \in Paths /\ Len(p) <= MaxDepth /\ LeadsTo(p, cell)
      /\ DOMAIN key = Walkers /\ DOMAIN path = Walkers
  BY <1>2 DEF OctreeOK
<1>4. PICK F : Chains(F, p) /\ cell = Cell(F, p)
  BY <1>3 DEF LeadsTo
<1>5. ASSUME NEW q, q \in Paths, Len(q) <= MaxDepth, NEW below, LeadsTo(q, below),
             path' = [path EXCEPT ![w] = q], key' = [key EXCEPT ![w] = below]
      PROVE  OctreeOK'
  <2>1. DOMAIN key' = Walkers /\ DOMAIN path' = Walkers
    BY <1>3, <1>5
  <2>2. ASSUME NEW v \in Walkers
        PROVE  path'[v] \in Paths /\ Len(path'[v]) <= MaxDepth /\ LeadsTo(path'[v], key'[v])
    <3>1. CASE v = w
      <4>1. path'[v] = q /\ key'[v] = below
        BY <1>3, <1>5, <3>1
      <4> QED  BY <1>5, <4>1
    <3>2. CASE v # w
      <4>1. path'[v] = path[v] /\ key'[v] = key[v]
        BY <1>3, <1>5, <3>2
      <4> QED  BY <4>1 DEF OctreeOK
    <3> QED  BY <3>1, <3>2
  <2> QED  BY <2>1, <2>2 DEF OctreeOK
<1>6. CASE Octree!GoUp(w)
  <2>1. key' = [key EXCEPT ![w] = Octree!parent(cell)]
    BY <1>2, <1>6 DEF Octree!GoUp
  <2>2. CASE p = <<>>
    <3>1. path' = [path EXCEPT ![w] = p]
      BY <1>2, <1>3, <1>6, <2>2 DEF Octree!GoUp
    <3>2. Octree!parent(cell) = cell
      <4>1. cell = Octree!VoxelKey(0, 0, 0, 0)
        <5>1. \A i \in Axes3 : F[i][0] = 0
          BY <1>4 DEF Chains, Chain
        <5>2. Len(p) = 0 /\ 0 \in Axes3 /\ 1 \in Axes3 /\ 2 \in Axes3
          BY <2>2 DEF Axes3
        <5> QED  BY <1>4, <5>1, <5>2 DEF Cell
      <4> QED  BY <4>1 DEF Octree!parent, Octree!VoxelKey
    <3> QED  BY <1>3, <1>5, <2>1, <3>1, <3>2
  <2>3. CASE p # <<>>
    <3>1. PICK q : q = Octree!Front(p)
      OBVIOUS
    <3>2. path' = [path EXCEPT ![w] = q]
      BY <1>2, <1>6, <2>3, <3>1 DEF Octree!GoUp
    <3>3. /\ q \in Paths /\ Len(q) = Len(p) - 1 /\ Chains(F, q)
          /\ Octree!parent(cell) = Cell(F, q)
      BY <1>3, <1>4, <2>3, <3>1, ParentCell
    <3>4. Len(q) <= MaxDepth
      BY <1>3, <3>3, PointAssumption DEF Paths
    <3>5. LeadsTo(q, Octree!parent(cell))
      BY <3>3 DEF LeadsTo
    <3> QED  BY <1>5, <2>1, <3>2, <3>3, <3>4, <3>5
  <2> QED  BY <2>2, <2>3
<1>7. ASSUME NEW direction \in -1 .. 8, Octree!GoDown(w, direction) PROVE OctreeOK'
  <2>1. direction \in 0 .. 7 /\ Len(p) < MaxDepth
    BY <1>2, <1>7 DEF Octree!GoDown
  <2>2. PICK q : q = Append(p, direction)
    OBVIOUS
  <2>3. path' = [path EXCEPT ![w] = q] /\ key' = [key EXCEPT ![w] = Octree!child(cell, direction)]
    <3>1. Octree!children(cell)[direction] = Octree!child(cell, direction)
      BY <2>1 DEF Octree!children
    <3> QED  BY <1>2, <1>7, <2>2, <3>1 DEF Octree!GoDown
  <2>4. q \in Paths /\ Len(q) = Len(p) + 1 /\ Len(p) \in Nat
    BY <1>3, <2>1, <2>2 DEF Paths
  <2>5. Len(q) <= MaxDepth
    BY <2>1, <2>4, PointAssumption
  <2>6. LeadsTo(q, Octree!child(cell, direction))
    <3>1. \E G : /\ Chains(G, Append(p, direction))
                 /\ Octree!child(Cell(F, p), direction) = Cell(G, Append(p, direction))
      BY <1>3, <1>4, <2>1, ChildCell
    <3> QED  BY <1>4, <2>2, <3>1 DEF LeadsTo
  <2> QED  BY <1>5, <2>3, <2>4, <2>5, <2>6
<1> QED  BY <1>1, <1>6, <1>7

\* The keys and the ways go together, so boxes overlap exactly when one way is the
\* beginning of the other.
LEMMA CellsTell == OctreeOK => CellsFollowTree
<1> SUFFICES ASSUME OctreeOK, NEW v \in Walkers, NEW w \in Walkers
             PROVE  Octree!Overlap(Octree!bounds(key[v]), Octree!bounds(key[w])) <=>
                      \/ Octree!IsPrefix(path[v], path[w]) \/ Octree!IsPrefix(path[w], path[v])
  BY DEF CellsFollowTree, Octree!CellsFollowTree
<1> DEFINE Beginning(p, q) == \A j \in 1 .. Len(p) : p[j] = q[j]
<1>1. ASSUME NEW p, NEW q, p \in Paths, q \in Paths
      PROVE  Octree!IsPrefix(p, q) <=> Len(p) <= Len(q) /\ Beginning(p, q)
  <2>1. Octree!IsPrefix(p, q) <=> Len(p) <= Len(q) /\ SubSeq(p, 1, Len(p)) = SubSeq(q, 1, Len(p))
    BY DEF Octree!IsPrefix
  <2>2. ASSUME Len(p) <= Len(q)
        PROVE  SubSeq(p, 1, Len(p)) = SubSeq(q, 1, Len(p)) <=> Beginning(p, q)
    <3>1. PICK n \in Nat : n = Len(p) /\ n <= Len(q) /\ p \in Seq(0 .. 7) /\ q \in Seq(0 .. 7)
      BY <1>1, <2>2 DEF Paths
    <3>2. PICK s, t : s = SubSeq(p, 1, n) /\ t = SubSeq(q, 1, n)
      OBVIOUS
    <3>3. s = [j \in 1 .. n |-> p[j]] /\ t = [j \in 1 .. n |-> q[j]]
      BY <3>1, <3>2
    <3>4. s = t <=> \A j \in 1 .. n : p[j] = q[j]
      BY <3>3
    <3> QED  BY <3>1, <3>2, <3>4
  <2> QED  BY <2>1, <2>2
<1>2. ASSUME NEW p, NEW q, p \in Paths, q \in Paths, Len(p) <= Len(q), Len(q) <= MaxDepth,
             NEW a, NEW b, LeadsTo(p, a), LeadsTo(q, b)
      PROVE  Octree!Overlap(Octree!bounds(a), Octree!bounds(b)) <=>
               Octree!IsPrefix(p, q) \/ Octree!IsPrefix(q, p)
  <2>1. PICK F : Chains(F, p) /\ a = Cell(F, p)
    BY <1>2 DEF LeadsTo
  <2>2. PICK G : Chains(G, q) /\ b = Cell(G, q)
    BY <1>2 DEF LeadsTo
  <2>3. Octree!Overlap(Octree!bounds(a), Octree!bounds(b)) <=> Beginning(p, q)
    BY <1>2, <2>1, <2>2, OverlapBelow
  <2>4. Octree!IsPrefix(p, q) <=> Beginning(p, q)
    BY <1>1, <1>2
  <2>5. Octree!IsPrefix(q, p) => Beginning(p, q)
    <3>1. Octree!IsPrefix(q, p) => Len(q) <= Len(p) /\ Beginning(q, p)
      BY <1>1, <1>2
    <3>2. Len(p) \in Nat /\ Len(q) \in Nat
      BY <1>2 DEF Paths
    <3> QED  BY <1>2, <3>1, <3>2
  <2> QED  BY <2>3, <2>4, <2>5
<1>3. PICK p, q, a, b : p = path[v] /\ q = path[w] /\ a = key[v] /\ b = key[w]
  OBVIOUS
<1>4. /\ p \in Paths /\ q \in Paths /\ Len(p) <= MaxDepth /\ Len(q) <= MaxDepth
      /\ LeadsTo(p, a) /\ LeadsTo(q, b)
  BY <1>3 DEF OctreeOK
<1>5. Octree!Overlap(Octree!bounds(a), Octree!bounds(b)) <=>
        Octree!Overlap(Octree!bounds(b), Octree!bounds(a))
  BY DEF Octree!Overlap
<1>6. Len(p) <= Len(q) \/ Len(q) <= Len(p)
  BY <1>4 DEF Paths
<1> QED  BY <1>2, <1>3, <1>4, <1>5, <1>6

\* The steps of the other parts leave the walkers where they are.
LEMMA OctreeAlone ==
  ASSUME OctreeOK, UNCHANGED octreeVars
  PROVE  OctreeOK'
BY DEF octreeVars, OctreeOK

-----------------------------------------------------------------------------
(* The session *)

Inv ==
  /\ record_len \in RecordLens
  /\ GrowthTyped
  /\ SmallestBox
  /\ CopcOK
  /\ ExchangeOK
  /\ OctreeOK

\* Each part begins as its own specification says.
LEMMA InitInv == Init => Inv
<1> SUFFICES ASSUME Init PROVE Inv
  OBVIOUS
<1>1. record_len \in RecordLens
  BY DEF Init, Slab!Init
<1>2. GrowthTyped /\ SmallestBox
  BY GrowthStart DEF Init
<1>3. ExchangeOK
  BY ExchangeStart DEF Init
<1>4. OctreeOK
  BY OctreeStart DEF Init
<1> QED  BY <1>1, <1>2, <1>3, <1>4, CopcStart DEF Inv

\* A part that a step leaves alone keeps what holds of it.
LEMMA GrowthAlone ==
  ASSUME GrowthTyped, SmallestBox, UNCHANGED growthVars
  PROVE  GrowthTyped' /\ SmallestBox'
BY DEF growthVars, GrowthTyped, SmallestBox, Growth!SmallestBox, Growth!Shown

\* The steps of the other parts leave the COPC part alone.
LEMMA CopcAlone ==
  ASSUME CopcOK, UNCHANGED copcVars
  PROVE  CopcOK'
BY DEF copcVars, CopcOK, FilesOK, HandOK, ReadsOwnChunks, Copc!ReadsOwnChunks, QueryVisitsSelected,
       Copc!QueryVisitsSelected, ListsWholePage, Copc!ListsWholePage

\* A step of the session is a step of one part.
LEMMA NextInv == Inv /\ [Next]_vars => Inv'
<1> SUFFICES ASSUME Inv, [Next]_vars PROVE Inv'
  OBVIOUS
<1> USE DEF Inv
<1>1. CASE Slab!Next /\ UNCHANGED <<exchangeVars, growthVars, octreeVars, copcVars>>
  <2>1. /\ UNCHANGED growthVars /\ UNCHANGED copcVars /\ UNCHANGED exchangeVars
        /\ UNCHANGED octreeVars
    BY <1>1
  <2> QED  BY <1>1, <2>1, SlabStep, GrowthAlone, CopcAlone, ExchangeAlone, OctreeAlone
<1>2. CASE Growth!Next /\ UNCHANGED <<exchangeVars, slabVars, octreeVars, copcVars>>
  <2>1. /\ UNCHANGED copcVars /\ UNCHANGED exchangeVars /\ UNCHANGED octreeVars
        /\ record_len' = record_len
    BY <1>2 DEF slabVars
  <2> QED  BY <1>2, <2>1, GrowthStep, CopcAlone, ExchangeAlone, OctreeAlone
<1>3. CASE Copc!Next /\ UNCHANGED <<exchangeVars, slabVars, growthVars, octreeVars>>
  <2>1. /\ UNCHANGED growthVars /\ UNCHANGED exchangeVars /\ UNCHANGED octreeVars
        /\ record_len' = record_len
    BY <1>3 DEF slabVars
  <2> QED  BY <1>3, <2>1, CopcStep, GrowthAlone, ExchangeAlone, OctreeAlone
<1>4. CASE Exchange!Next /\ UNCHANGED <<slabVars, growthVars, octreeVars, copcVars>>
  <2>1. /\ UNCHANGED growthVars /\ UNCHANGED copcVars /\ UNCHANGED octreeVars
        /\ record_len' = record_len
    BY <1>4 DEF slabVars
  <2> QED  BY <1>4, <2>1, ExchangeStep, GrowthAlone, CopcAlone, OctreeAlone
<1>5. CASE Octree!Next /\ UNCHANGED <<exchangeVars, slabVars, growthVars, copcVars>>
  <2>1. /\ UNCHANGED growthVars /\ UNCHANGED copcVars /\ UNCHANGED exchangeVars
        /\ record_len' = record_len
    BY <1>5 DEF slabVars
  <2> QED  BY <1>5, <2>1, OctreeStep, GrowthAlone, CopcAlone, ExchangeAlone
<1>6. CASE UNCHANGED vars
  <2>1. /\ UNCHANGED growthVars /\ UNCHANGED copcVars /\ UNCHANGED exchangeVars
        /\ UNCHANGED octreeVars /\ record_len' = record_len
    BY <1>6 DEF vars, slabVars
  <2> QED  BY <2>1, GrowthAlone, CopcAlone, ExchangeAlone, OctreeAlone
<1> QED  BY <1>1, <1>2, <1>3, <1>4, <1>5, <1>6 DEF Next

\* In every reachable state the box is the smallest, the last answer of a COPC
\* reader is right about the file it was opened on, the points on their way
\* between the languages are the caller's, and every walker holds its cell's key.
THEOREM Invariance == Spec => []Inv
BY InitInv, NextInv, PTL DEF Spec

\* Bounds::grow keeps the smallest box around the numbers it was shown, in any
\* order and whatever NaN comes with them, for any axes and any range of numbers.
THEOREM BoxesStaySmallest == Spec => []SmallestBox
<1>1. Inv => SmallestBox
  BY DEF Inv
<1> QED  BY <1>1, Invariance, PTL

\* lasrs_copc_reader_read_entry makes room for what the reader's own file declares
\* and for no other entry, and when it returns it has whole chunks of that file,
\* whatever files are open, cut short or lying, and whatever entries are handed in.
THEOREM ReadsStayInFile == Spec => []ReadsOwnChunks
<1>1. Inv => ReadsOwnChunks
  BY DEF Inv, CopcOK
<1> QED  BY <1>1, Invariance, PTL

\* A query that returns visited what its selection stands for after the crossing as a tagged
\* struct, and the levels share out the whole, for every file.
THEOREM QueriesVisitSelection == Spec => []QueryVisitsSelected
<1>1. Inv => QueryVisitsSelected
  BY DEF Inv, CopcOK
<1> QED  BY <1>1, Invariance, PTL

\* CopcHierarchyVlr::iter_entries gives the whole page or throws for a bad
\* entry, for pages of any length.
THEOREM PagesAreWhole == Spec => []ListsWholePage
<1>1. Inv => ListsWholePage
  BY DEF Inv, CopcOK
<1> QED  BY <1>1, Invariance, PTL

\* points_from_ffi never gets out of step: the bytes it has not split off yet
\* are those of the points to come, for every vector of points with extra bytes
\* of any lengths, also different ones.
THEOREM PointsKeepTheirBytes == Spec => []BuffersInStep
<1>1. Inv => BuffersInStep
  BY DEF Inv, ExchangeOK
<1> QED  BY <1>1, Invariance, PTL

\* points() and the columns give back the points that were handed over, with
\* absent fields absent and the coordinates that records can hold unchanged,
\* whatever the points, the scale, the fields and the format.
THEOREM PointsComeBack == Spec => []ReadsBack
<1>1. Inv => ReadsBack
  BY DEF Inv, ExchangeOK
<1> QED  BY <1>1, Invariance, PTL

\* The split of points_from_ffi never goes past the end of the buffer, so it does
\* not panic half way, for every vector of points.
THEOREM SplitNeverPanics == Spec => []SplitFits
<1>1. Inv => SplitFits
  BY NextSplitFits DEF Inv
<1> QED  BY <1>1, Invariance, PTL

\* Rust has taken all the points or refused them for one that las-rs has no value
\* or no room for, never some of them: what CallReturns says a call may end with.
THEOREM CallsTakeAllOrRefuse == Spec => []OutcomeFits
<1>1. Inv => OutcomeFits
  BY OutcomeKnown DEF Inv
<1> QED  BY <1>1, Invariance, PTL

\* Every step of a call leaves fewer to go, so a call ends: what CallReturns adds
\* is that a step is taken.
THEOREM CallsMakeProgress ==
  Spec => [][Exchange!Call => ToGo' \in Nat /\ ToGo' < ToGo]_vars
<1>1. Inv /\ [Next]_vars => [Exchange!Call => ToGo' \in Nat /\ ToGo' < ToGo]_vars
  BY CallShrinks DEF Inv
<1> QED  BY <1>1, Invariance, PTL DEF Spec

\* Cells of VoxelKeys overlap exactly when the way to one is the beginning of the
\* way to the other, however the walkers went down by child and children and up by
\* parent: for members of any width and down to any depth that they have room for.
THEOREM CellsShareOutTheRoot == Spec => []CellsFollowTree
<1>1. Inv => CellsFollowTree
  BY CellsTell DEF Inv
<1> QED  BY <1>1, Invariance, PTL

\* resize_for makes room for exactly n records or throws and changes nothing,
\* for every n of a size_t of any width.
THEOREM ResizesAreExact == Spec => ResizesExactly
<1> DEFINE Exact == ret'.op = "resize" =>
                      IF ret'.ok THEN size' = ret'.n * record_len /\ span' = size'
                                 ELSE size' = size /\ ret'.n * record_len > Slab!ISizeMax
<1>1. Inv /\ [Next]_vars => [Exact]_slabVars
  <2> SUFFICES ASSUME Inv, Next, ~UNCHANGED slabVars PROVE Exact
    BY DEF vars
  <2>1. Slab!Next
    BY DEF Next
  <2> QED  BY <2>1, SlabStep DEF Inv
<1>2. Slab!vars = slabVars
  BY DEF Slab!vars, slabVars
<1>3. Inv /\ [Next]_vars => [Exact]_(Slab!vars)
  BY <1>1, <1>2 DEF Slab!vars, slabVars
<1> QED  BY <1>3, Invariance, PTL DEF Spec, ResizesExactly, Slab!ResizesExactly
=============================================================================
