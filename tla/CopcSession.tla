---------------------------- MODULE CopcSession -----------------------------
(***************************************************************************)
(* CopcReader of include/lasrs/copc.hpp and rust/src/copc.rs: readers of   *)
(* COPC files, and a caller that takes entries from any of them, edits     *)
(* them and hands them to any other.  A file is its hierarchy, a function  *)
(* from keys to the place of a chunk and the number of points it is said   *)
(* to have; the keys are a root and its children.  A chunk's byte size     *)
(* goes with its place.  How many points there are is another matter: a    *)
(* file may be cut short, or lie.                                          *)
(***************************************************************************)
EXTENDS Naturals, Sequences, FiniteSets

CONSTANTS Readers,
          Children,  \* keys below the root
          Offsets,   \* where chunks may be
          MaxCount,  \* bound on the points of a chunk, there and declared
          MaxPage,   \* bound on the entries of a hierarchy VLR
          None       \* an optional without a value

Root == "root"
Keys == Children \cup {Root}
Level(key) == IF key = Root THEN 0 ELSE 1
Entry(key, offset, count) == [key |-> key, offset |-> offset, point_count |-> count]

Hierarchies ==
  {h \in UNION {[ks -> Offsets \X (1 .. MaxCount)] : ks \in SUBSET Keys} :
     Root \in DOMAIN h /\ \A k, m \in DOMAIN h : h[k][1] = h[m][1] => k = m}

VARIABLES file,  \* per reader the hierarchy of the file it has open
          held,  \* and how many points the file has at each place
          hand,  \* the entry the caller holds, or None
          out    \* what the last call returned, while the caller looks at it

vars == <<file, held, hand, out>>

NoAnswer == [op |-> "none"]

Init ==
  /\ file \in [Readers -> Hierarchies]
  /\ held \in [Readers -> [Offsets -> 0 .. MaxCount]]
  /\ hand = None
  /\ out = NoAnswer

-----------------------------------------------------------------------------
(* Selections cross the boundary as tagged structs, with zeros in the      *)
(* fields their kind does not use.                                         *)

\* A resolution is given by the number of levels it takes; 0 is one that is not
\* positive.
Lods ==
  {<<"All">>} \cup {<<"Resolution", l>> : l \in 0 .. 2} \cup {<<"Level", l>> : l \in 0 .. 1}
  \cup {<<"LevelMinMax", l, m>> : l \in 0 .. 1, m \in 0 .. 2}

LodStruct(kind, resolution, level, level_max) ==
  [kind |-> kind, resolution |-> resolution, level |-> level, level_max |-> level_max]

LodToC_LevelInMax(lod) ==
  CASE lod[1] = "All" -> LodStruct("All", 0, 0, 0)
    [] lod[1] = "Resolution" -> LodStruct("Resolution", lod[2], 0, 0)
    [] lod[1] = "Level" -> LodStruct("Level", 0, 0, lod[2])
    [] lod[1] = "LevelMinMax" -> LodStruct("LevelMinMax", 0, lod[2], lod[3])

LodToC(lod) ==
  CASE lod[1] = "All" -> LodStruct("All", 0, 0, 0)
    [] lod[1] = "Resolution" -> LodStruct("Resolution", lod[2], 0, 0)
    [] lod[1] = "Level" -> LodStruct("Level", 0, lod[2], 0)
    [] lod[1] = "LevelMinMax" -> LodStruct("LevelMinMax", 0, lod[2], lod[3])

LodFromC(c) ==
  CASE c.kind = "All" -> <<"All">>
    [] c.kind = "Resolution" -> <<"Resolution", c.resolution>>
    [] c.kind = "Level" -> <<"Level", c.level>>
    [] c.kind = "LevelMinMax" -> <<"LevelMinMax", c.level, c.level_max>>

\* A box is the set of children it touches; the root is touched by all but the
\* empty one, which is also what the unused field is.
BoundsToC(box) == [within |-> box # None, bounds |-> IF box = None THEN {} ELSE box]
BoundsFromC(c) == IF c.within THEN c.bounds ELSE None

\* las_rs: the levels a query visits, the last one excluded, and the cells.
InLevels(lod, level) ==
  CASE lod[1] = "All" -> TRUE
    [] lod[1] = "Resolution" -> level < lod[2]
    [] lod[1] = "Level" -> level = lod[2]
    [] lod[1] = "LevelMinMax" -> lod[2] <= level /\ level < lod[3]

Touched(box, key) == box = None \/ (IF key = Root THEN box # {} ELSE key \in box)

LasQuery(h, lod, box) == {k \in DOMAIN h : InLevels(lod, Level(k)) /\ Touched(box, k)}

\* It decompresses as many points as a chunk is said to have, or fails: always if
\* they are not there, and for a stream that fails whatever is there.
LasReadEntry(r, entry) ==
  {None} \cup {chunk \in {<<entry.offset, entry.point_count>>} : chunk[2] <= held[r][chunk[1]]}

\* A query reads the chunks of its cells; one of no resolution always fails.
LasQueried(r, lod, box) ==
  {None} \cup {cells \in {LasQuery(file[r], lod, box)} :
                 /\ \A k \in cells : file[r][k][2] <= held[r][file[r][k][1]]
                 /\ lod # <<"Resolution", 0>>}

-----------------------------------------------------------------------------
(* Calls.  None is what a call returns that throws. *)

\* hierarchy_entries and hierarchy_entry: the caller picks one of them.
TakeEntry(r, key) ==
  /\ out = NoAnswer
  /\ hand' = IF key \in DOMAIN file[r] THEN Entry(key, file[r][key][1], file[r][key][2]) ELSE None
  /\ UNCHANGED <<file, held, out>>

\* Entry is a struct the caller may assign to, or make up.
EditEntry(offset, count) ==
  /\ out = NoAnswer
  /\ hand # None
  /\ hand' = Entry(hand.key, offset, count)
  /\ UNCHANGED <<file, held, out>>

KnownEntry_KeyOnly(h, entry) == entry.key \in DOMAIN h

KnownEntry(h, entry) ==
  entry.key \in DOMAIN h /\ h[entry.key] = <<entry.offset, entry.point_count>>

\* Only what is known goes to las-rs, which makes room for the points that the
\* entry declares before it reads any.
read_entry(r) ==
  /\ out = NoAnswer
  /\ hand # None
  /\ \E points \in IF KnownEntry(file[r], hand) THEN LasReadEntry(r, hand) ELSE {None} :
       out' = [op |-> "read", reader |-> r, entry |-> hand, points |-> points,
               room |-> IF KnownEntry(file[r], hand) THEN hand.point_count ELSE 0]
  /\ UNCHANGED <<file, held, hand>>

query(r, lod, box) ==
  /\ out = NoAnswer
  /\ \E cells \in LasQueried(r, LodFromC(LodToC(lod)), BoundsFromC(BoundsToC(box))) :
       out' = [op |-> "query", reader |-> r, lod |-> lod, box |-> box, cells |-> cells]
  /\ UNCHANGED <<file, held, hand>>

CountPass_SkipsBad(page) == Cardinality({i \in DOMAIN page : page[i] # "bad"})

\* lasrs_copc_hierarchy_vlr_entries_len: fails at an entry las-rs cannot parse.
CountPass(page) ==
  IF \E i \in DOMAIN page : page[i] = "bad" THEN None ELSE Len(page)

\* lasrs_copc_hierarchy_vlr_iter_entries: stops after n entries, or at a bad one.
FillPass(page, n) ==
  IF n = None \/ \E i \in 1 .. n : page[i] = "bad" THEN None ELSE SubSeq(page, 1, n)

\* CopcHierarchyVlr::iter_entries: either pass may throw.
iter_entries(page) ==
  /\ out = NoAnswer
  /\ out' = [op |-> "iter", page |-> page, entries |-> FillPass(page, CountPass(page))]
  /\ UNCHANGED <<file, held, hand>>

\* The caller is done with an answer.
Looked ==
  /\ out # NoAnswer
  /\ out' = NoAnswer
  /\ UNCHANGED <<file, held, hand>>

Next ==
  \/ \E r \in Readers, k \in Keys : TakeEntry(r, k)
  \/ \E o \in Offsets, n \in 1 .. MaxCount + 1 : EditEntry(o, n)
  \/ \E r \in Readers : read_entry(r)
  \/ \E r \in Readers, lod \in Lods, box \in SUBSET Children \cup {None} : query(r, lod, box)
  \/ \E n \in 0 .. MaxPage : \E page \in [1 .. n -> {"good", "bad"}] : iter_entries(page)
  \/ Looked

Spec == Init /\ [][Next]_vars

-----------------------------------------------------------------------------
(* Properties *)

\* Whatever the caller did to an entry, and whichever file it is from: if it is
\* one of the reader's own file, las-rs makes room for as many points as that file
\* itself declares for the cell; if not, for none, and the read is refused.  A
\* read that returns has the points at the place of the entry's cell in that file,
\* as many as declared, and they are there.  Room may have been made for more than
\* are there when the file lies (SECURITY.md, the known gap), never when only the
\* caller does (lasrs_copc_reader_read_entry).
ReadsOwnChunks ==
  out.op = "read" =>
    LET h == file[out.reader]
        own == \E k \in DOMAIN h : out.entry = Entry(k, h[k][1], h[k][2])
        there == held[out.reader][h[out.entry.key][1]]
    IN  IF own
        THEN /\ out.room = h[out.entry.key][2]
             /\ out.points # None => out.points = h[out.entry.key] /\ out.room <= there
        ELSE out.room = 0 /\ out.points = None

\* A query that returns visited the cells the caller's selection stands for, also
\* when its numbers and its box are the zeros that unused fields hold, so the
\* queries of the single levels share out the query of all levels; a resolution
\* that is not positive is refused and not taken for another selection.
QueryVisitsSelected ==
  out.op = "query" /\ out.cells # None =>
    LET h == file[out.reader]
    IN  /\ out.cells = LasQuery(h, out.lod, out.box)
        /\ out.lod = <<"All">> =>
             out.cells = UNION {LasQuery(h, LodFromC(LodToC(<<"Level", l>>)), out.box) : l \in 0 .. 1}
        /\ out.lod # <<"Resolution", 0>>

\* iter_entries gives all the entries of the page or throws because one of them
\* is bad; it never gives the good ones among them, or those before a bad one.
ListsWholePage ==
  out.op = "iter" =>
    IF out.entries = None THEN \E i \in DOMAIN out.page : out.page[i] = "bad"
    ELSE out.entries = out.page /\ \A i \in DOMAIN out.page : out.page[i] = "good"
=============================================================================
