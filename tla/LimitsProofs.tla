---------------------------- MODULE LimitsProofs ----------------------------
(***************************************************************************)
(* Proofs about Limits, for every file and every size of its parts: the    *)
(* check of rust/src/limits.rs looks everywhere las-rs allocates from.     *)
(***************************************************************************)
EXTENDS Limits, WellFoundedInduction, TLAPS

-----------------------------------------------------------------------------
(* The inductive invariant *)

\* Where the first n EVLRs begin, and where the last of them ends: each within
\* the data, and each from a length that was read.
Chain(c, n) ==
  /\ c \in [0 .. n -> 0 .. end]
  /\ c[0] = file.start_of_first_evlr
  /\ \A k \in 0 .. n - 1 :
       /\ c[k] + EVLR_RECORD_LENGTH_OFFSET <= end
       /\ long[c[k] + EVLR_RECORD_LENGTH_OFFSET] # Unread
       /\ c[k + 1] = c[k] + EVLR_HEADER_SIZE + long[c[k] + EVLR_RECORD_LENGTH_OFFSET]

Chained(n) == \E c \in [0 .. n -> 0 .. end] : Chain(c, n)
ChainedTo(n, k, p) == \E c \in [0 .. n -> 0 .. end] : Chain(c, n) /\ c[k] = p

\* The field that holds the offset of the chunk table, and that offset.
TableField == IF AsI64(long[data_start]) > data_start THEN data_start ELSE end - LONG
Table == AsI64(long[TableField])

TableFound ==
  /\ data_start + LONG <= end
  /\ long[data_start] # Unread
  /\ long[TableField] # Unread

\* The number of chunks was read and fits, unless laz-rs never gets to it.
ChunksCounted ==
  \/ LeftToLaz(Table)
  \/ /\ word[Table + WORD] # Unread
     /\ word[Table + WORD] * MIN_LAZ_CHUNK_SIZE <= Table - data_start

Passed == pc \in {"las_evlr", "las_laz"} \/ (pc = "restore" /\ result = "pending")

\* What the check has answered, by the step open is at.
ResultOK ==
  /\ pc \in {"measure", "header", "evlr", "laz_offset", "laz_count"} => result = "pending"
  /\ pc = "restore" => result \in {"pending", "err"}
  /\ pc \in {"las_evlr", "las_laz"} => result = "ok"
  /\ pc \in {"measure", "header"} => i = 0

\* The walk of the check stands at the end of a chain as long as its count.
WalkOK ==
  pc = "evlr" =>
    /\ file.evlr
    /\ i \in 0 .. file.number_of_evlrs
    /\ i * EVLR_HEADER_SIZE <= position
    /\ position <= end
    /\ ChainedTo(i, i, position)

\* Past the walk, every EVLR that las-rs will read is in the chain.
EvlrsOK ==
  Passed \/ pc \in {"laz_offset", "laz_count"} => (file.evlr => Chained(file.number_of_evlrs))

LazOK ==
  /\ pc \in {"laz_offset", "las_laz"} => file.laz
  /\ pc = "laz_count" => file.laz /\ TableFound /\ chunk_table = Table
  /\ Passed => (file.laz => TableFound /\ ChunksCounted)

\* The walk of las-rs stands in the chain the check has left.
LasOK ==
  pc = "las_evlr" =>
    /\ i \in 0 .. LasEvlrs
    /\ i * EVLR_HEADER_SIZE <= position
    /\ position <= end
    /\ file.evlr => ChainedTo(file.number_of_evlrs, i, position)

Inv == /\ TypeOK /\ ResultOK /\ WalkOK /\ EvlrsOK /\ LazOK /\ LasOK
       /\ StreamRestored /\ AllocationsFitData

-----------------------------------------------------------------------------
(* Sizes and fields *)

\* What the assumption says of each size.
LEMMA Constants ==
  /\ MaxI64 \in Nat /\ MaxU32 \in Nat /\ RAW_HEADER_SIZE \in Nat /\ EVLR_HEADER_SIZE \in Nat
  /\ EVLR_RECORD_LENGTH_OFFSET \in Nat /\ WORD \in Nat /\ WORD > 0 /\ LONG \in Nat /\ LONG > 0
  /\ LONG = 2 * WORD
  /\ MIN_LAZ_CHUNK_SIZE \in Nat /\ MIN_LAZ_CHUNK_SIZE > 0
  /\ EVLR_RECORD_LENGTH_OFFSET + LONG <= EVLR_HEADER_SIZE
  /\ EVLR_HEADER_SIZE <= MaxI64
BY LimitsAssumption DEF LONG

\* The fields of the header have the widths of the format.
LEMMA FileTyped ==
  ASSUME TypeOK
  PROVE  /\ end \in 0 .. MaxI64 /\ end \in Nat /\ data_start \in Nat /\ data_start \in 0 .. MaxU32
         /\ file.start_of_first_evlr \in Nat /\ file.number_of_evlrs \in 0 .. MaxU32
         /\ file.evlr \in BOOLEAN /\ file.laz \in BOOLEAN
BY Constants DEF TypeOK, Files, end, data_start, U32, U64

\* A u64 read as an i64 is one.
LEMMA SignedTyped ==
  ASSUME NEW v \in U64
  PROVE  AsI64(v) \in -(MaxI64 + 1) .. MaxI64
BY Constants DEF U64, AsI64

\* A field that was read is a number, and not the mark of an unread one.
LEMMA LongsAreNumbers ==
  /\ \A v \in U64 : v # Unread /\ v \in Nat
  /\ \A v \in U32 : v # Unread /\ v \in Nat
BY Constants DEF U64, U32, Unread

\* What was read of the file stays read.
Kept == /\ file' = file
        /\ long' \in [0 .. MaxI64 -> U64 \cup {Unread}]
        /\ \A q \in 0 .. MaxI64 : long[q] # Unread => long'[q] = long[q]

WordsKept ==
  /\ word' \in [0 .. MaxI64 -> U32 \cup {Unread}]
  /\ \A q \in 0 .. MaxI64 : word[q] # Unread => word'[q] = word[q]

\* What is read from a field is of its type, and is what was read before.
LEMMA ReadLong ==
  ASSUME TypeOK, NEW p \in 0 .. MaxI64, NEW v \in Values(long, p, U64),
         file' = file, long' = [long EXCEPT ![p] = v]
  PROVE  Kept /\ long'[p] = v /\ v \in U64 /\ (long[p] # Unread => v = long[p])
<1>1. long \in [0 .. MaxI64 -> U64 \cup {Unread}]
  BY DEF TypeOK
<1>2. v \in U64 /\ (long[p] # Unread => v = long[p])
  BY <1>1 DEF Values
<1>3. long' \in [0 .. MaxI64 -> U64 \cup {Unread}]
  BY <1>1, <1>2
<1>4. \A q \in 0 .. MaxI64 : long[q] # Unread => long'[q] = long[q]
  BY <1>1, <1>2
<1>5. long'[p] = v
  BY <1>1
<1>6. QED
  BY <1>2, <1>3, <1>4, <1>5 DEF Kept

\* Reading a u32 fixes it for whoever reads it next.
LEMMA ReadWord ==
  ASSUME TypeOK, NEW p \in 0 .. MaxI64, NEW v \in Values(word, p, U32),
         word' = [word EXCEPT ![p] = v]
  PROVE  WordsKept /\ word'[p] = v /\ v \in U32 /\ (word[p] # Unread => v = word[p])
<1>1. word \in [0 .. MaxI64 -> U32 \cup {Unread}]
  BY DEF TypeOK
<1>2. v \in U32 /\ (word[p] # Unread => v = word[p])
  BY <1>1 DEF Values
<1>3. word' \in [0 .. MaxI64 -> U32 \cup {Unread}]
  BY <1>1, <1>2
<1>4. \A q \in 0 .. MaxI64 : word[q] # Unread => word'[q] = word[q]
  BY <1>1, <1>2
<1>5. word'[p] = v
  BY <1>1
<1>6. QED
  BY <1>2, <1>3, <1>4, <1>5 DEF WordsKept

\* A step that reads nothing keeps what was read.
LEMMA NothingRead == ASSUME TypeOK, file' = file, long' = long PROVE Kept
BY DEF TypeOK, Kept

\* The same for the u32 fields.
LEMMA NoWordRead == ASSUME TypeOK, word' = word PROVE WordsKept
BY DEF TypeOK, WordsKept

-----------------------------------------------------------------------------
(* Reading on changes nothing of what was read *)

\* A chain of EVLRs rests on lengths that were read, so it stays one.
LEMMA ChainKept ==
  ASSUME TypeOK, Kept, NEW n \in Nat, NEW c, Chain(c, n)
  PROVE  Chain(c, n)'
<1>1. end' = end /\ file' = file
  BY DEF Kept, end
<1>2. c \in [0 .. n -> 0 .. end] /\ c[0] = file.start_of_first_evlr
  BY DEF Chain
<1>3. ASSUME NEW k \in 0 .. n - 1
      PROVE  /\ c[k] + EVLR_RECORD_LENGTH_OFFSET <= end
             /\ long'[c[k] + EVLR_RECORD_LENGTH_OFFSET] # Unread
             /\ c[k + 1] = c[k] + EVLR_HEADER_SIZE + long'[c[k] + EVLR_RECORD_LENGTH_OFFSET]
  <2>1. /\ c[k] + EVLR_RECORD_LENGTH_OFFSET <= end
        /\ long[c[k] + EVLR_RECORD_LENGTH_OFFSET] # Unread
        /\ c[k + 1] = c[k] + EVLR_HEADER_SIZE + long[c[k] + EVLR_RECORD_LENGTH_OFFSET]
    BY DEF Chain
  <2>2. c[k] + EVLR_RECORD_LENGTH_OFFSET \in 0 .. MaxI64
    <3>1. c[k] \in 0 .. end
      BY <1>2
    <3>2. QED
      BY <2>1, <3>1, FileTyped, Constants
  <2>3. long'[c[k] + EVLR_RECORD_LENGTH_OFFSET] = long[c[k] + EVLR_RECORD_LENGTH_OFFSET]
    BY <2>1, <2>2 DEF Kept
  <2>4. QED
    BY <2>1, <2>3
<1>4. QED
  BY <1>1, <1>2, <1>3 DEF Chain

\* So do the chains up to an EVLR.
LEMMA ChainedKept ==
  ASSUME TypeOK, Kept, NEW n \in Nat
  PROVE  /\ Chained(n) => Chained(n)'
         /\ \A k, p : ChainedTo(n, k, p) => ChainedTo(n, k, p)'
<1>1. end' = end
  BY DEF Kept, end
<1>2. Chained(n) => Chained(n)'
  BY <1>1, ChainKept DEF Chained
<1>3. \A k, p : ChainedTo(n, k, p) => ChainedTo(n, k, p)'
  BY <1>1, ChainKept DEF ChainedTo
<1>4. QED
  BY <1>2, <1>3

\* The end of a chain is in the chain.
LEMMA ChainExtended ==
  ASSUME TypeOK, NEW n \in Nat, NEW p \in 0 .. end, ChainedTo(n, n, p),
         p + EVLR_RECORD_LENGTH_OFFSET + LONG <= end,
         NEW v \in Values(long, p + EVLR_RECORD_LENGTH_OFFSET, U64),
         p + EVLR_HEADER_SIZE + v <= end,
         file' = file, long' = [long EXCEPT ![p + EVLR_RECORD_LENGTH_OFFSET] = v]
  PROVE  ChainedTo(n + 1, n + 1, p + EVLR_HEADER_SIZE + v)'
<1>. DEFINE at == p + EVLR_RECORD_LENGTH_OFFSET
            q == p + EVLR_HEADER_SIZE + v
<1>1. at \in 0 .. MaxI64 /\ at <= end
  BY FileTyped, Constants
<1>2. Kept /\ long'[at] = v /\ v \in U64
  BY <1>1, ReadLong
<1>3. v # Unread /\ v \in Nat
  BY <1>2, LongsAreNumbers
<1>4. q \in 0 .. end
  BY <1>3, FileTyped, Constants
<1>5. PICK c \in [0 .. n -> 0 .. end] : Chain(c, n) /\ c[n] = p
  BY DEF ChainedTo
<1>6. Chain(c, n)' /\ end' = end
  BY <1>2, <1>5, ChainKept DEF Kept, end
<1>. DEFINE d == [k \in 0 .. n + 1 |-> IF k = n + 1 THEN q ELSE c[k]]
<1>7. \A k \in 0 .. n : d[k] = c[k] /\ k # n + 1
  OBVIOUS
<1>8. d \in [0 .. n + 1 -> 0 .. end] /\ d[n + 1] = q
  BY <1>4
<1>9. d[0] = c[0] /\ d[n] = p
  BY <1>5, <1>7
<1>. HIDE DEF d
<1>10. ASSUME NEW k \in 0 .. n
       PROVE  /\ d[k] + EVLR_RECORD_LENGTH_OFFSET <= end
              /\ long'[d[k] + EVLR_RECORD_LENGTH_OFFSET] # Unread
              /\ d[k + 1] = d[k] + EVLR_HEADER_SIZE + long'[d[k] + EVLR_RECORD_LENGTH_OFFSET]
  <2>1. CASE k = n
    BY <1>1, <1>2, <1>3, <1>8, <1>9, <2>1
  <2>2. CASE k # n
    <3>1. k \in 0 .. n - 1 /\ k + 1 \in 0 .. n
      BY <2>2
    <3>2. d[k] = c[k] /\ d[k + 1] = c[k + 1]
      BY <1>7, <3>1
    <3>3. /\ c[k] + EVLR_RECORD_LENGTH_OFFSET <= end
          /\ long'[c[k] + EVLR_RECORD_LENGTH_OFFSET] # Unread
          /\ c[k + 1] = c[k] + EVLR_HEADER_SIZE + long'[c[k] + EVLR_RECORD_LENGTH_OFFSET]
      BY <1>6, <3>1 DEF Chain
    <3>4. QED
      BY <3>2, <3>3
  <2>3. QED
    BY <2>1, <2>2
<1>11. Chain(d, n + 1)'
  <2>1. (n + 1) - 1 = n
    OBVIOUS
  <2>2. c[0] = file'.start_of_first_evlr
    BY <1>6 DEF Chain
  <2>3. QED
    BY <1>6, <1>8, <1>9, <1>10, <2>1, <2>2 DEF Chain
<1>12. QED
  BY <1>6, <1>8, <1>11 DEF ChainedTo

\* Las-rs reads the length the check has read.
LEMMA ChainFollowed ==
  ASSUME TypeOK, NEW n \in Nat, NEW k \in 0 .. n - 1, NEW p, ChainedTo(n, k, p)
  PROVE  /\ p \in 0 .. end
         /\ p + EVLR_RECORD_LENGTH_OFFSET \in 0 .. MaxI64
         /\ long[p + EVLR_RECORD_LENGTH_OFFSET] # Unread
         /\ p + EVLR_HEADER_SIZE + long[p + EVLR_RECORD_LENGTH_OFFSET] \in 0 .. end
         /\ ChainedTo(n, k + 1, p + EVLR_HEADER_SIZE + long[p + EVLR_RECORD_LENGTH_OFFSET])
<1>1. PICK c \in [0 .. n -> 0 .. end] : Chain(c, n) /\ c[k] = p
  BY DEF ChainedTo
<1>2. /\ c[k] + EVLR_RECORD_LENGTH_OFFSET <= end
      /\ long[c[k] + EVLR_RECORD_LENGTH_OFFSET] # Unread
      /\ c[k + 1] = c[k] + EVLR_HEADER_SIZE + long[c[k] + EVLR_RECORD_LENGTH_OFFSET]
  BY <1>1 DEF Chain
<1>3. c[k] \in 0 .. end /\ c[k + 1] \in 0 .. end
  <2>1. k \in 0 .. n /\ k + 1 \in 0 .. n
    OBVIOUS
  <2>2. QED
    BY <1>1, <2>1
<1>4. c[k] + EVLR_RECORD_LENGTH_OFFSET \in 0 .. MaxI64
  BY <1>2, <1>3, FileTyped, Constants
<1>5. ChainedTo(n, k + 1, p + EVLR_HEADER_SIZE + long[p + EVLR_RECORD_LENGTH_OFFSET])
  BY <1>1, <1>2 DEF ChainedTo
<1>6. QED
  BY <1>1, <1>2, <1>3, <1>4, <1>5

\* The offset of the chunk table lies in the file when there is room for it.
LEMMA FieldsInFile ==
  ASSUME TypeOK, data_start + LONG <= end
  PROVE  data_start \in 0 .. MaxI64 /\ end - LONG \in 0 .. MaxI64
BY FileTyped, Constants

\* A chunk table that was found stays where it is.
LEMMA TableKept ==
  ASSUME TypeOK, Kept, TableFound
  PROVE  TableFound' /\ Table' = Table /\ data_start' = data_start /\ end' = end
<1>1. end' = end /\ data_start' = data_start
  BY DEF Kept, end, data_start
<1>2. data_start \in 0 .. MaxI64 /\ end - LONG \in 0 .. MaxI64
  BY FieldsInFile DEF TableFound
<1>3. long'[data_start] = long[data_start]
  BY <1>2 DEF TableFound, Kept
<1>4. TableField' = TableField /\ TableField \in 0 .. MaxI64
  BY <1>1, <1>2, <1>3 DEF TableField
<1>5. long'[TableField] = long[TableField]
  BY <1>4 DEF TableFound, Kept
<1>6. TableFound' /\ Table' = Table
  BY <1>1, <1>3, <1>4, <1>5 DEF TableFound, Table
<1>7. QED
  BY <1>1, <1>6

\* The offset of a chunk table is an i64, of either sign.
LEMMA TableTyped ==
  ASSUME TypeOK, TableFound
  PROVE  Table \in -(MaxI64 + 1) .. MaxI64 /\ Table \in Int
<1>1. TableField \in 0 .. MaxI64
  BY FieldsInFile DEF TableFound, TableField
<1>2. long[TableField] \in U64
  BY <1>1 DEF TableFound, TypeOK
<1>3. QED
  BY <1>2, SignedTyped, Constants DEF Table

\* A chunk table that laz-rs reads lies in the data, behind their start.
LEMMA TableInData ==
  ASSUME TypeOK, NEW t \in Int, ~LeftToLaz(t)
  PROVE  t + WORD \in 0 .. MaxI64 /\ t > data_start /\ t + LONG <= end
BY FileTyped, Constants DEF LeftToLaz

\* A chunk count that was read and fits still does.
LEMMA CountKept ==
  ASSUME TypeOK, Kept, WordsKept, TableFound, ChunksCounted
  PROVE  ChunksCounted'
<1>1. Table' = Table /\ data_start' = data_start /\ end' = end
  BY TableKept
<1>2. CASE LeftToLaz(Table)
  BY <1>1, <1>2 DEF ChunksCounted, LeftToLaz
<1>3. CASE ~LeftToLaz(Table)
  <2>1. Table + WORD \in 0 .. MaxI64
    BY <1>3, TableTyped, TableInData
  <2>2. word[Table + WORD] # Unread /\ word[Table + WORD] * MIN_LAZ_CHUNK_SIZE <= Table - data_start
    BY <1>3 DEF ChunksCounted
  <2>3. word'[Table + WORD] = word[Table + WORD]
    BY <2>1, <2>2 DEF WordsKept
  <2>4. QED
    BY <1>1, <2>2, <2>3 DEF ChunksCounted
<1>4. QED
  BY <1>2, <1>3

-----------------------------------------------------------------------------
(* The invariant is inductive *)

\* Before the check nothing was read and nothing allocated.
LEMMA InitInv == Init => Inv
<1>. SUFFICES ASSUME Init PROVE Inv
  OBVIOUS
<1>1. end \in 0 .. MaxI64
  BY Constants DEF Init, Files, end
<1>2. TypeOK
  <2>1. long \in [0 .. MaxI64 -> U64 \cup {Unread}] /\ word \in [0 .. MaxI64 -> U32 \cup {Unread}]
    BY DEF Init
  <2>2. 0 \in U32 /\ 0 \in 0 .. end /\ 0 \in -(MaxI64 + 1) .. MaxI64
    BY <1>1, Constants DEF U32
  <2>3. QED
    BY <2>1, <2>2 DEF Init, TypeOK
<1>3. QED
  BY <1>2 DEF Init, Inv, ResultOK, WalkOK, EvlrsOK, LazOK, LasOK, Passed, StreamRestored,
              AllocationsFitData

\* A step that allocates nothing cannot break the bound.
LEMMA AllocKept ==
  ASSUME AllocationsFitData, file' = file, alloc' = alloc
  PROVE  AllocationsFitData'
BY DEF AllocationsFitData, end

\* A refusal puts the stream back and allocates nothing.
LEMMA RejectInv ==
  ASSUME Inv, Reject, Kept, WordsKept, faulted' \in BOOLEAN
  PROVE  Inv'
<1>1. end' = end
  BY DEF Kept, end
<1>2. TypeOK'
  BY <1>1 DEF Inv, TypeOK, Reject, Kept, WordsKept
<1>3. AllocationsFitData'
  BY AllocKept DEF Inv, Reject
<1>4. QED
  BY <1>2, <1>3 DEF Inv, ResultOK, WalkOK, EvlrsOK, LazOK, LasOK, Passed, StreamRestored, Reject

\* A stream that fails refuses the file.
LEMMA StreamFailsInv == ASSUME Inv, StreamFails PROVE Inv'
<1>1. TypeOK /\ Reject /\ file' = file /\ long' = long /\ word' = word /\ faulted' \in BOOLEAN
  BY DEF Inv, StreamFails, Reject
<1>2. QED
  BY <1>1, NothingRead, NoWordRead, RejectInv

\* The end of the stream is known from here on.
LEMMA MeasureInv == ASSUME Inv, Measure PROVE Inv'
<1>1. /\ TypeOK /\ file' = file /\ long' = long /\ word' = word /\ position' = position /\ i' = i
      /\ chunk_table' = chunk_table /\ alloc' = alloc /\ pc = "measure" /\ i = 0
  BY DEF Inv, Measure, ResultOK
<1>2. end' = end /\ AllocationsFitData' /\ end \in Nat
  BY <1>1, AllocKept, FileTyped DEF end, Inv
<1>3. CASE pc' = "header" /\ pos' = 0 /\ UNCHANGED <<result, faulted>>
  <2>1. TypeOK'
    BY <1>1, <1>2, <1>3 DEF TypeOK
  <2>2. QED
    BY <1>1, <1>2, <1>3, <2>1
       DEF Inv, ResultOK, WalkOK, EvlrsOK, LazOK, LasOK, Passed, StreamRestored
<1>4. CASE pc' = "done" /\ pos' \in {0, end} /\ result' = "err" /\ faulted' = TRUE
  <2>1. TypeOK'
    BY <1>1, <1>2, <1>4 DEF TypeOK
  <2>2. QED
    BY <1>1, <1>2, <1>4, <2>1
       DEF Inv, ResultOK, WalkOK, EvlrsOK, LazOK, LasOK, Passed, StreamRestored
<1>5. QED
  BY <1>3, <1>4 DEF Measure

\* The walk starts at a position of the stream, with an empty chain behind it.
LEMMA FirstEvlr ==
  ASSUME TypeOK, file.start_of_first_evlr <= end
  PROVE  ChainedTo(0, 0, file.start_of_first_evlr)
<1>1. file.start_of_first_evlr \in 0 .. end
  BY FileTyped
<1>. DEFINE c == [k \in 0 .. 0 |-> file.start_of_first_evlr]
<1>2. c \in [0 .. 0 -> 0 .. end] /\ c[0] = file.start_of_first_evlr
  BY <1>1
<1>. HIDE DEF c
<1>3. Chain(c, 0)
  BY <1>2 DEF Chain
<1>4. QED
  BY <1>2, <1>3 DEF ChainedTo

\* The header decides which of the checks come.
LEMMA ReadHeaderInv == ASSUME Inv, ReadHeader PROVE Inv'
<1>1. /\ TypeOK /\ file' = file /\ long' = long /\ word' = word /\ faulted' = faulted
      /\ pc = "header" /\ i = 0 /\ result = "pending"
  BY DEF Inv, ReadHeader, Reject, ResultOK
<1>2. Kept /\ WordsKept
  BY <1>1, NothingRead, NoWordRead
<1>3. faulted' \in BOOLEAN
  BY <1>1 DEF TypeOK
<1>4. CASE Reject
  BY <1>2, <1>3, <1>4, RejectInv
<1>5. CASE /\ ~(RAW_HEADER_SIZE > end \/ (file.evlr /\ file.start_of_first_evlr > end))
           /\ pc' = AfterHeader
           /\ pos' = RAW_HEADER_SIZE
           /\ position' = IF file.evlr THEN file.start_of_first_evlr ELSE 0
           /\ UNCHANGED <<file, i, chunk_table, result, alloc>>
  <2>1. end' = end /\ AllocationsFitData'
    BY <1>5, AllocKept DEF end, Inv
  <2>2. end \in Nat /\ file.start_of_first_evlr \in Nat /\ file.number_of_evlrs \in Nat
        /\ RAW_HEADER_SIZE \in Nat /\ file.evlr \in BOOLEAN
    BY <1>1, FileTyped, Constants
  <2>3. position' \in Nat /\ pos' \in 0 .. end
    BY <1>5, <2>2
  <2>4. TypeOK'
    BY <1>1, <1>5, <2>1, <2>3 DEF TypeOK, AfterHeader
  <2>5. CASE file.evlr
    <3>1. pc' = "evlr" /\ position' = file.start_of_first_evlr /\ position' <= end
      BY <1>5, <2>2, <2>5 DEF AfterHeader
    <3>2. ChainedTo(0, 0, position)'
      <4>1. PICK p : p = file.start_of_first_evlr
        OBVIOUS
      <4>2. ChainedTo(0, 0, p)
        BY <1>1, <3>1, <4>1, FirstEvlr
      <4>3. ChainedTo(0, 0, p)'
        BY <1>1, <1>2, <4>2, ChainedKept
      <4>4. position' = p
        BY <3>1, <4>1
      <4>5. QED
        BY <4>3, <4>4 DEF ChainedTo
    <3>3. WalkOK'
      BY <1>1, <1>5, <2>1, <2>2, <2>5, <3>1, <3>2, Constants DEF WalkOK
    <3>4. QED
      BY <1>1, <1>5, <2>1, <2>4, <3>1, <3>3
         DEF Inv, ResultOK, EvlrsOK, LazOK, LasOK, Passed, StreamRestored
  <2>6. CASE ~file.evlr
    <3>1. pc' = (IF file.laz THEN "laz_offset" ELSE "restore")
      BY <1>5, <2>6 DEF AfterHeader
    <3>2. QED
      BY <1>1, <1>5, <2>1, <2>4, <2>6, <3>1
         DEF Inv, ResultOK, WalkOK, EvlrsOK, LazOK, LasOK, Passed, StreamRestored
  <2>7. QED
    BY <2>2, <2>5, <2>6
<1>6. QED
  BY <1>4, <1>5 DEF ReadHeader

\* One turn of check_evlrs makes the chain one EVLR longer, or refuses the file.
LEMMA CheckEvlrInv == ASSUME Inv, CheckEvlr PROVE Inv'
<1>. DEFINE at == position + EVLR_RECORD_LENGTH_OFFSET
<1>1. /\ TypeOK /\ pc = "evlr" /\ i < file.number_of_evlrs /\ word' = word /\ faulted' = faulted
      /\ result = "pending" /\ file.evlr
  BY DEF Inv, CheckEvlr, ResultOK, WalkOK
<1>2. WordsKept /\ faulted' \in BOOLEAN
  BY <1>1, NoWordRead DEF TypeOK
<1>3. /\ position \in Nat /\ i \in Nat /\ end \in Nat /\ end <= MaxI64 /\ file.number_of_evlrs \in 0 .. MaxU32
  BY <1>1, FileTyped, Constants DEF TypeOK, U32
<1>4. i * EVLR_HEADER_SIZE <= position /\ position <= end /\ ChainedTo(i, i, position)
  BY <1>1 DEF Inv, WalkOK
<1>5. CASE long' = long /\ Reject
  BY <1>1, <1>2, <1>5, NothingRead, RejectInv DEF Reject
<1>6. CASE /\ at + LONG <= end
           /\ \E record_length \in Values(long, at, U64) :
                /\ long' = [long EXCEPT ![at] = record_length]
                /\ IF PastEnd(NextEvlr(record_length)) THEN Reject ELSE WalkEvlr(record_length)
  <2>1. at \in 0 .. MaxI64 /\ at + LONG \in 0 .. end
    BY <1>3, <1>6, Constants
  <2>2. PICK record_length \in Values(long, at, U64) :
           /\ long' = [long EXCEPT ![at] = record_length]
           /\ IF PastEnd(NextEvlr(record_length)) THEN Reject ELSE WalkEvlr(record_length)
    BY <1>6
  <2>3. file' = file
    BY <2>2 DEF Reject, WalkEvlr
  <2>4. Kept /\ record_length \in U64
    BY <1>1, <2>1, <2>2, <2>3, ReadLong
  <2>5. record_length \in Nat
    BY <2>4, LongsAreNumbers
  <2>6. CASE Reject
    BY <1>2, <2>4, <2>6, RejectInv
  <2>7. CASE ~PastEnd(NextEvlr(record_length)) /\ WalkEvlr(record_length)
    <3>1. /\ position' = position + EVLR_HEADER_SIZE + record_length /\ i' = i + 1
          /\ pos' = at + LONG /\ pc' = pc /\ chunk_table' = chunk_table /\ result' = result
          /\ alloc' = alloc
      BY <2>7 DEF WalkEvlr, NextEvlr
    <3>2. position + EVLR_HEADER_SIZE + record_length \in 0 .. end
      BY <2>5, <2>7, <1>3, Constants DEF PastEnd, NextEvlr
    <3>3. end' = end /\ AllocationsFitData'
      BY <2>3, <3>1, AllocKept DEF end, Inv
    <3>4. i + 1 \in 0 .. MaxU32 /\ i + 1 \in 0 .. file.number_of_evlrs
      BY <1>1, <1>3, Constants
    <3>5. TypeOK'
      BY <1>1, <1>2, <2>1, <2>3, <2>4, <3>1, <3>2, <3>3, <3>4, <1>3
         DEF TypeOK, Kept, WordsKept, U32
    <3>6. (i + 1) * EVLR_HEADER_SIZE <= position + EVLR_HEADER_SIZE + record_length
      <4>1. (i + 1) * EVLR_HEADER_SIZE = i * EVLR_HEADER_SIZE + EVLR_HEADER_SIZE
        BY <1>3, Constants
      <4>2. i * EVLR_HEADER_SIZE \in Nat
        BY <1>3, Constants
      <4>3. QED
        BY <1>3, <1>4, <2>5, <4>1, <4>2, Constants
    <3>7. ChainedTo(i, i, position)'
      <4>1. PICK n, p : n = i /\ p = position
        OBVIOUS
      <4>2. n \in Nat /\ p \in 0 .. end /\ ChainedTo(n, n, p)
        BY <1>3, <1>4, <4>1
      <4>3. /\ p + EVLR_RECORD_LENGTH_OFFSET + LONG <= end
            /\ record_length \in Values(long, p + EVLR_RECORD_LENGTH_OFFSET, U64)
            /\ p + EVLR_HEADER_SIZE + record_length <= end
            /\ long' = [long EXCEPT ![p + EVLR_RECORD_LENGTH_OFFSET] = record_length]
        <5>1. p + EVLR_RECORD_LENGTH_OFFSET = at
          BY <4>1
        <5>2. long' = [long EXCEPT ![at] = record_length]
          BY <2>2
        <5>3. p + EVLR_HEADER_SIZE + record_length \in 0 .. end /\ at + LONG <= end
          BY <3>2, <4>1, <1>6
        <5>4. p + EVLR_HEADER_SIZE + record_length <= end
          BY <5>3, <1>3
        <5>5. record_length \in Values(long, at, U64)
          OBVIOUS
        <5>. HIDE DEF at
        <5>6. QED
          BY <5>1, <5>2, <5>3, <5>4, <5>5, Zenon
      <4>4. ChainedTo(n + 1, n + 1, p + EVLR_HEADER_SIZE + record_length)'
        BY <1>1, <2>3, <4>2, <4>3, ChainExtended
      <4>5. i' = n + 1 /\ position' = p + EVLR_HEADER_SIZE + record_length
        BY <3>1, <4>1
      <4>6. QED
        BY <4>4, <4>5 DEF ChainedTo, Chain
    <3>8. WalkOK'
      BY <1>1, <2>3, <3>1, <3>2, <3>3, <3>4, <3>6, <3>7 DEF WalkOK
    <3>9. QED
      BY <1>1, <3>1, <3>3, <3>5, <3>8
         DEF Inv, ResultOK, EvlrsOK, LazOK, LasOK, Passed, StreamRestored
  <2>8. QED
    BY <2>2, <2>6, <2>7
<1>7. QED
  BY <1>5, <1>6 DEF CheckEvlr

\* At the end of the walk the chain has all the EVLRs that the header declares.
LEMMA CheckEvlrsDoneInv == ASSUME Inv, CheckEvlrsDone PROVE Inv'
<1>1. /\ TypeOK /\ pc = "evlr" /\ i = file.number_of_evlrs /\ pc' = AfterEvlrs
      /\ result = "pending" /\ file.evlr /\ ChainedTo(i, i, position)
      /\ UNCHANGED <<file, long, word, pos, position, i, chunk_table, result, faulted, alloc>>
  BY DEF Inv, CheckEvlrsDone, ResultOK, WalkOK
<1>2. end' = end /\ AllocationsFitData' /\ Kept
  BY <1>1, AllocKept, NothingRead DEF end, Inv
<1>3. pc' = (IF file.laz THEN "laz_offset" ELSE "restore")
  BY <1>1 DEF AfterEvlrs
<1>4. TypeOK'
  BY <1>1, <1>2, <1>3 DEF TypeOK
<1>5. Chained(file.number_of_evlrs)'
  <2>1. PICK n : n = file.number_of_evlrs
    OBVIOUS
  <2>2. n \in Nat
    BY <1>1, <2>1, FileTyped
  <2>3. Chained(n)
    BY <1>1, <2>1 DEF ChainedTo, Chained
  <2>4. Chained(n)'
    BY <1>1, <1>2, <2>2, <2>3, ChainedKept
  <2>5. file'.number_of_evlrs = n
    BY <1>1, <2>1
  <2>6. QED
    BY <2>4, <2>5 DEF Chained, Chain
<1>6. QED
  BY <1>1, <1>2, <1>3, <1>4, <1>5
     DEF Inv, ResultOK, WalkOK, EvlrsOK, LazOK, LasOK, Passed, StreamRestored

\* Past the walk, the chain stays as it is.
LEMMA EvlrsKept ==
  ASSUME TypeOK, Kept, file.evlr => Chained(file.number_of_evlrs)
  PROVE  (file.evlr => Chained(file.number_of_evlrs))'
<1>1. PICK n : n = file.number_of_evlrs
  OBVIOUS
<1>2. n \in Nat /\ file' = file
  BY <1>1, FileTyped DEF Kept
<1>3. file.evlr => Chained(n)'
  BY <1>1, <1>2, ChainedKept
<1>4. QED
  BY <1>1, <1>2, <1>3 DEF Chained, Chain

\* check_laz_chunk_count finds the table, or sees that laz-rs will refuse it.
LEMMA FindChunkTableInv == ASSUME Inv, FindChunkTable PROVE Inv'
<1>1. /\ TypeOK /\ pc = "laz_offset" /\ word' = word /\ faulted' = faulted /\ result = "pending"
      /\ file.laz /\ (file.evlr => Chained(file.number_of_evlrs))
  BY DEF Inv, FindChunkTable, ResultOK, LazOK, EvlrsOK
<1>2. WordsKept /\ faulted' \in BOOLEAN
  BY <1>1, NoWordRead DEF TypeOK
<1>3. CASE long' = long /\ Reject
  BY <1>1, <1>2, <1>3, NothingRead, RejectInv DEF Reject
<1>4. CASE data_start + LONG <= end /\ ~(long' = long /\ Reject)
  <2>1. data_start \in 0 .. MaxI64 /\ end - LONG \in 0 .. MaxI64
    BY <1>1, <1>4, FieldsInFile
  <2>2. /\ pc' = "laz_count" /\ file' = file /\ position' = position /\ i' = i
        /\ result' = result /\ alloc' = alloc
    BY <1>4 DEF FindChunkTable
  <2>3. end' = end /\ data_start' = data_start /\ AllocationsFitData'
    BY <2>2, AllocKept DEF end, data_start, Inv
  <2>4. PICK offset \in Values(long, data_start, U64) :
          LET first == [long EXCEPT ![data_start] = offset]
          IN  IF AsI64(offset) > data_start
              THEN /\ long' = first
                   /\ chunk_table' = AsI64(offset)
                   /\ pos' = data_start + LONG
              ELSE \E last \in Values(first, end - LONG, U64) :
                     /\ long' = [first EXCEPT ![end - LONG] = last]
                     /\ chunk_table' = AsI64(last)
                     /\ pos' = end
    BY <1>4 DEF FindChunkTable
  <2>. DEFINE first == [long EXCEPT ![data_start] = offset]
  <2>5. long \in [0 .. MaxI64 -> U64 \cup {Unread}]
    BY <1>1 DEF TypeOK
  <2>6. offset \in U64 /\ (long[data_start] # Unread => offset = long[data_start])
    BY <2>1, <2>5 DEF Values
  <2>7. first \in [0 .. MaxI64 -> U64 \cup {Unread}] /\ first[data_start] = offset
    BY <2>1, <2>5, <2>6
  <2>8. \A q \in 0 .. MaxI64 : long[q] # Unread => first[q] = long[q]
    BY <2>5, <2>6
  <2>9. offset # Unread /\ AsI64(offset) \in -(MaxI64 + 1) .. MaxI64
    BY <2>6, LongsAreNumbers, SignedTyped
  <2>10. data_start + LONG \in 0 .. end /\ end \in 0 .. end
    BY <1>1, <1>4, FileTyped, Constants
  <2>11. /\ Kept /\ TableFound' /\ chunk_table' = Table' /\ pos' \in 0 .. end
         /\ chunk_table' \in -(MaxI64 + 1) .. MaxI64
    <3>1. CASE AsI64(offset) > data_start
      <4>1. long' = first /\ chunk_table' = AsI64(offset) /\ pos' = data_start + LONG
        BY <2>4, <3>1
      <4>. HIDE DEF first
      <4>2. Kept
        BY <2>2, <2>7, <2>8, <4>1 DEF Kept
      <4>3. TableField' = data_start
        BY <2>3, <2>7, <3>1, <4>1 DEF TableField
      <4>4. TableFound' /\ chunk_table' = Table'
        BY <1>4, <2>3, <2>7, <2>9, <4>1, <4>3 DEF TableFound, Table
      <4>5. QED
        BY <2>9, <2>10, <4>1, <4>2, <4>4
    <3>2. CASE ~(AsI64(offset) > data_start)
      <4>. HIDE DEF first
      <4>1. PICK last \in Values(first, end - LONG, U64) :
              long' = [first EXCEPT ![end - LONG] = last] /\ chunk_table' = AsI64(last) /\ pos' = end
        BY <2>4, <3>2 DEF first
      <4>2. last \in U64 /\ (first[end - LONG] # Unread => last = first[end - LONG])
        BY <2>1, <2>7 DEF Values
      <4>3. last # Unread /\ AsI64(last) \in -(MaxI64 + 1) .. MaxI64
        BY <4>2, LongsAreNumbers, SignedTyped
      <4>4. long' \in [0 .. MaxI64 -> U64 \cup {Unread}] /\ long'[end - LONG] = last
        BY <2>1, <2>7, <4>1, <4>2
      <4>5. \A q \in 0 .. MaxI64 : first[q] # Unread => long'[q] = first[q]
        BY <2>7, <4>1, <4>2
      <4>6. Kept
        BY <2>2, <2>8, <4>4, <4>5 DEF Kept
      <4>7. long'[data_start] = offset
        BY <2>1, <2>7, <2>9, <4>5
      <4>8. TableField' = end - LONG
        BY <2>3, <3>2, <4>7 DEF TableField
      <4>9. TableFound' /\ chunk_table' = Table'
        BY <1>4, <2>3, <2>9, <4>1, <4>3, <4>4, <4>7, <4>8 DEF TableFound, Table
      <4>10. QED
        BY <2>10, <4>1, <4>3, <4>6, <4>9
    <3>3. QED
      BY <3>1, <3>2
  <2>12. TypeOK'
    BY <1>1, <2>2, <2>3, <2>11 DEF TypeOK, Kept
  <2>13. EvlrsOK'
    BY <1>1, <2>11, EvlrsKept DEF EvlrsOK
  <2>14. LazOK'
    BY <1>1, <2>2, <2>11 DEF LazOK, Passed
  <2>15. QED
    BY <1>1, <2>2, <2>3, <2>12, <2>13, <2>14
       DEF Inv, ResultOK, WalkOK, LasOK, Passed, StreamRestored
<1>5. QED
  BY <1>3, <1>4 DEF FindChunkTable

\* The chunk count is read and fits, or the file is refused.
LEMMA CheckChunkCountInv == ASSUME Inv, CheckChunkCount PROVE Inv'
<1>1. /\ TypeOK /\ pc = "laz_count" /\ long' = long /\ faulted' = faulted /\ result = "pending"
      /\ file.laz /\ (file.evlr => Chained(file.number_of_evlrs)) /\ TableFound
      /\ chunk_table = Table /\ file' = file
  BY DEF Inv, CheckChunkCount, ResultOK, LazOK, EvlrsOK, Reject
<1>2. Kept /\ faulted' \in BOOLEAN
  BY <1>1, NothingRead DEF TypeOK
<1>3. chunk_table \in Int
  BY <1>1, TableTyped
<1>4. ASSUME /\ pc' = "restore" /\ position' = position /\ i' = i /\ chunk_table' = chunk_table
             /\ result' = result /\ alloc' = alloc /\ WordsKept /\ pos' \in 0 .. end,
             ChunksCounted'
      PROVE  Inv'
  <2>1. end' = end /\ AllocationsFitData'
    BY <1>1, <1>4, AllocKept DEF end, Inv
  <2>2. TypeOK'
    BY <1>1, <1>2, <1>4, <2>1 DEF TypeOK, WordsKept
  <2>3. EvlrsOK'
    BY <1>1, <1>2, EvlrsKept DEF EvlrsOK
  <2>4. LazOK'
    BY <1>1, <1>2, <1>4, TableKept DEF LazOK
  <2>5. QED
    BY <1>1, <1>4, <2>1, <2>2, <2>3, <2>4
       DEF Inv, ResultOK, WalkOK, LasOK, StreamRestored
<1>5. CASE /\ LeftToLaz(chunk_table) /\ pc' = "restore"
           /\ UNCHANGED <<file, word, pos, position, i, chunk_table, result, alloc>>
  <2>1. WordsKept
    BY <1>1, <1>5, NoWordRead
  <2>2. ChunksCounted
    BY <1>1, <1>5 DEF ChunksCounted
  <2>3. ChunksCounted'
    BY <1>1, <1>2, <2>1, <2>2, CountKept
  <2>4. pos' \in 0 .. end
    BY <1>1, <1>5 DEF TypeOK
  <2>5. QED
    BY <1>4, <1>5, <2>1, <2>3, <2>4
<1>6. CASE /\ ~LeftToLaz(chunk_table)
           /\ \E chunks \in Values(word, chunk_table + WORD, U32) :
                /\ word' = [word EXCEPT ![chunk_table + WORD] = chunks]
                /\ IF chunks * MIN_LAZ_CHUNK_SIZE > chunk_table - data_start
                   THEN Reject
                   ELSE /\ pc' = "restore"
                        /\ pos' = chunk_table + LONG
                        /\ UNCHANGED <<file, position, i, chunk_table, result, alloc>>
  <2>1. chunk_table + WORD \in 0 .. MaxI64 /\ chunk_table > data_start /\ chunk_table + LONG <= end
    BY <1>1, <1>3, <1>6, TableInData
  <2>2. PICK chunks \in Values(word, chunk_table + WORD, U32) :
           /\ word' = [word EXCEPT ![chunk_table + WORD] = chunks]
           /\ IF chunks * MIN_LAZ_CHUNK_SIZE > chunk_table - data_start
              THEN Reject
              ELSE /\ pc' = "restore"
                   /\ pos' = chunk_table + LONG
                   /\ UNCHANGED <<file, position, i, chunk_table, result, alloc>>
    BY <1>6
  <2>3. WordsKept /\ word'[chunk_table + WORD] = chunks /\ chunks \in U32
    BY <1>1, <2>1, <2>2, ReadWord
  <2>4. CASE Reject
    BY <1>2, <2>3, <2>4, RejectInv
  <2>5. CASE /\ ~(chunks * MIN_LAZ_CHUNK_SIZE > chunk_table - data_start)
             /\ pc' = "restore" /\ pos' = chunk_table + LONG
             /\ UNCHANGED <<file, position, i, chunk_table, result, alloc>>
    <3>1. chunks \in Nat /\ chunks # Unread
      BY <2>3, LongsAreNumbers
    <3>2. chunks * MIN_LAZ_CHUNK_SIZE <= chunk_table - data_start
      <4>1. chunks * MIN_LAZ_CHUNK_SIZE \in Nat /\ chunk_table - data_start \in Int
        BY <1>1, <1>3, <3>1, FileTyped, Constants
      <4>2. QED
        BY <2>5, <4>1
    <3>3. pos' \in 0 .. end
      BY <1>1, <1>3, <2>1, <2>5, FileTyped, Constants
    <3>4. Table' = Table /\ data_start' = data_start
      BY <1>1, <1>2, TableKept
    <3>5. ChunksCounted'
      BY <1>1, <2>3, <3>1, <3>2, <3>4 DEF ChunksCounted
    <3>6. QED
      BY <1>4, <2>3, <2>5, <3>3, <3>5
  <2>6. QED
    BY <2>2, <2>4, <2>5
<1>7. QED
  BY <1>5, <1>6 DEF CheckChunkCount

\* The check ends with the stream where it began, and las-rs comes next.
LEMMA RestoreInv == ASSUME Inv, Restore PROVE Inv'
<1>1. /\ TypeOK /\ pc = "restore" /\ file' = file /\ long' = long /\ word' = word /\ i' = 0
      /\ chunk_table' = chunk_table /\ alloc' = alloc /\ result \in {"pending", "err"}
      /\ position' = (IF file.evlr THEN file.start_of_first_evlr ELSE 0)
      /\ pc' = (IF result' = "ok" THEN "las_evlr" ELSE "done")
  BY DEF Inv, Restore, ResultOK
<1>2. Kept /\ WordsKept
  BY <1>1, NothingRead, NoWordRead
<1>3. end' = end /\ AllocationsFitData'
  BY <1>1, AllocKept DEF end, Inv
<1>4. /\ end \in Nat /\ file.start_of_first_evlr \in Nat /\ file.number_of_evlrs \in Nat
      /\ file.evlr \in BOOLEAN /\ MaxU32 \in Nat /\ EVLR_HEADER_SIZE \in Nat
  BY <1>1, FileTyped, Constants
<1>5. position' \in Nat /\ 0 \in 0 .. end /\ 0 \in U32
  BY <1>1, <1>4 DEF U32
<1>6. CASE pos' = 0 /\ result' = (IF result = "pending" THEN "ok" ELSE result) /\ faulted' = faulted
  <2>1. TypeOK'
    BY <1>1, <1>3, <1>5, <1>6 DEF TypeOK
  <2>2. CASE result = "err"
    BY <1>1, <1>3, <1>6, <2>1, <2>2
       DEF Inv, ResultOK, WalkOK, EvlrsOK, LazOK, LasOK, Passed, StreamRestored
  <2>3. CASE result = "pending"
    <3>1. pc' = "las_evlr" /\ result' = "ok"
      BY <1>1, <1>6, <2>3
    <3>2. Passed
      BY <1>1, <2>3 DEF Passed
    <3>3. file.evlr => Chained(file.number_of_evlrs)
      BY <3>2 DEF Inv, EvlrsOK
    <3>4. (file.evlr => Chained(file.number_of_evlrs))'
      BY <1>1, <1>2, <3>3, EvlrsKept
    <3>5. LazOK'
      <4>1. file.laz => TableFound /\ ChunksCounted
        BY <3>2 DEF Inv, LazOK
      <4>2. file.laz => TableFound' /\ ChunksCounted'
        BY <1>1, <1>2, <4>1, TableKept, CountKept
      <4>3. QED
        BY <1>1, <3>1, <4>2 DEF LazOK
    <3>6. LasOK'
      <4>1. CASE file.evlr
        <5>1. PICK n : n = file.number_of_evlrs
          OBVIOUS
        <5>2. PICK c \in [0 .. n -> 0 .. end] : Chain(c, n)
          BY <3>3, <4>1, <5>1 DEF Chained
        <5>3. c[0] = file.start_of_first_evlr /\ c[0] \in 0 .. end
          BY <1>4, <5>1, <5>2 DEF Chain
        <5>4. Chain(c, n)'
          BY <1>1, <1>2, <1>4, <5>1, <5>2, ChainKept
        <5>5. position' = c[0] /\ position' <= end /\ i' = 0
          BY <1>1, <1>4, <4>1, <5>3
        <5>6. ChainedTo(file.number_of_evlrs, i, position)'
          BY <1>1, <1>3, <5>1, <5>2, <5>4, <5>5 DEF ChainedTo, Chain
        <5>7. i' \in 0 .. LasEvlrs' /\ i' * EVLR_HEADER_SIZE <= position'
          BY <1>1, <1>4, <1>5, <4>1 DEF LasEvlrs
        <5>8. QED
          BY <1>3, <5>5, <5>6, <5>7 DEF LasOK
      <4>2. CASE ~file.evlr
        BY <1>1, <1>3, <1>4, <1>5, <4>2 DEF LasOK, LasEvlrs
      <4>3. QED
        BY <1>4, <4>1, <4>2
    <3>7. QED
      BY <1>3, <1>6, <2>1, <3>1, <3>4, <3>5, <3>6
         DEF Inv, ResultOK, WalkOK, EvlrsOK, Passed, StreamRestored
  <2>4. QED
    BY <1>1, <2>2, <2>3
<1>7. CASE result' = "err" /\ faulted' = TRUE /\ pos' = pos
  <2>1. TypeOK'
    BY <1>1, <1>3, <1>5, <1>7 DEF TypeOK
  <2>2. QED
    BY <1>1, <1>3, <1>7, <2>1
       DEF Inv, ResultOK, WalkOK, EvlrsOK, LazOK, LasOK, Passed, StreamRestored
<1>8. QED
  BY <1>6, <1>7 DEF Restore

\* las-rs reads the EVLR that the check has read: the two walks follow one chain.
LEMMA LasReadsEvlrInv == ASSUME Inv, LasReadsEvlr PROVE Inv'
<1>. DEFINE at == position + EVLR_RECORD_LENGTH_OFFSET
<1>1. /\ TypeOK /\ pc = "las_evlr" /\ i < LasEvlrs /\ file' = file /\ word' = word /\ pos' = pos
      /\ chunk_table' = chunk_table /\ result' = result /\ faulted' = faulted
      /\ result = "ok" /\ pos = 0
  BY DEF Inv, LasReadsEvlr, ResultOK, StreamRestored
<1>2. /\ i \in 0 .. LasEvlrs /\ i * EVLR_HEADER_SIZE <= position /\ position <= end
      /\ file.evlr => ChainedTo(file.number_of_evlrs, i, position)
  BY <1>1 DEF Inv, LasOK
<1>3. /\ end \in Nat /\ end <= MaxI64 /\ MaxI64 \in Nat /\ file.number_of_evlrs \in 0 .. MaxU32
      /\ MaxU32 \in Nat /\ file.evlr \in BOOLEAN /\ position \in Nat
  BY <1>1, FileTyped, Constants DEF TypeOK
<1>4. /\ file.evlr /\ LasEvlrs = file.number_of_evlrs /\ i \in Nat
      /\ i \in 0 .. file.number_of_evlrs - 1 /\ file.number_of_evlrs \in Nat
  BY <1>1, <1>2, <1>3 DEF LasEvlrs
<1>5. /\ at \in 0 .. MaxI64 /\ long[at] # Unread /\ position + EVLR_HEADER_SIZE + long[at] \in 0 .. end
      /\ ChainedTo(file.number_of_evlrs, i + 1, position + EVLR_HEADER_SIZE + long[at])
  BY <1>1, <1>2, <1>4, ChainFollowed
<1>6. long[at] \in U64 /\ long[at] \in Nat
  <2>1. long[at] \in U64
    BY <1>1, <1>5 DEF TypeOK
  <2>2. QED
    BY <2>1, LongsAreNumbers
<1>7. ~(position + EVLR_HEADER_SIZE > end)
  BY <1>3, <1>5, <1>6, Constants
<1>8. PICK record_length \in Values(long, at, U64) :
         /\ long' = [long EXCEPT ![at] = record_length]
         /\ alloc' = [kind |-> "evlr", at |-> position + EVLR_HEADER_SIZE, size |-> record_length]
         /\ position' = position + EVLR_HEADER_SIZE + record_length
         /\ i' = i + 1
         /\ pc' = IF position' > end THEN "done" ELSE pc
  BY <1>7 DEF LasReadsEvlr
<1>9. record_length = long[at] /\ Kept
  BY <1>1, <1>5, <1>8, ReadLong
<1>10. WordsKept /\ end' = end
  BY <1>1, NoWordRead DEF end
<1>. DEFINE next == position + EVLR_HEADER_SIZE + long[at]
<1>11. position' = next /\ next \in 0 .. end
  BY <1>5, <1>8, <1>9
<1>12. pc' = "las_evlr"
  <2>1. position' \in Nat /\ ~(position' > end)
    BY <1>3, <1>11
  <2>2. QED
    BY <1>1, <1>8, <2>1
<1>13. alloc' \in [kind : {"none", "evlr", "chunks"}, at : Nat, size : U64 \cup U32]
  <2>1. position + EVLR_HEADER_SIZE \in Nat
    BY <1>3, Constants
  <2>2. QED
    BY <1>6, <1>8, <1>9, <2>1
<1>14. i + 1 \in U32 /\ i + 1 \in 0 .. file.number_of_evlrs
  BY <1>3, <1>4 DEF U32
<1>15. TypeOK'
  <2>1. position' \in Nat
    BY <1>3, <1>11
  <2>2. QED
    BY <1>1, <1>8, <1>9, <1>10, <1>12, <1>13, <1>14, <2>1 DEF TypeOK, Kept
<1>16. AllocationsFitData'
  BY <1>8, <1>9, <1>10, <1>5, <1>3 DEF AllocationsFitData
<1>17. EvlrsOK'
  <2>1. file.evlr => Chained(file.number_of_evlrs)
    BY <1>1 DEF Inv, EvlrsOK, Passed
  <2>2. QED
    BY <1>1, <1>9, <2>1, EvlrsKept DEF EvlrsOK
<1>18. LazOK'
  <2>1. file.laz => TableFound /\ ChunksCounted
    BY <1>1 DEF Inv, LazOK, Passed
  <2>2. file.laz => TableFound' /\ ChunksCounted'
    BY <1>1, <1>9, <1>10, <2>1, TableKept, CountKept
  <2>3. QED
    BY <1>1, <1>12, <2>2 DEF LazOK
<1>19. (i + 1) * EVLR_HEADER_SIZE <= next
  <2>1. (i + 1) * EVLR_HEADER_SIZE = i * EVLR_HEADER_SIZE + EVLR_HEADER_SIZE
    BY <1>4, Constants
  <2>2. i * EVLR_HEADER_SIZE \in Nat
    BY <1>4, Constants
  <2>3. QED
    BY <1>2, <1>3, <1>6, <2>1, <2>2, Constants
<1>20. ChainedTo(file.number_of_evlrs, i, position)'
  <2>1. PICK n, k, p : n = file.number_of_evlrs /\ k = i + 1 /\ p = next
    OBVIOUS
  <2>2. ChainedTo(n, k, p) /\ n \in Nat
    BY <1>4, <1>5, <2>1
  <2>3. ChainedTo(n, k, p)'
    BY <1>1, <1>9, <2>2, ChainedKept
  <2>4. file'.number_of_evlrs = n /\ i' = k /\ position' = p
    BY <1>1, <1>8, <1>11, <2>1
  <2>5. QED
    BY <2>3, <2>4 DEF ChainedTo, Chain
<1>21. LasOK'
  <2>1. i' \in 0 .. LasEvlrs'
    BY <1>1, <1>4, <1>8, <1>14 DEF LasEvlrs
  <2>2. i' * EVLR_HEADER_SIZE <= position' /\ position' <= end'
    BY <1>3, <1>8, <1>10, <1>11, <1>19
  <2>3. QED
    BY <1>20, <2>1, <2>2 DEF LasOK
<1>22. QED
  BY <1>1, <1>12, <1>15, <1>16, <1>17, <1>18, <1>21
     DEF Inv, ResultOK, WalkOK, StreamRestored

\* After the EVLRs las-rs opens the points.
LEMMA LasEvlrsDoneInv == ASSUME Inv, LasEvlrsDone PROVE Inv'
<1>1. /\ TypeOK /\ pc = "las_evlr" /\ result = "ok" /\ pos = 0
      /\ pc' = (IF file.laz THEN "las_laz" ELSE "done")
      /\ UNCHANGED <<file, long, word, pos, position, i, chunk_table, result, faulted, alloc>>
  BY DEF Inv, LasEvlrsDone, ResultOK, StreamRestored
<1>2. Kept /\ WordsKept /\ end' = end /\ AllocationsFitData'
  BY <1>1, NothingRead, NoWordRead, AllocKept DEF end, Inv
<1>3. TypeOK'
  BY <1>1, <1>2 DEF TypeOK
<1>4. EvlrsOK'
  <2>1. file.evlr => Chained(file.number_of_evlrs)
    BY <1>1 DEF Inv, EvlrsOK, Passed
  <2>2. QED
    BY <1>1, <1>2, <2>1, EvlrsKept DEF EvlrsOK
<1>5. LazOK'
  <2>1. file.laz => TableFound /\ ChunksCounted
    BY <1>1 DEF Inv, LazOK, Passed
  <2>2. file.laz => TableFound' /\ ChunksCounted'
    BY <1>1, <1>2, <2>1, TableKept, CountKept
  <2>3. QED
    BY <1>1, <2>2 DEF LazOK
<1>6. QED
  BY <1>1, <1>2, <1>3, <1>4, <1>5 DEF Inv, ResultOK, WalkOK, LasOK, StreamRestored

\* laz-rs allocates for the chunk count that the check has bounded.
LEMMA LazReadsChunkTableInv == ASSUME Inv, LazReadsChunkTable PROVE Inv'
<1>1. /\ TypeOK /\ pc = "las_laz" /\ pc' = "done" /\ pos = 0 /\ file' = file /\ pos' = pos
      /\ position' = position /\ i' = i /\ result' = result /\ faulted' = faulted
  BY DEF Inv, LazReadsChunkTable, StreamRestored
<1>2. end' = end /\ data_start' = data_start
  BY <1>1 DEF end, data_start
<1>3. SUFFICES TypeOK' /\ AllocationsFitData'
  BY <1>1 DEF Inv, ResultOK, WalkOK, EvlrsOK, LazOK, LasOK, Passed, StreamRestored
<1>4. file.laz => TableFound /\ ChunksCounted
  BY <1>1 DEF Inv, LazOK, Passed
<1>5. CASE data_start + LONG > end /\ UNCHANGED <<long, word, alloc, chunk_table>>
  <2>1. AllocationsFitData'
    BY <1>1, <1>5, AllocKept DEF Inv
  <2>2. QED
    BY <1>1, <1>2, <1>5, <2>1 DEF TypeOK
<1>6. CASE data_start + LONG <= end /\ file.laz
              /\ ~(data_start + LONG > end /\ UNCHANGED <<long, word, alloc, chunk_table>>)
  <2>1. data_start \in 0 .. MaxI64 /\ end - LONG \in 0 .. MaxI64
    BY <1>1, <1>6, FieldsInFile
  <2>. DEFINE used(offset) == IF AsI64(offset) > data_start THEN data_start ELSE end - LONG
  <2>2. PICK offset \in Values(long, data_start, U64) :
          \E v \in Values([long EXCEPT ![data_start] = offset], used(offset), U64) :
            /\ long' = [[long EXCEPT ![data_start] = offset] EXCEPT ![used(offset)] = v]
            /\ chunk_table' = AsI64(v)
            /\ IF LeftToLaz(AsI64(v))
               THEN UNCHANGED <<word, alloc>>
               ELSE \E chunks \in Values(word, AsI64(v) + WORD, U32) :
                      /\ word' = [word EXCEPT ![AsI64(v) + WORD] = chunks]
                      /\ alloc' = [kind |-> "chunks", at |-> data_start, size |-> chunks]
    BY <1>6, <1>1, FileTyped, Constants DEF LazReadsChunkTable
  <2>3. long \in [0 .. MaxI64 -> U64 \cup {Unread}] /\ word \in [0 .. MaxI64 -> U32 \cup {Unread}]
    BY <1>1 DEF TypeOK
  <2>4. offset = long[data_start]
    BY <1>4, <1>6 DEF TableFound, Values
  <2>5. [long EXCEPT ![data_start] = offset] = long /\ used(offset) = TableField
    BY <2>1, <2>3, <2>4 DEF TableField
  <2>6. PICK v \in Values(long, TableField, U64) :
            /\ long' = [long EXCEPT ![TableField] = v]
            /\ chunk_table' = AsI64(v)
            /\ IF LeftToLaz(AsI64(v))
               THEN UNCHANGED <<word, alloc>>
               ELSE \E chunks \in Values(word, AsI64(v) + WORD, U32) :
                      /\ word' = [word EXCEPT ![AsI64(v) + WORD] = chunks]
                      /\ alloc' = [kind |-> "chunks", at |-> data_start, size |-> chunks]
    <3>. HIDE DEF used
    <3>1. QED
      BY <2>2, <2>5
  <2>7. v = long[TableField] /\ AsI64(v) = Table
    BY <1>4, <1>6 DEF TableFound, Values, Table
  <2>8. TableField \in 0 .. MaxI64
    BY <2>1 DEF TableField
  <2>9. long' = long /\ chunk_table' = Table
    BY <2>3, <2>6, <2>7, <2>8
  <2>10. Table \in -(MaxI64 + 1) .. MaxI64 /\ Table \in Int
    BY <1>1, <1>4, <1>6, TableTyped
  <2>11. CASE LeftToLaz(Table)
    <3>1. word' = word /\ alloc' = alloc
      BY <2>6, <2>7, <2>11
    <3>2. AllocationsFitData'
      BY <1>1, <3>1, AllocKept DEF Inv
    <3>3. QED
      BY <1>1, <1>2, <2>9, <2>10, <3>1, <3>2 DEF TypeOK
  <2>12. CASE ~LeftToLaz(Table)
    <3>1. PICK chunks \in Values(word, Table + WORD, U32) :
             /\ word' = [word EXCEPT ![Table + WORD] = chunks]
             /\ alloc' = [kind |-> "chunks", at |-> data_start, size |-> chunks]
      BY <2>6, <2>7, <2>12
    <3>2. Table + WORD \in 0 .. MaxI64 /\ Table > data_start /\ Table + LONG <= end
      BY <1>1, <2>10, <2>12, TableInData
    <3>3. word[Table + WORD] # Unread /\ word[Table + WORD] * MIN_LAZ_CHUNK_SIZE <= Table - data_start
      BY <1>4, <1>6, <2>12 DEF ChunksCounted
    <3>4. chunks = word[Table + WORD] /\ chunks \in U32 /\ word' = word
      BY <2>3, <3>1, <3>2, <3>3 DEF Values
    <3>5. chunks \in Nat /\ data_start \in Nat /\ end \in Nat
      BY <1>1, <3>4, LongsAreNumbers, FileTyped
    <3>6. chunks * MIN_LAZ_CHUNK_SIZE \in Nat
      BY <3>5, Constants
    <3>7. data_start + chunks * MIN_LAZ_CHUNK_SIZE <= end
      BY <2>10, <3>2, <3>3, <3>4, <3>5, <3>6, Constants
    <3>8. AllocationsFitData'
      BY <1>2, <3>1, <3>7 DEF AllocationsFitData
    <3>9. alloc' \in [kind : {"none", "evlr", "chunks"}, at : Nat, size : U64 \cup U32]
      BY <3>1, <3>4, <3>5
    <3>10. QED
      BY <1>1, <1>2, <2>9, <2>10, <3>4, <3>8, <3>9 DEF TypeOK
  <2>13. QED
    BY <2>11, <2>12
<1>7. file.laz
  BY <1>1 DEF Inv, LazOK
<1>8. QED
  BY <1>5, <1>6, <1>7 DEF LazReadsChunkTable

\* Every step of the check and of las-rs after it keeps the invariant.
LEMMA NextInv == Inv /\ [Next]_vars => Inv'
<1>. SUFFICES ASSUME Inv, [Next]_vars PROVE Inv'
  OBVIOUS
<1>1. CASE Next
  BY <1>1, MeasureInv, ReadHeaderInv, CheckEvlrInv, CheckEvlrsDoneInv, FindChunkTableInv,
     CheckChunkCountInv, RestoreInv, StreamFailsInv, LasReadsEvlrInv, LasEvlrsDoneInv,
     LazReadsChunkTableInv DEF Next, Check, Las
<1>2. CASE UNCHANGED vars
  <2>1. TypeOK' /\ StreamRestored' /\ AllocationsFitData' /\ ResultOK'
    BY <1>2 DEF vars, Inv, TypeOK, StreamRestored, AllocationsFitData, ResultOK, end
  <2>2. WalkOK' /\ EvlrsOK' /\ LasOK'
    BY <1>2 DEF vars, Inv, WalkOK, EvlrsOK, LasOK, LasEvlrs, Passed, Chained, ChainedTo, Chain, end
  <2>3. LazOK'
    BY <1>2 DEF vars, Inv, LazOK, Passed, TableFound, ChunksCounted, Table, TableField, LeftToLaz,
                end, data_start
  <2>4. QED
    BY <2>1, <2>2, <2>3 DEF Inv
<1>3. QED
  BY <1>1, <1>2

-----------------------------------------------------------------------------
(* Where the EVLRs end *)

\* Induction over the numbers, for a set.
LEMMA Induction ==
  ASSUME NEW S, 0 \in S, \A n \in Nat : n \in S => n + 1 \in S
  PROVE  Nat \subseteq S
<1>. DEFINE R == OpToRel(<, Nat)
            T == Nat \ S
<1>1. IsWellFoundedOn(R, Nat)
  BY NatLessThanWellFounded, Zenon
<1>2. SUFFICES ASSUME T # {} PROVE FALSE
  OBVIOUS
<1>3. PICK x \in T : \A y \in T : <<y, x>> \notin R
  <2>1. T \subseteq Nat
    OBVIOUS
  <2>. HIDE DEF R, T
  <2>2. QED
    BY <1>1, <1>2, <2>1, WFMin
<1>4. x # 0 /\ x - 1 \in Nat /\ x - 1 < x /\ (x - 1) + 1 = x
  OBVIOUS
<1>5. <<x - 1, x>> \in R
  BY <1>4, Zenon DEF OpToRel
<1>6. QED
  BY <1>3, <1>4, <1>5

\* Taking a step over and over gives a function of how often.
LEMMA Iteration ==
  ASSUME NEW T, NEW a \in T, NEW n \in Nat, NEW step \in [1 .. n -> [T -> T]]
  PROVE  \E f \in [0 .. n -> T] : f[0] = a /\ \A k \in 1 .. n : f[k] = step[k][f[k - 1]]
<1>. DEFINE Goal(m, f) == f \in [0 .. m -> T] /\ f[0] = a /\ \A k \in 1 .. m : f[k] = step[k][f[k - 1]]
            N == {m \in Nat : m <= n => \E f : Goal(m, f)}
<1>1. 0 \in N
  <2>1. Goal(0, [k \in 0 .. 0 |-> a])
    OBVIOUS
  <2>2. QED
    BY <2>1
<1>2. ASSUME NEW m \in Nat, m \in N PROVE m + 1 \in N
  <2>. SUFFICES ASSUME m + 1 <= n PROVE \E f : Goal(m + 1, f)
    OBVIOUS
  <2>1. PICK f : Goal(m, f)
    BY <1>2
  <2>. DEFINE g == [k \in 0 .. m + 1 |-> IF k = m + 1 THEN step[m + 1][f[m]] ELSE f[k]]
  <2>2. m + 1 \in 1 .. n /\ f[m] \in T /\ step[m + 1][f[m]] \in T
    BY <2>1
  <2>3. g \in [0 .. m + 1 -> T] /\ g[0] = a
    BY <2>1, <2>2
  <2>4. ASSUME NEW k \in 1 .. m + 1 PROVE g[k] = step[k][g[k - 1]]
    <3>1. g[k - 1] = f[k - 1]
      OBVIOUS
    <3>2. k \in 1 .. m => f[k] = step[k][f[k - 1]] /\ g[k] = f[k]
      BY <2>1
    <3>3. k \notin 1 .. m => k = m + 1
      OBVIOUS
    <3>4. k = m + 1 => g[k] = step[m + 1][f[m]] /\ f[m] = f[k - 1]
      OBVIOUS
    <3>. HIDE DEF g
    <3>5. QED
      BY <3>1, <3>2, <3>3, <3>4
  <2>. HIDE DEF g
  <2>5. QED
    BY <2>3, <2>4
<1>3. Nat \subseteq N
  <2>. HIDE DEF N
  <2>1. QED
    BY <1>1, <1>2, Induction
<1>4. QED
  BY <1>3

Fields == [0 .. MaxI64 -> U64 \cup {Unread}]

\* Where the EVLR after p ends.
After(f, fields, p) ==
  IF p = Unread \/ p > f.end THEN p
  ELSE IF p + EVLR_RECORD_LENGTH_OFFSET + LONG > f.end THEN f.end + 1
  ELSE IF fields[p + EVLR_RECORD_LENGTH_OFFSET] = Unread THEN Unread
  ELSE p + EVLR_HEADER_SIZE + fields[p + EVLR_RECORD_LENGTH_OFFSET]

\* It ends somewhere, or that is not known yet.
LEMMA AfterTyped ==
  ASSUME NEW f \in Files, NEW fields \in Fields, NEW p \in Nat \cup {Unread}
  PROVE  After(f, fields, p) \in Nat \cup {Unread}
<1>1. f.end \in Nat /\ f.end <= MaxI64
  BY Constants DEF Files
<1>2. CASE p = Unread \/ p > f.end
  BY <1>2 DEF After
<1>3. CASE ~(p = Unread \/ p > f.end) /\ p + EVLR_RECORD_LENGTH_OFFSET + LONG > f.end
  BY <1>1, <1>3 DEF After
<1>4. CASE ~(p = Unread \/ p > f.end) /\ ~(p + EVLR_RECORD_LENGTH_OFFSET + LONG > f.end)
  <2>1. p \in Nat /\ p + EVLR_RECORD_LENGTH_OFFSET \in 0 .. MaxI64
    BY <1>1, <1>4, Constants
  <2>2. fields[p + EVLR_RECORD_LENGTH_OFFSET] \in U64 \cup {Unread}
    BY <2>1 DEF Fields
  <2>3. fields[p + EVLR_RECORD_LENGTH_OFFSET] = Unread \/ fields[p + EVLR_RECORD_LENGTH_OFFSET] \in Nat
    BY <2>2, LongsAreNumbers
  <2>4. QED
    BY <1>4, <2>1, <2>3, Constants DEF After
<1>5. QED
  BY <1>2, <1>3, <1>4

\* The recursion of EvlrEnds has a solution, so EvlrEnds solves it.
LEMMA EvlrEndsAre ==
  ASSUME NEW f, NEW fields, f \in Files, fields \in Fields
  PROVE  /\ EvlrEnds(f, fields)[0] = f.start_of_first_evlr
         /\ \A k \in 1 .. MaxU32 :
              EvlrEnds(f, fields)[k] = After(f, fields, EvlrEnds(f, fields)[k - 1])
<1>. DEFINE Ends == Nat \cup {Unread}
            after == [p \in Ends |-> After(f, fields, p)]
            Solves(g) == g = [k \in U32 |->
              IF k = 0 THEN f.start_of_first_evlr ELSE After(f, fields, g[k - 1])]
            ends == CHOOSE g : Solves(g)
<1>1. after \in [Ends -> Ends]
  BY AfterTyped
<1>2. f.start_of_first_evlr \in Ends
  BY Constants DEF Files, U64
<1>3. PICK g \in [0 .. MaxU32 -> Ends] :
        g[0] = f.start_of_first_evlr /\ \A k \in 1 .. MaxU32 : g[k] = After(f, fields, g[k - 1])
  <2>1. PICK n, X, a : n \in Nat /\ n = MaxU32 /\ X = Ends /\ a = f.start_of_first_evlr /\ a \in X
    BY <1>2, Constants
  <2>2. PICK steps : steps = [k \in 1 .. n |-> after]
    OBVIOUS
  <2>3. steps \in [1 .. n -> [X -> X]]
    BY <1>1, <2>1, <2>2
  <2>4. \A k \in 1 .. n : \A p \in Ends : steps[k][p] = After(f, fields, p)
    BY <2>2
  <2>. HIDE DEF Ends
  <2>5. PICK g \in [0 .. n -> X] : g[0] = a /\ \A k \in 1 .. n : g[k] = steps[k][g[k - 1]]
    <3>1. a \in X /\ n \in Nat
      BY <2>1
    <3>2. QED
      BY ONLY <2>3, <3>1, Iteration
  <2>6. ASSUME NEW k \in 1 .. n PROVE g[k] = After(f, fields, g[k - 1])
    BY <2>1, <2>4, <2>5
  <2>7. QED
    BY <2>1, <2>5, <2>6
<1>4. Solves(g)
  <2>1. g = [k \in U32 |-> g[k]]
    BY DEF U32
  <2>2. ASSUME NEW k \in U32
        PROVE  g[k] = IF k = 0 THEN f.start_of_first_evlr ELSE After(f, fields, g[k - 1])
    <3>1. CASE k = 0
      BY <1>3, <3>1
    <3>2. CASE k # 0
      <4>1. k \in 1 .. MaxU32 /\ k - 1 \in 0 .. MaxU32
        BY <3>2, Constants DEF U32
      <4>2. g[k - 1] \in Ends
        BY <4>1
      <4>3. QED
        BY <1>3, <3>2, <4>1, <4>2
    <3>3. QED
      BY <3>1, <3>2
  <2>3. QED
    BY <2>1, <2>2
<1>5. Solves(ends)
  <2>. HIDE DEF Solves
  <2>1. QED
    BY <1>4
<1>6. EvlrEnds(f, fields) = ends
  BY DEF EvlrEnds, After
<1>. HIDE DEF ends
<1>7. \A k \in U32 :
        ends[k] = IF k = 0 THEN f.start_of_first_evlr ELSE After(f, fields, ends[k - 1])
  BY <1>5
<1>8. 0 \in U32 /\ \A k \in 1 .. MaxU32 : k \in U32 /\ k # 0
  BY Constants DEF U32
<1>9. QED
  BY <1>6, <1>7, <1>8

\* An EVLR past the end leaves the rest of them there.
LEMMA PastEndStays ==
  ASSUME NEW f \in Files, NEW fields \in Fields, NEW k \in 0 .. MaxU32,
         EvlrEnds(f, fields)[k] > f.end, EvlrEnds(f, fields)[k] # Unread,
         NEW m \in k .. MaxU32
  PROVE  EvlrEnds(f, fields)[m] > f.end
<1>. DEFINE p == EvlrEnds(f, fields)[k]
            N == {d \in Nat : k + d <= MaxU32 => EvlrEnds(f, fields)[k + d] = p}
<1>1. 0 \in N
  OBVIOUS
<1>2. ASSUME NEW d \in Nat, d \in N PROVE d + 1 \in N
  <2>. SUFFICES ASSUME k + (d + 1) <= MaxU32 PROVE EvlrEnds(f, fields)[k + (d + 1)] = p
    OBVIOUS
  <2>1. k + (d + 1) \in 1 .. MaxU32 /\ (k + (d + 1)) - 1 = k + d /\ k + d <= MaxU32
    BY Constants
  <2>2. EvlrEnds(f, fields)[k + (d + 1)] = After(f, fields, p)
    BY <1>2, <2>1, EvlrEndsAre
  <2>3. QED
    BY <2>2 DEF After
<1>3. Nat \subseteq N
  <2>. HIDE DEF N
  <2>1. QED
    BY <1>1, <1>2, Induction
<1>4. m - k \in Nat /\ k + (m - k) = m /\ m <= MaxU32
  BY Constants
<1>5. QED
  BY <1>3, <1>4

\* As far as a chain goes, it says where the EVLRs end.
LEMMA ChainEnds ==
  ASSUME NEW f \in Files, NEW fields \in Fields, NEW n \in 0 .. MaxU32,
         NEW c \in [0 .. n -> 0 .. f.end], c[0] = f.start_of_first_evlr,
         \A k \in 0 .. n - 1 :
           /\ c[k] + EVLR_RECORD_LENGTH_OFFSET + LONG <= f.end
           /\ fields[c[k] + EVLR_RECORD_LENGTH_OFFSET] # Unread
           /\ c[k + 1] = c[k] + EVLR_HEADER_SIZE + fields[c[k] + EVLR_RECORD_LENGTH_OFFSET]
  PROVE  EvlrEnds(f, fields)[n] = c[n]
<1>. DEFINE N == {k \in Nat : k <= n => EvlrEnds(f, fields)[k] = c[k]}
<1>1. 0 \in N
  BY EvlrEndsAre
<1>2. ASSUME NEW k \in Nat, k \in N PROVE k + 1 \in N
  <2>. SUFFICES ASSUME k + 1 <= n PROVE EvlrEnds(f, fields)[k + 1] = c[k + 1]
    OBVIOUS
  <2>1. k + 1 \in 1 .. MaxU32 /\ (k + 1) - 1 = k /\ k \in 0 .. n - 1 /\ k \in 0 .. n /\ k <= n
    BY Constants
  <2>2. EvlrEnds(f, fields)[k + 1] = After(f, fields, c[k])
    BY <1>2, <2>1, EvlrEndsAre
  <2>3. c[k] \in 0 .. f.end /\ f.end \in Nat
    BY <2>1, Constants DEF Files
  <2>4. c[k] # Unread /\ ~(c[k] > f.end)
    BY <2>3 DEF Unread
  <2>5. ~(c[k] + EVLR_RECORD_LENGTH_OFFSET + LONG > f.end)
    BY <2>1, <2>3, Constants
  <2>6. QED
    BY <2>1, <2>2, <2>4, <2>5 DEF After
<1>3. Nat \subseteq N
  <2>. HIDE DEF N
  <2>1. QED
    BY <1>1, <1>2, Induction
<1>4. QED
  BY <1>3

-----------------------------------------------------------------------------
(* What is refused *)

\* An EVLR that does not fit leaves the last of them past the end.
LEMMA EvlrRefused ==
  ASSUME NEW f, NEW fields, f \in Files, fields \in Fields,
         NEW n \in Nat, n < f.number_of_evlrs,
         NEW c \in [0 .. n -> 0 .. f.end], c[0] = f.start_of_first_evlr,
         \A k \in 0 .. n - 1 :
           /\ c[k] + EVLR_RECORD_LENGTH_OFFSET <= f.end
           /\ fields[c[k] + EVLR_RECORD_LENGTH_OFFSET] # Unread
           /\ c[k + 1] = c[k] + EVLR_HEADER_SIZE + fields[c[k] + EVLR_RECORD_LENGTH_OFFSET],
         \/ c[n] + EVLR_RECORD_LENGTH_OFFSET + LONG > f.end
         \/ /\ fields[c[n] + EVLR_RECORD_LENGTH_OFFSET] \in Nat
            /\ c[n] + EVLR_HEADER_SIZE + fields[c[n] + EVLR_RECORD_LENGTH_OFFSET] > f.end
  PROVE  EvlrEnds(f, fields)[f.number_of_evlrs] > f.end
<1>1. /\ f.end \in Nat /\ f.end <= MaxI64 /\ f.number_of_evlrs \in 0 .. MaxU32
      /\ n \in 0 .. MaxU32 /\ n + 1 \in 1 .. MaxU32 /\ n + 1 \in 0 .. MaxU32 /\ (n + 1) - 1 = n
      /\ f.number_of_evlrs \in n + 1 .. MaxU32
  BY Constants DEF Files, U32
<1>2. ASSUME NEW k \in 0 .. n - 1
      PROVE  /\ c[k] + EVLR_RECORD_LENGTH_OFFSET + LONG <= f.end
             /\ fields[c[k] + EVLR_RECORD_LENGTH_OFFSET] # Unread
             /\ c[k + 1] = c[k] + EVLR_HEADER_SIZE + fields[c[k] + EVLR_RECORD_LENGTH_OFFSET]
  <2>1. PICK x, y, v, e : /\ x = c[k] /\ y = c[k + 1] /\ e = f.end
                          /\ v = fields[c[k] + EVLR_RECORD_LENGTH_OFFSET]
    OBVIOUS
  <2>2. /\ x + EVLR_RECORD_LENGTH_OFFSET <= e /\ v # Unread /\ y = x + EVLR_HEADER_SIZE + v
        /\ v = fields[x + EVLR_RECORD_LENGTH_OFFSET]
    BY <2>1
  <2>3. x \in Nat /\ y \in Nat /\ y <= e /\ e \in Nat /\ e <= MaxI64
    <3>1. c[k] \in 0 .. f.end /\ c[k + 1] \in 0 .. f.end
      OBVIOUS
    <3>2. QED
      BY <1>1, <2>1, <3>1
  <2>4. x + EVLR_RECORD_LENGTH_OFFSET \in 0 .. MaxI64
    BY ONLY <2>2, <2>3, Constants
  <2>5. v \in Nat
    <3>1. v \in U64
      BY <2>2, <2>4 DEF Fields
    <3>2. QED
      BY <3>1, LongsAreNumbers
  <2>6. x + EVLR_RECORD_LENGTH_OFFSET + LONG <= e
    BY ONLY <2>2, <2>3, <2>5, Constants
  <2>7. QED
    BY <2>1, <2>2, <2>6
<1>3. EvlrEnds(f, fields)[n] = c[n]
  BY <1>1, <1>2, ChainEnds
<1>4. c[n] \in 0 .. f.end
  OBVIOUS
<1>5. EvlrEnds(f, fields)[n + 1] = After(f, fields, c[n])
  BY <1>1, <1>3, EvlrEndsAre
<1>6. c[n] # Unread /\ ~(c[n] > f.end)
  BY <1>1, <1>4 DEF Unread
<1>7. After(f, fields, c[n]) \in Nat /\ After(f, fields, c[n]) > f.end
  <2>1. CASE c[n] + EVLR_RECORD_LENGTH_OFFSET + LONG > f.end
    BY <1>1, <1>6, <2>1 DEF After
  <2>2. CASE ~(c[n] + EVLR_RECORD_LENGTH_OFFSET + LONG > f.end)
    <3>1. fields[c[n] + EVLR_RECORD_LENGTH_OFFSET] \in Nat
      BY <2>2
    <3>2. fields[c[n] + EVLR_RECORD_LENGTH_OFFSET] # Unread
      BY <3>1, LongsAreNumbers DEF Unread
    <3>3. After(f, fields, c[n])
            = c[n] + EVLR_HEADER_SIZE + fields[c[n] + EVLR_RECORD_LENGTH_OFFSET]
      BY <1>6, <2>2, <3>2 DEF After
    <3>4. c[n] + EVLR_HEADER_SIZE + fields[c[n] + EVLR_RECORD_LENGTH_OFFSET] > f.end
      BY <2>2
    <3>5. QED
      BY <1>1, <1>4, <3>1, <3>3, <3>4, Constants
  <2>3. QED
    BY <2>1, <2>2
<1>8. EvlrEnds(f, fields)[n + 1] > f.end /\ EvlrEnds(f, fields)[n + 1] # Unread
  BY <1>5, <1>7 DEF Unread
<1>9. QED
  BY <1>1, <1>8, PastEndStays

\* A first EVLR past the end is one of them.
LEMMA FirstEvlrRefused ==
  ASSUME NEW f, NEW fields, f \in Files, fields \in Fields, f.start_of_first_evlr > f.end
  PROVE  EvlrEnds(f, fields)[f.number_of_evlrs] > f.end
<1>1. /\ f.start_of_first_evlr \in Nat /\ 0 \in 0 .. MaxU32
      /\ f.number_of_evlrs \in 0 .. MaxU32
  BY Constants DEF Files, U64, U32
<1>2. EvlrEnds(f, fields)[0] = f.start_of_first_evlr
  BY EvlrEndsAre
<1>3. EvlrEnds(f, fields)[0] > f.end /\ EvlrEnds(f, fields)[0] # Unread
  BY <1>1, <1>2 DEF Unread
<1>4. QED
  BY <1>1, <1>3, PastEndStays

\* check_evlrs refuses a file whose EVLRs do not end within the data.
LEMMA CheckEvlrRefuses ==
  ASSUME Inv, CheckEvlr, result' = "err"
  PROVE  file'.evlr /\ EvlrEnds(file', long')[file'.number_of_evlrs] > end'
<1>. DEFINE at == position + EVLR_RECORD_LENGTH_OFFSET
<1>1. /\ TypeOK /\ i < file.number_of_evlrs /\ result = "pending" /\ file.evlr
      /\ ChainedTo(i, i, position)
  BY DEF Inv, CheckEvlr, ResultOK, WalkOK
<1>2. /\ position \in Nat /\ i \in Nat /\ end \in Nat /\ end <= MaxI64 /\ position <= end
      /\ file \in Files /\ long \in Fields
  BY <1>1, FileTyped, Constants DEF TypeOK, U32, Fields, Inv, WalkOK, CheckEvlr
<1>3. /\ file' = file
      /\ \/ /\ at + LONG > end
            /\ long' = long
         \/ /\ at + LONG <= end
            /\ \E record_length \in Values(long, at, U64) :
                 /\ long' = [long EXCEPT ![at] = record_length]
                 /\ PastEnd(NextEvlr(record_length))
  BY <1>1 DEF CheckEvlr, Reject, WalkEvlr
<1>4. /\ Kept
      /\ \/ at + LONG > end
         \/ /\ long'[at] \in Nat
            /\ position + EVLR_HEADER_SIZE + long'[at] > end
  <2>1. CASE at + LONG > end /\ long' = long
    BY <1>1, <1>3, <2>1, NothingRead
  <2>2. CASE /\ at + LONG <= end
             /\ \E record_length \in Values(long, at, U64) :
                  /\ long' = [long EXCEPT ![at] = record_length]
                  /\ PastEnd(NextEvlr(record_length))
    <3>1. PICK v \in Values(long, at, U64) :
             long' = [long EXCEPT ![at] = v] /\ PastEnd(NextEvlr(v))
      BY <2>2
    <3>2. at \in 0 .. MaxI64
      BY <1>2, <2>2, Constants
    <3>3. Kept /\ long'[at] = v /\ v \in U64
      BY <1>1, <1>3, <3>1, <3>2, ReadLong
    <3>4. v \in Nat /\ position + EVLR_HEADER_SIZE + v > end
      BY <3>1, <3>3, LongsAreNumbers DEF PastEnd, NextEvlr
    <3>5. QED
      BY <3>3, <3>4
  <2>3. QED
    BY <1>3, <2>1, <2>2
<1>5. PICK n, p : n = i /\ p = position
  OBVIOUS
<1>6. n \in Nat /\ ChainedTo(n, n, p) /\ n < file.number_of_evlrs
  BY <1>1, <1>2, <1>5
<1>7. PICK c \in [0 .. n -> 0 .. end] : Chain(c, n) /\ c[n] = p
  BY <1>6 DEF ChainedTo
<1>8. Chain(c, n)'
  BY <1>1, <1>4, <1>6, <1>7, ChainKept
<1>9. PICK f, fields : f = file' /\ fields = long'
  OBVIOUS
<1>10. /\ f = file /\ f \in Files /\ fields \in Fields /\ f.end = end /\ f.end = end'
       /\ n < f.number_of_evlrs
  BY <1>2, <1>3, <1>4, <1>6, <1>9 DEF Kept, end, Fields
<1>11. /\ c \in [0 .. n -> 0 .. f.end] /\ c[0] = f.start_of_first_evlr
       /\ \A k \in 0 .. n - 1 :
            /\ c[k] + EVLR_RECORD_LENGTH_OFFSET <= f.end
            /\ fields[c[k] + EVLR_RECORD_LENGTH_OFFSET] # Unread
            /\ c[k + 1] = c[k] + EVLR_HEADER_SIZE + fields[c[k] + EVLR_RECORD_LENGTH_OFFSET]
  BY <1>8, <1>9, <1>10 DEF Chain
<1>12. \/ c[n] + EVLR_RECORD_LENGTH_OFFSET + LONG > f.end
       \/ /\ fields[c[n] + EVLR_RECORD_LENGTH_OFFSET] \in Nat
          /\ c[n] + EVLR_HEADER_SIZE + fields[c[n] + EVLR_RECORD_LENGTH_OFFSET] > f.end
  BY <1>4, <1>5, <1>7, <1>9, <1>10
<1>13. EvlrEnds(f, fields)[f.number_of_evlrs] > f.end
  BY <1>6, <1>10, <1>11, <1>12, EvlrRefused
<1>14. QED
  BY <1>1, <1>3, <1>9, <1>10, <1>13

\* check_laz_chunk_count refuses a file with more chunks than its data can hold.
LEMMA CheckChunkCountRefuses ==
  ASSUME Inv, CheckChunkCount, result' = "err"
  PROVE  file'.laz /\ TooManyChunks'
<1>1. TypeOK /\ result = "pending" /\ file.laz /\ TableFound /\ chunk_table = Table
  BY DEF Inv, CheckChunkCount, ResultOK, LazOK
<1>2. /\ ~LeftToLaz(Table) /\ long' = long
      /\ \E chunks \in Values(word, Table + WORD, U32) :
           /\ word' = [word EXCEPT ![Table + WORD] = chunks]
           /\ chunks * MIN_LAZ_CHUNK_SIZE > Table - data_start
           /\ file' = file
  BY <1>1 DEF CheckChunkCount, Reject
<1>3. Table \in -(MaxI64 + 1) .. MaxI64
  BY <1>1, TableTyped
<1>4. Table + WORD \in 0 .. MaxI64
  BY <1>1, <1>2, <1>3, TableInData
<1>5. word'[Table + WORD] * MIN_LAZ_CHUNK_SIZE > Table - data_start
  <2>1. word \in [0 .. MaxI64 -> U32 \cup {Unread}]
    BY <1>1 DEF TypeOK
  <2>2. QED
    BY <1>2, <1>4, <2>1
<1>6. PICK p : p = TableField
  OBVIOUS
<1>7. p \in {data_start, end - LONG} \cap 0 .. end
  <2>1. data_start \in Nat /\ end \in Nat /\ data_start + LONG <= end
    BY <1>1, FileTyped DEF TableFound
  <2>2. QED
    BY <1>6, <2>1, Constants DEF TableField
<1>8. AsI64(long[p]) = Table /\ long[p] # Unread
  BY <1>1, <1>6 DEF Table, TableFound
<1>9. end' = end /\ data_start' = data_start /\ file' = file
  BY <1>2 DEF end, data_start
<1>10. QED
  BY <1>1, <1>2, <1>5, <1>7, <1>8, <1>9 DEF TooManyChunks, LeftToLaz

\* Every refusal is for a defect of the file, and the defect stays.
LEMMA RefusalsJustified ==
  ASSUME Inv, RejectsOnlyDefects, [Next]_vars
  PROVE  RejectsOnlyDefects'
<1>1. SUFFICES ASSUME result' = "err", ~faulted'
               PROVE  \/ RAW_HEADER_SIZE > end'
                      \/ file'.evlr /\ EvlrEnds(file', long')[file'.number_of_evlrs] > end'
                      \/ file'.laz /\ (data_start' + LONG > end' \/ TooManyChunks')
  BY DEF RejectsOnlyDefects
<1>2. TypeOK /\ ResultOK /\ faulted \in BOOLEAN
  BY DEF Inv, TypeOK
<1>3. ASSUME file' = file, long' = long, word' = word, result = "err", ~faulted
      PROVE  \/ RAW_HEADER_SIZE > end'
             \/ file'.evlr /\ EvlrEnds(file', long')[file'.number_of_evlrs] > end'
             \/ file'.laz /\ (data_start' + LONG > end' \/ TooManyChunks')
  BY <1>3 DEF RejectsOnlyDefects, TooManyChunks, LeftToLaz, end, data_start
<1>4. CASE UNCHANGED vars
  BY <1>1, <1>3, <1>4 DEF vars
<1>5. CASE Measure
  BY <1>1, <1>2, <1>5 DEF Measure, ResultOK
<1>6. CASE StreamFails
  BY <1>1, <1>6 DEF StreamFails
<1>7. CASE ReadHeader
  <2>1. file' = file /\ long' = long /\ end' = end
    BY <1>7 DEF ReadHeader, Reject, end
  <2>2. RAW_HEADER_SIZE > end \/ (file.evlr /\ file.start_of_first_evlr > end)
    BY <1>1, <1>2, <1>7 DEF ReadHeader, ResultOK
  <2>3. CASE file.evlr /\ file.start_of_first_evlr > end
    <3>1. file \in Files /\ long \in Fields /\ file.start_of_first_evlr > file.end
      BY <1>2, <2>3 DEF TypeOK, Fields, end
    <3>2. PICK f, fields : f = file /\ fields = long
      OBVIOUS
    <3>3. EvlrEnds(f, fields)[f.number_of_evlrs] > f.end
      BY <3>1, <3>2, FirstEvlrRefused
    <3>4. QED
      BY <2>1, <2>3, <3>2, <3>3 DEF end
  <2>4. QED
    BY <2>1, <2>2, <2>3
<1>8. CASE CheckEvlr
  BY <1>1, <1>8, CheckEvlrRefuses
<1>9. CASE CheckEvlrsDone
  BY <1>1, <1>2, <1>9 DEF CheckEvlrsDone, ResultOK
<1>10. CASE FindChunkTable
  <2>1. file.laz /\ result = "pending"
    BY <1>10 DEF FindChunkTable, Inv, LazOK, ResultOK
  <2>2. data_start + LONG > end /\ file' = file
    BY <1>1, <1>10, <2>1 DEF FindChunkTable, Reject
  <2>3. QED
    BY <2>1, <2>2 DEF end, data_start
<1>11. CASE CheckChunkCount
  BY <1>1, <1>11, CheckChunkCountRefuses
<1>12. CASE Restore
  <2>1. result = "err" /\ faulted' = faulted
    BY <1>1, <1>12 DEF Restore
  <2>2. QED
    BY <1>1, <1>3, <1>12, <2>1 DEF Restore
<1>13. CASE Las
  BY <1>1, <1>2, <1>13 DEF Las, LasReadsEvlr, LasEvlrsDone, LazReadsChunkTable, ResultOK
<1>14. QED
  BY <1>4, <1>5, <1>6, <1>7, <1>8, <1>9, <1>10, <1>11, <1>12, <1>13 DEF Next, Check

-----------------------------------------------------------------------------
(* Theorems *)

\* The invariant holds of every file: the walk of check_evlrs leaves behind it a
\* chain of lengths that were read and that fit, and check_laz_chunk_count a
\* chunk count that was read and fits, or a table that laz-rs refuses.
THEOREM Invariance == Spec => []Inv
<1>1. Init => Inv
  BY InitInv
<1>2. Inv /\ [Next]_vars => Inv'
  BY NextInv
<1>3. QED
  BY <1>1, <1>2, PTL DEF Spec

\* What las-rs and laz-rs allocate from a size that the file declares is there
\* in the stream: in every place they look, the check has looked before them.
THEOREM AllocationsFit == Spec => []AllocationsFitData
<1>1. Inv => AllocationsFitData
  BY DEF Inv
<1>2. QED
  BY <1>1, Invariance, PTL

\* The check leaves the stream where it was, for las-rs and for the caller of
\* an open that is refused, unless the stream itself has failed.
THEOREM StreamIsRestored == Spec => []StreamRestored
<1>1. Inv => StreamRestored
  BY DEF Inv
<1>2. QED
  BY <1>1, Invariance, PTL

\* Neither walk takes more turns than there are EVLR headers in the data,
\* whatever number_of_evlrs the header declares.
THEOREM WalksAreBounded == Spec => []WalkBoundedByData
<1>1. Inv => WalkBoundedByData
  <2>. SUFFICES ASSUME Inv, pc \in {"evlr", "las_evlr"}
                PROVE  position <= end /\ i * EVLR_HEADER_SIZE <= end
    BY DEF WalkBoundedByData
  <2>1. position <= end /\ i * EVLR_HEADER_SIZE <= position
    BY DEF Inv, WalkOK, LasOK
  <2>2. position \in Nat /\ i \in Nat /\ end \in Nat /\ i * EVLR_HEADER_SIZE \in Nat
    <3>1. TypeOK
      BY DEF Inv
    <3>2. position \in Nat /\ i \in Nat /\ end \in Nat
      BY <3>1, FileTyped, Constants DEF TypeOK, U32
    <3>3. QED
      BY <3>2, Constants
  <2>3. QED
    BY <2>1, <2>2
<1>2. QED
  BY <1>1, Invariance, PTL

\* A file is refused only for a defect that is in it, or because the stream
\* failed: data too short for what it must hold, EVLRs that end past the data, or
\* a chunk table with more chunks than the data can hold.
THEOREM RefusalsAreJustified == Spec => []RejectsOnlyDefects
<1>1. Init => Inv /\ RejectsOnlyDefects
  BY InitInv DEF Init, RejectsOnlyDefects
<1>2. (Inv /\ RejectsOnlyDefects) /\ [Next]_vars => (Inv /\ RejectsOnlyDefects)'
  BY NextInv, RefusalsJustified
<1>3. QED
  BY <1>1, <1>2, PTL DEF Spec

-----------------------------------------------------------------------------
(* Progress *)

\* The steps of open in their order, from the end.
Phase(step) ==
  CASE step = "measure" -> 8 [] step = "header" -> 7 [] step = "evlr" -> 6
    [] step = "laz_offset" -> 5 [] step = "laz_count" -> 4 [] step = "restore" -> 3
    [] step = "las_evlr" -> 2 [] step = "las_laz" -> 1 [] OTHER -> 0

\* How many EVLRs a walk still has to take.
Turns == IF pc = "evlr" THEN file.number_of_evlrs - i
         ELSE IF pc = "las_evlr" THEN LasEvlrs - i ELSE 0

Nearer ==
  \/ Phase(pc') < Phase(pc)
  \/ pc' = pc /\ Turns \in Nat /\ Turns' \in Nat /\ Turns' < Turns

\* The check goes on to a later step, or to the next EVLR.
LEMMA CheckMakesProgress == ASSUME Inv, Check \/ StreamFails PROVE Nearer
<1>1. CASE Measure
  BY <1>1 DEF Measure, Nearer, Phase
<1>2. CASE ReadHeader
  BY <1>2 DEF ReadHeader, AfterHeader, Reject, Nearer, Phase
<1>3. CASE CheckEvlr
  <2>1. pc = "evlr" /\ i < file.number_of_evlrs /\ i \in Nat /\ file.number_of_evlrs \in Nat
    BY <1>3, Constants DEF CheckEvlr, Inv, TypeOK, Files, U32
  <2>2. CASE Reject
    BY <2>1, <2>2 DEF Reject, Nearer, Phase
  <2>3. CASE pc' = pc /\ file' = file /\ i' = i + 1
    BY <2>1, <2>3 DEF Nearer, Turns
  <2>4. QED
    BY <1>3, <2>2, <2>3 DEF CheckEvlr, WalkEvlr
<1>4. CASE CheckEvlrsDone
  BY <1>4 DEF CheckEvlrsDone, AfterEvlrs, Nearer, Phase
<1>5. CASE FindChunkTable
  BY <1>5 DEF FindChunkTable, Reject, Nearer, Phase
<1>6. CASE CheckChunkCount
  <2>1. pc = "laz_count" /\ pc' = "restore"
    BY <1>6 DEF CheckChunkCount, Reject
  <2>2. QED
    BY <2>1 DEF Nearer, Phase
<1>7. CASE Restore
  BY <1>7 DEF Restore, Nearer, Phase
<1>8. CASE StreamFails
  BY <1>8 DEF StreamFails, Reject, Nearer, Phase
<1>9. QED
  BY <1>1, <1>2, <1>3, <1>4, <1>5, <1>6, <1>7, <1>8 DEF Check

\* So does las-rs.
LEMMA LasMakesProgress == ASSUME Inv, Las PROVE Nearer
<1>1. CASE LasReadsEvlr
  <2>1. pc = "las_evlr" /\ i < LasEvlrs /\ i \in Nat /\ LasEvlrs \in Nat
    BY <1>1, Constants DEF LasReadsEvlr, LasEvlrs, Inv, TypeOK, Files, U32
  <2>2. pc' = "done" \/ (pc' = pc /\ i' = i + 1)
    BY <1>1 DEF LasReadsEvlr
  <2>3. file' = file
    BY <1>1 DEF LasReadsEvlr
  <2>4. CASE pc' = "done"
    BY <2>1, <2>4 DEF Nearer, Phase
  <2>5. CASE pc' = pc /\ i' = i + 1
    BY <2>1, <2>3, <2>5 DEF Nearer, Turns, LasEvlrs
  <2>6. QED
    BY <2>2, <2>4, <2>5
<1>2. CASE LasEvlrsDone
  BY <1>2 DEF LasEvlrsDone, Nearer, Phase
<1>3. CASE LazReadsChunkTable
  BY <1>3 DEF LazReadsChunkTable, Nearer, Phase
<1>4. QED
  BY <1>1, <1>2, <1>3 DEF Las

\* Every step of open brings it nearer to its end, by a later step or by one EVLR
\* less to walk, whatever the file declares: no behaviour goes on for ever.  What
\* OpenEnds adds is that a step is taken.
THEOREM OpeningMakesProgress == Spec => [][Nearer]_vars
<1>1. Inv /\ [Next]_vars => [Nearer]_vars
  BY CheckMakesProgress, LasMakesProgress DEF Next
<1>2. QED
  BY <1>1, Invariance, PTL DEF Spec
=============================================================================
