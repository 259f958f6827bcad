------------------------------- MODULE Limits -------------------------------
(***************************************************************************)
(* rust/src/limits.rs, check_declared_sizes: before las-rs opens a stream, *)
(* the sizes the file declares are checked against the length of the       *)
(* stream, because las-rs allocates from them and a failed allocation      *)
(* aborts the process.  The check walks the EVLRs, finds the LAZ chunk     *)
(* table and puts the stream back where it was; then las-rs and laz-rs     *)
(* (external, modelled from the comments of limits.rs) read the same       *)
(* fields again and allocate.                                              *)
(*                                                                         *)
(* The content of the file is arbitrary: a field gets its value when it is *)
(* first read, and keeps it.  So las-rs sees what the check saw only where *)
(* the check really looked.  Fields that overlap get independent values,   *)
(* which only adds files.                                                  *)
(***************************************************************************)
EXTENDS Integers

CONSTANTS
  MaxI64,                     \* largest i64; a u64 goes up to 2 * MaxI64 + 1
  MaxU32,                     \* largest u32
  RAW_HEADER_SIZE,            \* bytes raw::Header::read_from consumes
  EVLR_HEADER_SIZE,
  EVLR_RECORD_LENGTH_OFFSET,
  WORD,                       \* size of a u32; a u64 takes 2 * WORD bytes
  MIN_LAZ_CHUNK_SIZE,
  Faulty                      \* may the stream fail?

ASSUME LimitsAssumption ==
  /\ {MaxI64, MaxU32, RAW_HEADER_SIZE, EVLR_HEADER_SIZE, EVLR_RECORD_LENGTH_OFFSET} \subseteq Nat
  /\ {WORD, MIN_LAZ_CHUNK_SIZE} \subseteq Nat \ {0}
  /\ EVLR_RECORD_LENGTH_OFFSET + 2 * WORD <= EVLR_HEADER_SIZE
  /\ EVLR_HEADER_SIZE <= MaxI64
  /\ Faulty \in BOOLEAN

LONG == 2 * WORD
U64 == 0 .. 2 * MaxI64 + 1
U32 == 0 .. MaxU32
Unread == -1

\* The u64 with the bits of an i64, read as an i64.
AsI64(v) == IF v > MaxI64 THEN v - 2 * (MaxI64 + 1) ELSE v

\* What the raw header declares, and the real length of the stream.
Files == [end : 0 .. MaxI64,
          evlr : BOOLEAN, start_of_first_evlr : U64, number_of_evlrs : U32,
          laz : BOOLEAN, offset_to_point_data : U32]

VARIABLES
  file,      \* the file being opened
  long,      \* its u64 fields by position, as far as they were read
  word,      \* its u32 fields by position
  pc,        \* the next step of open
  pos,       \* the position of the stream
  position,  \* the EVLR the walk (of the check, then of las-rs) stands at
  i,         \* EVLRs walked so far
  chunk_table, \* where the chunk table is said to be
  result,    \* what the check answers
  faulted,   \* history: did the stream fail?
  alloc      \* the last allocation las-rs made from a declared size

vars == <<file, long, word, pc, pos, position, i, chunk_table, result, faulted, alloc>>

end == file.end
data_start == file.offset_to_point_data

Values(field, p, type) == IF field[p] = Unread THEN type ELSE {field[p]}

Init ==
  /\ file \in Files
  /\ long = [p \in 0 .. MaxI64 |-> Unread]
  /\ word = [p \in 0 .. MaxI64 |-> Unread]
  /\ pc = "measure"
  /\ pos = 0
  /\ position = 0
  /\ i = 0
  /\ chunk_table = 0
  /\ result = "pending"
  /\ faulted = FALSE
  /\ alloc = [kind |-> "none", at |-> 0, size |-> 0]

-----------------------------------------------------------------------------
(* The steps of the check.  Each fails by going to the restoring seek, *)
(* except the first, whose errors return at once.                      *)

\* An error of the check: the stream is still put back.
Reject ==
  /\ pc' = "restore"
  /\ result' = "err"
  /\ pos' \in 0 .. end
  /\ UNCHANGED <<file, position, i, chunk_table, alloc>>

\* stream_position, seek to the end and back.
Measure ==
  /\ pc = "measure"
  /\ \/ /\ pc' = "header"
        /\ pos' = 0
        /\ UNCHANGED <<result, faulted>>
     \/ /\ Faulty
        /\ pc' = "done"
        /\ pos' \in {0, end}
        /\ result' = "err"
        /\ faulted' = TRUE
  /\ UNCHANGED <<file, long, word, position, i, chunk_table, alloc>>

\* The stream fails in the middle of the check.
StreamFails ==
  /\ Faulty
  /\ pc \in {"header", "evlr", "laz_offset", "laz_count"}
  /\ faulted' = TRUE
  /\ Reject
  /\ UNCHANGED <<long, word>>

AfterHeader == IF file.evlr THEN "evlr" ELSE IF file.laz THEN "laz_offset" ELSE "restore"
AfterEvlrs == IF file.laz THEN "laz_offset" ELSE "restore"

\* raw::Header::read_from; check_evlrs then refuses a first EVLR past the end.
ReadHeader ==
  /\ pc = "header"
  /\ UNCHANGED <<long, word, faulted>>
  /\ IF RAW_HEADER_SIZE > end \/ (file.evlr /\ file.start_of_first_evlr > end)
     THEN Reject
     ELSE /\ pc' = AfterHeader
          /\ pos' = RAW_HEADER_SIZE
          /\ position' = IF file.evlr THEN file.start_of_first_evlr ELSE 0
          /\ UNCHANGED <<file, i, chunk_table, result, alloc>>

\* Where the walk goes after an EVLR at `position'; out of data when past the end.
NextEvlr_NoHeader(record_length) == position + record_length
NextEvlr(record_length) == position + EVLR_HEADER_SIZE + record_length

PastEnd_Inclusive(p) == p >= end
PastEnd(p) == p > end

\* One turn of the loop of check_evlrs.
WalkEvlr_SkipsEmpty(record_length) ==
  /\ pos' = position + EVLR_RECORD_LENGTH_OFFSET + LONG
  /\ IF record_length = 0
     THEN UNCHANGED <<position, i>>
     ELSE position' = NextEvlr(record_length) /\ i' = i + 1
  /\ UNCHANGED <<file, pc, chunk_table, result, alloc>>

WalkEvlr(record_length) ==
  /\ position' = NextEvlr(record_length)
  /\ i' = i + 1
  /\ pos' = position + EVLR_RECORD_LENGTH_OFFSET + LONG
  /\ UNCHANGED <<file, pc, chunk_table, result, alloc>>

CheckEvlr ==
  LET at == position + EVLR_RECORD_LENGTH_OFFSET
  IN  /\ pc = "evlr"
      /\ i < file.number_of_evlrs
      /\ UNCHANGED <<word, faulted>>
      /\ \/ /\ at + LONG > end
            /\ UNCHANGED long
            /\ Reject
         \/ /\ at + LONG <= end
            /\ \E record_length \in Values(long, at, U64) :
                 /\ long' = [long EXCEPT ![at] = record_length]
                 /\ IF PastEnd(NextEvlr(record_length)) THEN Reject ELSE WalkEvlr(record_length)

CheckEvlrsDone ==
  /\ pc = "evlr"
  /\ i = file.number_of_evlrs
  /\ pc' = AfterEvlrs
  /\ UNCHANGED <<file, long, word, pos, position, i, chunk_table, result, faulted, alloc>>

\* check_laz_chunk_count, up to where the offset of the table is known.
FindChunkTable ==
  /\ pc = "laz_offset"
  /\ UNCHANGED <<word, faulted>>
  /\ \/ /\ data_start + LONG > end
        /\ UNCHANGED long
        /\ Reject
     \/ /\ data_start + LONG <= end
        /\ \E offset \in Values(long, data_start, U64) :
             LET first == [long EXCEPT ![data_start] = offset]
             IN  IF AsI64(offset) > data_start
                 THEN /\ long' = first
                      /\ chunk_table' = AsI64(offset)
                      /\ pos' = data_start + LONG
                 ELSE \E last \in Values(first, end - LONG, U64) :
                        /\ long' = [first EXCEPT ![end - LONG] = last]
                        /\ chunk_table' = AsI64(last)
                        /\ pos' = end
        /\ pc' = "laz_count"
        /\ UNCHANGED <<file, position, i, result, alloc>>

\* An offset laz-rs refuses, or whose count is not in the data, is left to it.
LeftToLaz(table) == table <= data_start \/ table + LONG > end

CheckChunkCount ==
  /\ pc = "laz_count"
  /\ UNCHANGED <<long, faulted>>
  /\ \/ /\ LeftToLaz(chunk_table)
        /\ pc' = "restore"
        /\ UNCHANGED <<file, word, pos, position, i, chunk_table, result, alloc>>
     \/ /\ ~LeftToLaz(chunk_table)
        /\ \E chunks \in Values(word, chunk_table + WORD, U32) :
             /\ word' = [word EXCEPT ![chunk_table + WORD] = chunks]
             /\ IF chunks * MIN_LAZ_CHUNK_SIZE > chunk_table - data_start
                THEN Reject
                ELSE /\ pc' = "restore"
                     /\ pos' = chunk_table + LONG
                     /\ UNCHANGED <<file, position, i, chunk_table, result, alloc>>

\* The seek back to the start; its failure is an error of the check.  On
\* success open goes on to las-rs, on error it returns.
Restore_NoSeek ==
  /\ pc = "restore"
  /\ result' = IF result = "pending" THEN "ok" ELSE result
  /\ pc' = IF result' = "ok" THEN "las_evlr" ELSE "done"
  /\ position' = IF file.evlr THEN file.start_of_first_evlr ELSE 0
  /\ i' = 0
  /\ UNCHANGED <<file, long, word, pos, chunk_table, faulted, alloc>>

Restore ==
  /\ pc = "restore"
  /\ \/ /\ pos' = 0
        /\ result' = IF result = "pending" THEN "ok" ELSE result
        /\ UNCHANGED faulted
     \/ /\ Faulty
        /\ result' = "err"
        /\ faulted' = TRUE
        /\ UNCHANGED pos
  /\ pc' = IF result' = "ok" THEN "las_evlr" ELSE "done"
  /\ position' = IF file.evlr THEN file.start_of_first_evlr ELSE 0
  /\ i' = 0
  /\ UNCHANGED <<file, long, word, chunk_table, alloc>>

-----------------------------------------------------------------------------
(* las-rs and laz-rs: the allocations the check is for (external). *)

LasEvlrs == IF file.evlr THEN file.number_of_evlrs ELSE 0

\* las-rs reads an EVLR header and allocates the record it declares.
LasReadsEvlr ==
  LET at == position + EVLR_RECORD_LENGTH_OFFSET
  IN  /\ pc = "las_evlr"
      /\ i < LasEvlrs
      /\ IF position + EVLR_HEADER_SIZE > end
         THEN /\ pc' = "done"
              /\ UNCHANGED <<long, alloc, position, i>>
         ELSE \E record_length \in Values(long, at, U64) :
                /\ long' = [long EXCEPT ![at] = record_length]
                /\ alloc' = [kind |-> "evlr", at |-> position + EVLR_HEADER_SIZE,
                             size |-> record_length]
                /\ position' = position + EVLR_HEADER_SIZE + record_length
                /\ i' = i + 1
                /\ pc' = IF position' > end THEN "done" ELSE pc
      /\ UNCHANGED <<file, word, pos, chunk_table, result, faulted>>

LasEvlrsDone ==
  /\ pc = "las_evlr"
  /\ i = LasEvlrs
  /\ pc' = IF file.laz THEN "las_laz" ELSE "done"
  /\ UNCHANGED <<file, long, word, pos, position, i, chunk_table, result, faulted, alloc>>

\* laz-rs finds the chunk table the same way and allocates an entry per chunk.
LazReadsChunkTable ==
  /\ pc = "las_laz"
  /\ pc' = "done"
  /\ \/ /\ data_start + LONG > end
        /\ UNCHANGED <<long, word, alloc, chunk_table>>
     \/ /\ data_start + LONG <= end
        /\ \E offset \in Values(long, data_start, U64) :
             LET first == [long EXCEPT ![data_start] = offset]
                 used == IF AsI64(offset) > data_start THEN data_start ELSE end - LONG
             IN  \E v \in Values(first, used, U64) :
                   /\ long' = [first EXCEPT ![used] = v]
                   /\ chunk_table' = AsI64(v)
                   /\ IF LeftToLaz(AsI64(v))
                      THEN UNCHANGED <<word, alloc>>
                      ELSE \E chunks \in Values(word, AsI64(v) + WORD, U32) :
                             /\ word' = [word EXCEPT ![AsI64(v) + WORD] = chunks]
                             /\ alloc' = [kind |-> "chunks", at |-> data_start, size |-> chunks]
  /\ UNCHANGED <<file, pos, position, i, result, faulted>>

-----------------------------------------------------------------------------
Check == \/ Measure \/ ReadHeader \/ CheckEvlr \/ CheckEvlrsDone
         \/ FindChunkTable \/ CheckChunkCount \/ Restore
Las == LasReadsEvlr \/ LasEvlrsDone \/ LazReadsChunkTable

Next == Check \/ StreamFails \/ Las

\* open runs in the calling thread; that the stream fails is never assumed.
Spec == Init /\ [][Next]_vars /\ WF_vars(Check \/ Las)

-----------------------------------------------------------------------------
(* Properties *)

\* The type of the state.  The positions the code adds constants to without a
\* check (position + EVLR_RECORD_LENGTH_OFFSET) stay far from the largest u64.
TypeOK ==
  /\ file \in Files
  /\ long \in [0 .. MaxI64 -> U64 \cup {Unread}]
  /\ word \in [0 .. MaxI64 -> U32 \cup {Unread}]
  /\ pc \in {"measure", "header", "evlr", "laz_offset", "laz_count", "restore",
             "las_evlr", "las_laz", "done"}
  /\ pos \in 0 .. end
  /\ position \in Nat
  /\ i \in U32
  /\ chunk_table \in -(MaxI64 + 1) .. MaxI64
  /\ result \in {"pending", "ok", "err"}
  /\ faulted \in BOOLEAN
  /\ alloc \in [kind : {"none", "evlr", "chunks"}, at : Nat, size : U64 \cup U32]

\* What las-rs allocates from a declared size is there in the stream: the
\* record of an EVLR lies before its end, and the chunks of a LAZ file are no
\* more than its data can hold.  The check and las-rs read the file in two
\* passes, so this says the first pass looked where the second one looks.
AllocationsFitData ==
  /\ alloc.kind = "evlr" => alloc.at + alloc.size <= end
  /\ alloc.kind = "chunks" => alloc.at + alloc.size * MIN_LAZ_CHUNK_SIZE <= end

\* "Leaves the stream where it was": las-rs starts at the beginning, and so
\* does a caller of a failed check unless the stream itself failed.
StreamRestored ==
  (pc \in {"las_evlr", "las_laz"} \/ (pc = "done" /\ ~faulted)) => pos = 0

\* The walk is bounded by the data and not by the count the header declares.
WalkBoundedByData ==
  pc \in {"evlr", "las_evlr"} => position <= end /\ i * EVLR_HEADER_SIZE <= end

\* Where the EVLRs of file f end, from its u64 fields alone: past the end once
\* one of them leaves the data, Unread while a length was not read.
EvlrEnds(f, fields) ==
  LET ends[k \in U32] ==
        IF k = 0 THEN f.start_of_first_evlr
        ELSE LET p == ends[k - 1]
                 at == p + EVLR_RECORD_LENGTH_OFFSET
             IN  IF p = Unread \/ p > f.end THEN p
                 ELSE IF at + LONG > f.end THEN f.end + 1
                 ELSE IF fields[at] = Unread THEN Unread
                 ELSE p + EVLR_HEADER_SIZE + fields[at]
  IN  ends

TooManyChunks ==
  \E p \in {data_start, end - LONG} \cap 0 .. end :
    LET table == AsI64(long[p])
    IN  /\ long[p] # Unread
        /\ ~LeftToLaz(table)
        /\ word[table + WORD] * MIN_LAZ_CHUNK_SIZE > table - data_start

\* The check refuses a file only for a defect that is in the file, or because
\* the stream failed: data too short for what it must hold, an EVLR past the
\* end, or a chunk table with too many chunks.
RejectsOnlyDefects ==
  result = "err" /\ ~faulted =>
    \/ RAW_HEADER_SIZE > end
    \/ file.evlr /\ EvlrEnds(file, long)[file.number_of_evlrs] > end
    \/ file.laz /\ (data_start + LONG > end \/ TooManyChunks)

\* Opening ends, whatever the file declares.
OpenEnds == <>(pc = "done")
=============================================================================
