---------------------------- MODULE HeaderProofs ----------------------------
(***************************************************************************)
(* Proofs about HeaderSession, for any builders, counts, records and keys: *)
(* the C++ Builder behaves as the builder of las-rs, the tables of the     *)
(* versions agree with each other, C++ and las-rs mean the same CRS        *)
(* records, and GeoTIFF keys come through whole.                           *)
(***************************************************************************)
EXTENDS HeaderSession, Integers, Sequences, SequenceTheorems, WellFoundedInduction, TLAPS

-----------------------------------------------------------------------------
(* VersionTables *)

TablesTyped == version \in [major : Nat, minor : Nat]

\* A step of VersionTables chooses one of the known versions or keeps its own.
LEMMA TablesStep ==
  ASSUME TablesTyped, Tables!Next
  PROVE  TablesTyped'
BY HeaderAssumption
   DEF TablesTyped, Tables!Next, Tables!SetVersion, Tables!SetFlag, Tables!ClearFlag,
       Tables!Extend, Tables!Known

\* The two answers of types.hpp to what a version supports agree, whatever the
\* version and whatever the flags of the format.
LEMMA TablesAreOne == TablesTyped => TablesAgree
<1> SUFFICES ASSUME TablesTyped, Tables!supports_point_format(version, format)
             PROVE  /\ "has_waveform" \in format =>
                         /\ Tables!supports(version, "Waveforms")
                         /\ Tables!header_size(version) >= 235
                    /\ "is_extended" \in format =>
                         /\ Tables!supports(version, "LargeFiles")
                         /\ Tables!supports(version, "Evlrs")
                         /\ Tables!header_size(version) = 375
                    /\ Tables!requires_point_data_start_signature(version) =>
                         \A feature \in Tables!Features : ~Tables!supports(version, feature)
  BY DEF TablesAgree, Tables!TablesAgree
<1>1. PICK m \in 0 .. 4 : version = [major |-> 1, minor |-> m]
  BY DEF TablesTyped, Tables!supports_point_format
<1>2. format \cap Tables!Unsupported(m) = {}
  BY <1>1 DEF Tables!supports_point_format
<1>3. "has_waveform" \in format => m \in {3, 4}
  BY <1>2 DEF Tables!Unsupported
<1>4. "is_extended" \in format => m = 4
  BY <1>2 DEF Tables!Unsupported
<1>5. m >= 3 => Tables!header_size(version) >= 235
  BY <1>1 DEF Tables!header_size, Tables!AtMost, Tables!Version
<1>6. m = 4 => Tables!header_size(version) = 375
  BY <1>1 DEF Tables!header_size, Tables!AtMost, Tables!Version
<1>7. m = 0 => \A feature \in Tables!Features : ~Tables!supports(version, feature)
  BY <1>1 DEF Tables!Features, Tables!supports, Tables!Minors
<1> QED
  BY <1>1, <1>3, <1>4, <1>5, <1>6, <1>7
     DEF Tables!supports, Tables!Minors, Tables!requires_point_data_start_signature, Tables!Version

-----------------------------------------------------------------------------
(* HeaderBuilder *)

\* What a variable of the caller holds.
Structs == [fields : Building!Fields, base : Building!Headers \cup {None}]

BuildersTyped ==
  /\ cpp \in [Builders -> Structs \cup {None}]
  /\ header \in Building!Headers

\* A header is its fields and its hidden part.
LEMMA HeadersTyped ==
  ASSUME NEW h \in Building!Headers
  PROVE  /\ h.fields \in Building!Fields /\ Building!Accepted(h.fields)
         /\ h.hidden \in 0 .. MaxPoints
         /\ h = Building!Full(h.fields, h.hidden)
         /\ h # None
<1>1. h \in [fields : Building!Fields, hidden : Nat]
  BY HeaderAssumption DEF Building!Headers
<1> QED
  BY <1>1, NoneAssumption DEF Building!Headers, Building!Full

\* Fields that las-rs hands over as a C struct come back as they were.
LEMMA AssignedFields ==
  ASSUME NEW f \in Building!Fields, f.date # "noday", NEW hidden
  PROVE  Building!Assigned(Building!Full(f, hidden)) = f
<1>1. f = [version |-> f.version, point_format |-> f.point_format, date |-> f.date]
  BY DEF Building!Fields
<1>2. Building!DateToC(f.date).has_date <=> f.date # None
  BY DEF Building!DateToC
<1>3. f.date # None => Building!DateToC(f.date).date = f.date
  BY DEF Building!DateToC
<1>4. Building!Full(f, hidden).fields = f
  BY DEF Building!Full
<1> QED  BY <1>1, <1>2, <1>3, <1>4 DEF Building!Assigned

\* Fields over a builder are these fields, with what that builder hides, when
\* their date can be taken over.
LEMMA Crossing ==
  ASSUME NEW f \in Building!Fields, NEW hidden, NEW base,
         base # None => base.hidden = hidden, base = None => hidden = 0
  PROVE  /\ Building!TakenOver(Building!to_c(f)) <=> f.date # "noday"
         /\ Building!Overlay(base, Building!to_c(f)) = Building!Full(f, hidden)
<1>1. f = [version |-> f.version, point_format |-> f.point_format, date |-> f.date]
  BY DEF Building!Fields
<1>2. None # "noday" /\ None # "day" /\ f.date \in {None, "day", "noday"}
  BY HeaderAssumption DEF Building!Fields, Building!Dates
<1>3. Building!DateToC(f.date).has_date <=> f.date # None
  BY DEF Building!DateToC
<1>4. f.date # None => Building!DateToC(f.date).date = f.date
  BY DEF Building!DateToC
<1>5. Building!TakenOver(Building!to_c(f)) <=> f.date # "noday"
  BY <1>2, <1>3, <1>4 DEF Building!TakenOver, Building!to_c
<1>6. Building!Overlay(base, Building!to_c(f)) = Building!Full(f, hidden)
  BY <1>1, <1>3, <1>4 DEF Building!Overlay, Building!to_c, Building!Full
<1> QED  BY <1>5, <1>6

\* What a variable stands for in las-rs.
LasValue(struct) ==
  IF struct = None THEN None
  ELSE Building!Full(struct.fields, IF struct.base = None THEN 0 ELSE struct.base.hidden)

\* No struct is mistaken for a variable without one, on either side.
LEMMA StructTyped ==
  ASSUME NEW struct \in Structs
  PROVE  /\ struct # None /\ struct.fields \in Building!Fields
         /\ struct.base # None => struct.base \in Building!Headers
         /\ LasValue(struct) # None
         /\ LasValue(struct).fields = struct.fields
<1>1. /\ struct # None /\ struct.fields \in Building!Fields
      /\ struct.base # None => struct.base \in Building!Headers
  BY NoneAssumption DEF Structs
<1>2. PICK n \in Nat : n = IF struct.base = None THEN 0 ELSE struct.base.hidden
  <2>1. CASE struct.base = None
    BY <2>1
  <2>2. CASE struct.base # None
    BY <1>1, <2>2, HeadersTyped
  <2> QED  BY <2>1, <2>2
<1>3. LasValue(struct) = [fields |-> struct.fields, hidden |-> n]
  BY <1>1, <1>2 DEF LasValue, Building!Full
<1>4. LasValue(struct) \in [fields : Building!Fields, hidden : Nat]
  BY <1>1, <1>3
<1> QED  BY <1>1, <1>3, <1>4, NoneAssumption

\* A call of the Builder that gives a variable a struct is a call of las-rs
\* that gives it what the struct stands for.
LEMMA Becoming ==
  ASSUME BuildersTyped, NEW b \in Builders, NEW struct \in Structs, Building!Become(b, struct)
  PROVE  BuildersTyped' /\ Building!Las!Become(b, LasValue(struct))
<1>1. cpp' = [cpp EXCEPT ![b] = struct] /\ answer' = TRUE /\ header' = header
  BY DEF Building!Become
<1>2. BuildersTyped'
  BY <1>1 DEF BuildersTyped
<1> DEFINE builder == [d \in Builders |-> LasValue(cpp[d])]
<1>3. [d \in Builders |-> LasValue(cpp'[d])] = [builder EXCEPT ![b] = LasValue(struct)]
  BY <1>1 DEF BuildersTyped
<1>4. Building!Las!Become(b, LasValue(struct))
  BY <1>1, <1>3 DEF Building!Las!Become, LasValue
<1> QED  BY <1>2, <1>4

\* The default fields are fields las-rs accepts.
LEMMA DefaultTyped ==
  ASSUME NEW v \in VersionsTried
  PROVE  Building!DefaultFields(v) \in Building!Fields /\ Building!DefaultFields(v).date # "noday"
BY DEF Building!DefaultFields, Building!Fields, FormatsTried, Building!Dates

\* Every step of a Builder is a step of the builder of las-rs.
LEMMA BuildingStep ==
  ASSUME BuildersTyped, Building!Next
  PROVE  BuildersTyped' /\ Building!Las!Next
<1> USE DEF BuildersTyped
<1>1. ASSUME NEW b \in Builders, NEW v \in VersionsTried, Building!NewBuilder(b, v)
      PROVE  BuildersTyped' /\ Building!Las!Next
  <2> DEFINE f == Building!DefaultFields(v)
             struct == [fields |-> f, base |-> None]
  <2>1. f \in Building!Fields /\ f.date # "noday"
    BY DefaultTyped
  <2>2. Building!Assigned(Building!Full(f, 0)) = f
    BY <2>1, AssignedFields
  <2>3. struct \in Structs /\ LasValue(struct) = Building!Full(f, 0)
    <3>1. struct \in Structs
      BY <2>1 DEF Structs
    <3> QED  BY <3>1, StructTyped DEF LasValue
  <2>4. Building!Become(b, struct)
    BY <1>1, <2>2 DEF Building!NewBuilder
  <2>5. BuildersTyped' /\ Building!Las!Become(b, Building!Full(f, 0))
    BY <2>3, <2>4, Becoming
  <2> QED
    BY <2>5 DEF Building!Las!Next, Building!Las!New, Building!Las!DefaultFields, Building!Las!Full,
                Building!DefaultFields, Building!Full
<1>2. ASSUME NEW b \in Builders, Building!BuilderOf(b)
      PROVE  BuildersTyped' /\ Building!Las!Next
  <2>1. PICK h \in Building!Headers : h = header
    OBVIOUS
  <2> DEFINE struct == [fields |-> h.fields, base |-> h]
  <2>2. /\ h.fields \in Building!Fields /\ h.fields.date # "noday"
        /\ h = Building!Full(h.fields, h.hidden)
    BY HeadersTyped DEF Building!Accepted
  <2>3. Building!Assigned(h) = h.fields
    BY <2>2, AssignedFields
  <2>4. struct \in Structs /\ LasValue(struct) = h
    <3>1. struct \in Structs
      BY <2>2 DEF Structs
    <3>2. h # None
      BY HeadersTyped
    <3> QED  BY <2>2, <3>1, <3>2, StructTyped DEF LasValue
  <2>5. Building!Become(b, struct)
    BY <1>2, <2>1, <2>3 DEF Building!BuilderOf
  <2>6. BuildersTyped' /\ Building!Las!Become(b, h)
    BY <2>4, <2>5, Becoming
  <2> QED  BY <2>1, <2>6 DEF Building!Las!Next, Building!Las!From, Building!Las!Become
<1>3. ASSUME NEW b \in Builders, NEW d \in Builders, Building!CopyBuilder(b, d)
      PROVE  BuildersTyped' /\ Building!Las!Next
  <2>1. PICK struct \in Structs : struct = cpp[d]
    BY <1>3 DEF Building!CopyBuilder
  <2>2. Building!Become(b, struct)
    BY <1>3, <2>1 DEF Building!CopyBuilder
  <2>3. BuildersTyped' /\ Building!Las!Become(b, LasValue(struct)) /\ LasValue(struct) # None
    BY <2>2, Becoming, StructTyped
  <2>4. Building!Las!Copy(b, d)
    BY <2>1, <2>3 DEF Building!Las!Copy, Building!Las!Become, LasValue
  <2> QED  BY <2>3, <2>4 DEF Building!Las!Next
<1>4. ASSUME NEW b \in Builders, Building!Edit(b)
      PROVE  BuildersTyped' /\ Building!Las!Next
  <2>1. PICK old \in Structs : old = cpp[b]
    BY <1>4 DEF Building!Edit
  <2>2. old.fields \in Building!Fields /\ LasValue(old) # None
    BY StructTyped
  <2>3. PICK f \in Building!Fields : Building!Become(b, [old EXCEPT !.fields = f])
    <3>1. CASE \E v \in VersionsTried : Building!Become(b, [old EXCEPT !.fields.version = v])
      <4>1. PICK v \in VersionsTried : Building!Become(b, [old EXCEPT !.fields.version = v])
        BY <3>1
      <4>2. [old.fields EXCEPT !.version = v] \in Building!Fields
        BY <2>2 DEF Building!Fields
      <4> QED  BY <4>1, <4>2
    <3>2. CASE \E p \in FormatsTried : Building!Become(b, [old EXCEPT !.fields.point_format = p])
      <4>1. PICK p \in FormatsTried : Building!Become(b, [old EXCEPT !.fields.point_format = p])
        BY <3>2
      <4>2. [old.fields EXCEPT !.point_format = p] \in Building!Fields
        BY <2>2 DEF Building!Fields
      <4> QED  BY <4>1, <4>2
    <3>3. CASE \E day \in Building!Dates : Building!Become(b, [old EXCEPT !.fields.date = day])
      <4>1. PICK day \in Building!Dates : Building!Become(b, [old EXCEPT !.fields.date = day])
        BY <3>3
      <4>2. [old.fields EXCEPT !.date = day] \in Building!Fields
        BY <2>2 DEF Building!Fields
      <4> QED  BY <4>1, <4>2
    <3> QED  BY <1>4, <2>1, <3>1, <3>2, <3>3 DEF Building!Edit
  <2> DEFINE struct == [old EXCEPT !.fields = f]
  <2>4. struct \in Structs /\ struct.fields = f /\ struct.base = old.base
    BY DEF Structs
  <2>5. BuildersTyped' /\ Building!Las!Become(b, LasValue(struct))
    BY <2>3, <2>4, Becoming
  <2>6. PICK n : n = IF old.base = None THEN 0 ELSE old.base.hidden
    OBVIOUS
  <2>7. LasValue(struct) = Building!Full(f, n) /\ LasValue(old) = Building!Full(old.fields, n)
    BY <2>4, <2>6, StructTyped DEF LasValue
  <2>8. f \in Building!Las!Fields
    BY DEF Building!Fields, Building!Las!Fields, Building!Dates, Building!Las!Dates
  <2>9. Building!Las!Edit(b)
    <3> DEFINE builder == [d \in Builders |-> LasValue(cpp[d])]
    <3>1. builder[b] # None /\ builder[b].hidden = n
      BY <2>1, <2>2, <2>7 DEF Building!Full
    <3>2. Building!Las!Become(b, Building!Las!Full(f, builder[b].hidden))
      BY <2>5, <2>7, <3>1 DEF Building!Full, Building!Las!Full, Building!Las!Become
    <3> QED  BY <2>8, <3>1, <3>2 DEF Building!Las!Edit, Building!Las!Become, LasValue
  <2> QED
    BY <2>5, <2>9 DEF Building!Las!Next
<1>5. ASSUME NEW b \in Builders, Building!into_header(b)
      PROVE  BuildersTyped' /\ Building!Las!Next
  <2>1. cpp[b] \in Structs /\ cpp' = cpp
    BY <1>5 DEF Building!into_header
  <2>2. /\ cpp[b].fields \in Building!Fields /\ LasValue(cpp[b]) # None
        /\ LasValue(cpp[b]).fields = cpp[b].fields
        /\ cpp[b].base # None => cpp[b].base \in Building!Headers
        /\ cpp[b] # None
    BY <2>1, StructTyped
  <2> DEFINE c == Building!to_c(cpp[b].fields)
             rust == Building!Overlay(cpp[b].base, c)
  <2>3. /\ Building!TakenOver(c) <=> cpp[b].fields.date # "noday"
        /\ rust = LasValue(cpp[b])
    BY <2>2, Crossing DEF LasValue
  <2>4. Building!TakenOver(c) /\ Building!Accepted(rust.fields) <=> Building!Accepted(cpp[b].fields)
    BY <2>2, <2>3 DEF Building!Accepted
  <2>5. IF Building!Accepted(cpp[b].fields) THEN header' = LasValue(cpp[b]) /\ answer' = TRUE
        ELSE header' = header /\ answer' = FALSE
    BY <1>5, <2>3, <2>4 DEF Building!into_header
  <2>6. Building!Accepted(cpp[b].fields) => LasValue(cpp[b]) \in Building!Headers
    <3>1. (IF cpp[b].base = None THEN 0 ELSE cpp[b].base.hidden) \in 0 .. MaxPoints
      BY <2>2, HeadersTyped, HeaderAssumption
    <3> QED  BY <2>2, <3>1 DEF LasValue, Building!Full, Building!Headers
  <2>7. BuildersTyped'
    BY <2>1, <2>5, <2>6
  <2>8. Building!Las!IntoHeader(b)
    <3>1. Building!Las!Accepted(cpp[b].fields) <=> Building!Accepted(cpp[b].fields)
      BY DEF Building!Accepted, Building!Las!Accepted, Building!supports_point_format,
             Building!Las!supports_point_format, Building!Unsupported, Building!Las!Unsupported
    <3> QED  BY <2>1, <2>2, <2>5, <3>1 DEF Building!Las!IntoHeader, LasValue
  <2> QED  BY <2>7, <2>8 DEF Building!Las!Next
<1>6. ASSUME NEW n \in 0 .. MaxPoints, Building!ChangeHeader(n)
      PROVE  BuildersTyped' /\ Building!Las!Next
  <2>1. cpp' = cpp /\ answer' = TRUE /\ header' = [header EXCEPT !.hidden = n]
    BY <1>6 DEF Building!ChangeHeader
  <2>2. /\ header.fields \in Building!Fields /\ Building!Accepted(header.fields)
        /\ header = [fields |-> header.fields, hidden |-> header.hidden]
    BY HeadersTyped DEF Building!Full
  <2>3. header' = [fields |-> header.fields, hidden |-> n]
    BY <2>1, <2>2
  <2>4. BuildersTyped'
    BY <2>1, <2>2, <2>3 DEF Building!Headers
  <2>5. Building!Las!ChangeHeader
    BY <2>1, <2>3 DEF Building!Las!ChangeHeader, Building!Las!Full
  <2> QED  BY <2>4, <2>5 DEF Building!Las!Next
<1> QED
  BY <1>1, <1>2, <1>3, <1>4, <1>5, <1>6 DEF Building!Next

\* Before any call no variable is made, and the header is one las-rs accepts.
LEMMA BuildingStart ==
  ASSUME Init
  PROVE  BuildersTyped /\ Building!Las!Init
<1>1. cpp = [b \in Builders |-> None] /\ answer = TRUE
  BY DEF Init, Building!Init
<1>2. Building!Headers # {}
  <2> DEFINE f == [version |-> Tables!Version(1, 0), point_format |-> {}, date |-> "day"]
  <2>1. f \in Building!Fields
    BY DEF Building!Fields, Building!Dates, VersionsTried, FormatsTried
  <2>2. Building!Accepted(f)
    BY DEF Building!Accepted, Building!supports_point_format, Tables!Version
  <2>3. [fields |-> f, hidden |-> 0] \in Building!Headers
    BY <2>1, <2>2, HeaderAssumption DEF Building!Headers
  <2> QED  BY <2>3
<1>3. header \in Building!Headers
  BY <1>2 DEF Init, Building!Init
<1>4. header \in Building!Las!Headers
  BY <1>3 DEF Building!Headers, Building!Las!Headers, Building!Fields, Building!Las!Fields,
              Building!Dates, Building!Las!Dates, Building!Accepted, Building!Las!Accepted,
              Building!supports_point_format, Building!Las!supports_point_format,
              Building!Unsupported, Building!Las!Unsupported
<1> QED  BY <1>1, <1>3, <1>4 DEF BuildersTyped, Building!Las!Init

\* What minimum_supported_version answers is enough, for fields that can be
\* taken over and whatever they lie over.
LEMMA MinimumIsEnough == BuildersTyped => MinimumSuffices
<1> SUFFICES ASSUME BuildersTyped,
                    NEW b \in Builders, cpp[b] # None,
                    Building!TakenOver(Building!to_c(cpp[b].fields)),
                    NEW v \in Building!minimum_supported_version(b)
             PROVE  IF v # None
                    THEN Building!Accepted([cpp[b].fields EXCEPT !.version = v])
                    ELSE \A w \in VersionsTried :
                           ~Building!supports_point_format(w, cpp[b].fields.point_format)
  BY DEF MinimumSuffices, Building!MinimumSuffices
<1>1. PICK struct \in Structs : struct = cpp[b]
  BY DEF BuildersTyped
<1>2. PICK f \in Building!Fields : f = struct.fields
  BY StructTyped
<1>3. f.date # "noday"
  BY <1>1, <1>2, Crossing
<1>4. PICK n : n = IF struct.base = None THEN 0 ELSE struct.base.hidden
  OBVIOUS
<1>5. Building!Overlay(struct.base, Building!to_c(f)) = Building!Full(f, n)
  BY <1>4, Crossing
<1>6. v \in Building!Minimum(f)
  BY <1>1, <1>2, <1>5 DEF Building!minimum_supported_version, Building!Full
<1> DEFINE accepting == {w \in VersionsTried : Building!Accepted([f EXCEPT !.version = w])}
<1>7. CASE v # None
  <2>1. v \in accepting
    BY <1>6, <1>7 DEF Building!Minimum
  <2> QED  BY <1>1, <1>2, <1>7, <2>1
<1>8. CASE v = None
  <2>1. accepting = {}
    BY <1>6, <1>8, HeaderAssumption DEF Building!Minimum
  <2>2. ASSUME NEW w \in VersionsTried
        PROVE  ~Building!supports_point_format(w, f.point_format)
    <3>1. /\ [f EXCEPT !.version = w].version = w
          /\ [f EXCEPT !.version = w].date = f.date
          /\ [f EXCEPT !.version = w].point_format = f.point_format
      BY DEF Building!Fields
    <3> QED  BY <1>3, <2>1, <3>1 DEF Building!Accepted
  <2> QED  BY <1>1, <1>2, <1>8, <2>2
<1> QED  BY <1>7, <1>8

-----------------------------------------------------------------------------
(* Selecting from a sequence *)

\* Induction over the numbers, for a set.
LEMMA Induction ==
  ASSUME NEW S, 0 \in S, \A n \in Nat : n \in S => n + 1 \in S
  PROVE  Nat \subseteq S
<1> DEFINE R == OpToRel(<, Nat)
           T == Nat \ S
<1>1. IsWellFoundedOn(R, Nat)
  BY NatLessThanWellFounded, Zenon
<1>2. SUFFICES ASSUME T # {} PROVE FALSE
  OBVIOUS
<1>3. PICK x \in T : \A y \in T : <<y, x>> \notin R
  <2>1. T \subseteq Nat
    OBVIOUS
  <2> HIDE DEF R, T
  <2> QED  BY <1>1, <1>2, <2>1, WFMin
<1>4. x # 0 /\ x - 1 \in Nat /\ x - 1 < x /\ (x - 1) + 1 = x
  OBVIOUS
<1>5. <<x - 1, x>> \in R
  BY <1>4, Zenon DEF OpToRel
<1> QED  BY <1>3, <1>4, <1>5

\* A sequence that is not empty is a shorter one and its last element.
LEMMA AllButLast ==
  ASSUME NEW T, NEW s \in Seq(T), NEW n \in Nat, Len(s) = n + 1
  PROVE  \E r \in Seq(T), x \in T : s = Append(r, x) /\ Len(r) = n
<1> DEFINE r == [i \in 1 .. n |-> s[i]]
<1>1. r \in Seq(T) /\ Len(r) = n /\ s[n + 1] \in T
  OBVIOUS
<1>2. s = Append(r, s[n + 1])
  <2>1. Append(r, s[n + 1]) = [i \in 1 .. n + 1 |-> IF i = n + 1 THEN s[n + 1] ELSE r[i]]
    BY <1>1
  <2>2. s = [i \in 1 .. n + 1 |-> s[i]]
    OBVIOUS
  <2> QED  BY <2>1, <2>2
<1> QED  BY <1>1, <1>2

\* Induction over the length of sequences.
LEMMA SequenceInduction ==
  ASSUME NEW T, NEW S, <<>> \in S,
         \A s \in Seq(T) : s \in S => \A x \in T : Append(s, x) \in S
  PROVE  Seq(T) \subseteq S
<1> DEFINE N == {n \in Nat : \A s \in Seq(T) : Len(s) = n => s \in S}
<1>1. 0 \in N
  <2>1. ASSUME NEW s \in Seq(T), Len(s) = 0 PROVE s = <<>>
    BY <2>1, EmptySeq
  <2> QED  BY <2>1
<1>2. ASSUME NEW n \in Nat, n \in N PROVE n + 1 \in N
  <2>1. ASSUME NEW s \in Seq(T), Len(s) = n + 1 PROVE s \in S
    <3>1. PICK r \in Seq(T), x \in T : s = Append(r, x) /\ Len(r) = n
      BY <2>1, AllButLast
    <3>2. r \in S
      BY <1>2, <3>1
    <3> QED  BY <3>1, <3>2
  <2> QED  BY <2>1
<1>3. Nat \subseteq N
  <2> HIDE DEF N
  <2> QED  BY <1>1, <1>2, Induction
<1> QED  BY <1>3

\* Recursion over 0 .. n: there is a function with these values.
LEMMA Recursion ==
  ASSUME NEW T, NEW a \in T, NEW n \in Nat, NEW step \in [1 .. n -> [T -> T]]
  PROVE  \E f \in [0 .. n -> T] : f[0] = a /\ \A i \in 1 .. n : f[i] = step[i][f[i - 1]]
<1> DEFINE Goal(k, f) == f \in [0 .. k -> T] /\ f[0] = a /\ \A i \in 1 .. k : f[i] = step[i][f[i - 1]]
           N == {k \in Nat : k <= n => \E f : Goal(k, f)}
<1>1. 0 \in N
  <2>1. Goal(0, [i \in 0 .. 0 |-> a])
    OBVIOUS
  <2> QED  BY <2>1
<1>2. ASSUME NEW k \in Nat, k \in N PROVE k + 1 \in N
  <2> SUFFICES ASSUME k + 1 <= n PROVE \E f : Goal(k + 1, f)
    OBVIOUS
  <2>1. PICK f : Goal(k, f)
    BY <1>2
  <2> DEFINE g == [i \in 0 .. k + 1 |-> IF i = k + 1 THEN step[k + 1][f[k]] ELSE f[i]]
  <2>2. f[k] \in T /\ step[k + 1][f[k]] \in T
    BY <2>1
  <2>3. g \in [0 .. k + 1 -> T] /\ g[0] = a
    BY <2>1, <2>2
  <2>4. ASSUME NEW i \in 1 .. k + 1 PROVE g[i] = step[i][g[i - 1]]
    <3>1. g[i - 1] = f[i - 1]
      OBVIOUS
    <3>2. i \in 1 .. k => f[i] = step[i][f[i - 1]]
      BY <2>1
    <3>3. i \in 1 .. k => g[i] = f[i]
      OBVIOUS
    <3>4. i \notin 1 .. k => i = k + 1
      OBVIOUS
    <3>5. i = k + 1 => g[i] = step[k + 1][f[k]] /\ f[k] = f[i - 1]
      OBVIOUS
    <3> HIDE DEF g
    <3> QED  BY <3>1, <3>2, <3>3, <3>4, <3>5
  <2> HIDE DEF g
  <2> QED  BY <2>3, <2>4
<1>3. Nat \subseteq N
  <2> HIDE DEF N
  <2> QED  BY <1>1, <1>2, Induction
<1> QED  BY <1>3

\* Select step by step, as far as it is defined.
Steps(s, kept, T, f) ==
  /\ f \in [0 .. Len(s) -> Seq(T)]
  /\ f[0] = <<>>
  /\ \A i \in 1 .. Len(s) : f[i] = IF s[i] \in kept THEN Append(f[i - 1], s[i]) ELSE f[i - 1]

\* Select has such steps.
LEMMA StepsExist ==
  ASSUME NEW T, NEW s \in Seq(T), NEW kept
  PROVE  \E f : Steps(s, kept, T, f)
<1> DEFINE step == [i \in 1 .. Len(s) |->
                     [r \in Seq(T) |-> IF s[i] \in kept THEN Append(r, s[i]) ELSE r]]
<1>1. step \in [1 .. Len(s) -> [Seq(T) -> Seq(T)]]
  OBVIOUS
<1>2. <<>> \in Seq(T) /\ Len(s) \in Nat
  OBVIOUS
<1>3. PICK f \in [0 .. Len(s) -> Seq(T)] :
        f[0] = <<>> /\ \A i \in 1 .. Len(s) : f[i] = step[i][f[i - 1]]
  <2> HIDE DEF step
  <2>1. PICK n \in Nat : n = Len(s)
    BY <1>2
  <2>2. step \in [1 .. n -> [Seq(T) -> Seq(T)]]
    BY <1>1, <2>1
  <2>3. PICK X, a : X = Seq(T) /\ a = <<>> /\ a \in X
    BY <1>2
  <2>4. \E f \in [0 .. n -> X] : f[0] = a /\ \A i \in 1 .. n : f[i] = step[i][f[i - 1]]
    <3>1. step \in [1 .. n -> [X -> X]]
      BY <2>2, <2>3
    <3>2. a \in X
      BY <2>3
    <3> QED  BY <3>1, <3>2, Recursion
  <2> QED  BY <2>1, <2>3, <2>4
<1>4. ASSUME NEW i \in 1 .. Len(s)
      PROVE  f[i] = IF s[i] \in kept THEN Append(f[i - 1], s[i]) ELSE f[i - 1]
  <2>1. f[i - 1] \in Seq(T)
    OBVIOUS
  <2> QED  BY <1>3, <2>1
<1> QED  BY <1>3, <1>4 DEF Steps

\* Steps have only one way to go.
LEMMA StepsUnique ==
  ASSUME NEW T, NEW s \in Seq(T), NEW kept, NEW f, Steps(s, kept, T, f),
         NEW g, g[0] = <<>>,
         NEW n \in 0 .. Len(s),
         \A i \in 1 .. n : g[i] = IF s[i] \in kept THEN Append(g[i - 1], s[i]) ELSE g[i - 1]
  PROVE  g[n] = f[n]
<1> DEFINE N == {i \in Nat : i <= n => g[i] = f[i]}
<1>1. 0 \in N
  BY DEF Steps
<1>2. ASSUME NEW i \in Nat, i \in N PROVE i + 1 \in N
  <2> SUFFICES ASSUME i + 1 <= n PROVE g[i + 1] = f[i + 1]
    OBVIOUS
  <2>1. i + 1 \in 1 .. n /\ i + 1 \in 1 .. Len(s) /\ (i + 1) - 1 = i /\ g[i] = f[i]
    BY <1>2
  <2> QED  BY <2>1 DEF Steps
<1>3. Nat \subseteq N
  <2> HIDE DEF N
  <2> QED  BY <1>1, <1>2, Induction
<1> QED  BY <1>3

\* What is selected is where the steps end.
LEMMA SelectIs ==
  ASSUME NEW T, NEW s \in Seq(T), NEW kept, NEW f, Steps(s, kept, T, f)
  PROVE  Records!Select(s, kept) = f[Len(s)]
<1> DEFINE Def(g) == g = [i \in 0 .. Len(s) |->
              IF i = 0 THEN <<>>
              ELSE IF s[i] \in kept THEN Append(g[i - 1], s[i]) ELSE g[i - 1]]
           upto == CHOOSE g : Def(g)
<1>1. Def(f)
  <2>1. f = [i \in 0 .. Len(s) |-> f[i]]
    BY DEF Steps
  <2>2. ASSUME NEW i \in 0 .. Len(s)
        PROVE  f[i] = IF i = 0 THEN <<>>
                      ELSE IF s[i] \in kept THEN Append(f[i - 1], s[i]) ELSE f[i - 1]
    <3>1. i # 0 => i \in 1 .. Len(s)
      OBVIOUS
    <3> QED  BY <3>1 DEF Steps
  <2> QED  BY <2>1, <2>2
<1>2. Def(upto)
  <2> HIDE DEF Def
  <2> QED  BY <1>1
<1>3. Records!Select(s, kept) = upto[Len(s)]
  BY DEF Records!Select
<1> HIDE DEF upto
<1>4. Len(s) \in 0 .. Len(s) /\ 0 \in 0 .. Len(s)
  OBVIOUS
<1>5. upto[0] = <<>>
  BY <1>2, <1>4
<1>6. ASSUME NEW i \in 1 .. Len(s)
      PROVE  upto[i] = IF s[i] \in kept THEN Append(upto[i - 1], s[i]) ELSE upto[i - 1]
  <2>1. i \in 0 .. Len(s) /\ i # 0
    OBVIOUS
  <2> QED  BY <1>2, <2>1
<1> QED  BY <1>3, <1>4, <1>5, <1>6, StepsUnique

\* Nothing is selected from nothing.
LEMMA SelectEmpty ==
  ASSUME NEW kept
  PROVE  Records!Select(<<>>, kept) = <<>>
<1> DEFINE T == {}
<1>1. <<>> \in Seq(T) /\ Len(<<>>) = 0
  OBVIOUS
<1>2. PICK f : Steps(<<>>, kept, T, f)
  BY <1>1, StepsExist
<1> QED  BY <1>1, <1>2, SelectIs DEF Steps

\* One more record is selected or not.
LEMMA SelectAppend ==
  ASSUME NEW T, NEW s \in Seq(T), NEW x \in T, NEW kept
  PROVE  /\ Records!Select(s, kept) \in Seq(T)
         /\ x \in kept => Records!Select(Append(s, x), kept) = Append(Records!Select(s, kept), x)
         /\ x \notin kept => Records!Select(Append(s, x), kept) = Records!Select(s, kept)
<1> DEFINE r == Append(s, x)
<1>1. r \in Seq(T) /\ Len(r) = Len(s) + 1 /\ r[Len(r)] = x
  OBVIOUS
<1>2. \A i \in 1 .. Len(s) : r[i] = s[i]
  OBVIOUS
<1> HIDE DEF r
<1>3. PICK f : Steps(s, kept, T, f)
  BY StepsExist
<1>4. PICK g : Steps(r, kept, T, g)
  BY <1>1, StepsExist
<1>5. Len(s) \in 0 .. Len(s) /\ Len(r) \in 1 .. Len(r) /\ Len(r) - 1 = Len(s)
  BY <1>1
<1>6. g[Len(s)] = f[Len(s)]
  <2>1. g[0] = <<>>
    BY <1>4 DEF Steps
  <2>2. ASSUME NEW i \in 1 .. Len(s)
        PROVE  g[i] = IF s[i] \in kept THEN Append(g[i - 1], s[i]) ELSE g[i - 1]
    <3>1. i \in 1 .. Len(r) /\ r[i] = s[i]
      BY <1>1, <1>2
    <3> QED  BY <1>4, <3>1 DEF Steps
  <2> QED  BY <1>3, <1>5, <2>1, <2>2, StepsUnique
<1>7. Records!Select(s, kept) = f[Len(s)] /\ Records!Select(r, kept) = g[Len(r)]
  BY <1>1, <1>3, <1>4, SelectIs
<1>8. g[Len(r)] = IF x \in kept THEN Append(g[Len(s)], x) ELSE g[Len(s)]
  BY <1>1, <1>4, <1>5 DEF Steps
<1>9. f[Len(s)] \in Seq(T)
  BY <1>3, <1>5 DEF Steps
<1> QED  BY <1>6, <1>7, <1>8, <1>9 DEF r

\* What is selected is a sequence of what is kept.
LEMMA SelectTyped ==
  ASSUME NEW T, NEW s \in Seq(T), NEW kept
  PROVE  Records!Select(s, kept) \in Seq(T \cap kept) /\ Records!Select(s, kept) \in Seq(T)
<1> DEFINE S == {r \in Seq(T) : Records!Select(r, kept) \in Seq(T \cap kept)}
<1>1. <<>> \in S
  BY SelectEmpty, EmptySeq
<1>2. ASSUME NEW r \in Seq(T), r \in S, NEW x \in T PROVE Append(r, x) \in S
  <2>1. Append(r, x) \in Seq(T)
    OBVIOUS
  <2>2. CASE x \in kept
    <3>1. Append(Records!Select(r, kept), x) \in Seq(T \cap kept)
      BY <1>2, <2>2
    <3>2. Records!Select(Append(r, x), kept) = Append(Records!Select(r, kept), x)
      BY <2>2, SelectAppend
    <3> QED  BY <2>1, <3>1, <3>2
  <2>3. CASE x \notin kept
    <3>1. Records!Select(Append(r, x), kept) = Records!Select(r, kept)
      BY <2>3, SelectAppend
    <3> QED  BY <1>2, <2>1, <3>1
  <2> QED  BY <2>2, <2>3
<1>3. Seq(T) \subseteq S
  <2> HIDE DEF S
  <2> QED  BY <1>1, <1>2, SequenceInduction
<1>4. Records!Select(s, kept) \in Seq(T \cap kept)
  BY <1>3
<1>5. ASSUME NEW r \in Seq(T \cap kept) PROVE r \in Seq(T)
  BY <1>5, SeqMonotonic
<1> QED  BY <1>4, <1>5

-----------------------------------------------------------------------------
(* CrsRecords *)

AllRecords == Records!Vlrs(Bytes)

RecordsTyped == vlrs \in Seq(AllRecords) /\ evlrs \in Seq(AllRecords)

\* The predicates of types.hpp and of las-rs mean the same records, and a
\* record is never of both kinds.
LEMMA SameClassification ==
  ASSUME NEW v \in AllRecords
  PROVE  /\ Records!is_crs(v) <=> Records!LasCrs(v)
         /\ Records!is_crs(v) <=> (Records!is_wkt_crs(v) # Records!is_geotiff_crs(v))
<1>1. v.record_id \in Nat
  <2>1. v.record_id \in RecordIds
    BY DEF AllRecords, Records!Vlrs
  <2>2. RecordIds \subseteq Nat
    BY HeaderAssumption
  <2> QED  BY <2>1, <2>2
<1>2. Records!is_projection(v) <=> v.user_id \in {"LASF_Projection", "lasf_projection"}
  BY DEF Records!is_projection, Records!ascii_lower
<1>3. Records!is_geotiff_record(v) <=> v.record_id \in {34735, 34736, 34737}
  BY <1>1 DEF Records!is_geotiff_record
<1>4. Records!is_wkt_crs(v) <=> Records!is_projection(v) /\ v.record_id = 2112
  BY DEF Records!is_wkt_crs
<1>5. Records!is_geotiff_crs(v) <=> Records!is_projection(v) /\ Records!is_geotiff_record(v)
  BY DEF Records!is_geotiff_crs
<1>6. /\ Records!is_wkt_crs(v) \in BOOLEAN /\ Records!is_geotiff_crs(v) \in BOOLEAN
      /\ ~(Records!is_wkt_crs(v) /\ Records!is_geotiff_crs(v))
  BY <1>3, <1>4, <1>5 DEF Records!is_wkt_crs, Records!is_geotiff_crs
<1>7. Records!is_crs(v) <=> Records!is_wkt_crs(v) \/ Records!is_geotiff_crs(v)
  BY <1>4, <1>5 DEF Records!is_crs
<1>8. Records!is_crs(v) <=> Records!LasCrs(v)
  BY <1>2, <1>3 DEF Records!is_crs, Records!LasCrs
<1>9. (Records!is_wkt_crs(v) # Records!is_geotiff_crs(v))
        <=> Records!is_wkt_crs(v) \/ Records!is_geotiff_crs(v)
  BY <1>6
<1> QED  BY <1>7, <1>8, <1>9

\* Every element of two sequences in a row is one of theirs.
LEMMA ConcatElement ==
  ASSUME NEW T, NEW p \in Seq(T), NEW q \in Seq(T)
  PROVE  /\ Len(p \o q) = Len(p) + Len(q) /\ DOMAIN (p \o q) = 1 .. Len(p) + Len(q)
         /\ \A i \in 1 .. Len(p) : (p \o q)[i] = p[i]
         /\ \A i \in 1 .. Len(q) : (p \o q)[Len(p) + i] = q[i]
         /\ \A i \in Len(p) + 1 .. Len(p) + Len(q) : (p \o q)[i] = q[i - Len(p)]
OBVIOUS

\* What las-rs leaves of the records, and the one it adds, are records.
LEMMA RecordsStep == ASSUME RecordsTyped, Records!Next PROVE RecordsTyped'
<1>1. /\ Records!WithoutCrs(vlrs) \in Seq(AllRecords)
      /\ Records!WithoutCrs(evlrs) \in Seq(AllRecords)
  BY SelectTyped DEF RecordsTyped, Records!WithoutCrs
<1>2. ASSUME NEW bytes \in Bytes, Records!set_wkt_crs(bytes) PROVE RecordsTyped'
  <2>1. PICK v : v = Records!Vlr("LASF_Projection", 2112, bytes)
    OBVIOUS
  <2>2. v \in AllRecords
    <3>1. "LASF_Projection" \in UserIds /\ 2112 \in RecordIds
      BY HeaderAssumption
    <3> QED  BY <2>1, <3>1 DEF AllRecords, Records!Vlrs, Records!Vlr
  <2>3. <<>> \in Seq(AllRecords) /\ <<v>> \in Seq(AllRecords)
    BY <2>2
  <2>4. \A x, y \in Seq(AllRecords) : x \o y \in Seq(AllRecords)
    OBVIOUS
  <2>5. PICK p, q : /\ p = (IF Records!has_large_data(v) THEN <<>> ELSE <<v>>)
                    /\ q = (IF Records!has_large_data(v) THEN <<v>> ELSE <<>>)
    OBVIOUS
  <2>6. PICK a, b : /\ a \in Seq(AllRecords) /\ b \in Seq(AllRecords)
                    /\ a = Records!WithoutCrs(vlrs) /\ b = Records!WithoutCrs(evlrs)
    BY <1>1
  <2>7. vlrs' = a \o p /\ evlrs' = b \o q
    <3>1. /\ vlrs' = Records!WithoutCrs(vlrs) \o IF Records!has_large_data(v) THEN <<>> ELSE <<v>>
          /\ evlrs' = Records!WithoutCrs(evlrs) \o IF Records!has_large_data(v) THEN <<v>> ELSE <<>>
      BY <1>2, <2>1 DEF Records!set_wkt_crs
    <3> QED  BY <2>5, <2>6, <3>1
  <2>8. p \in Seq(AllRecords) /\ q \in Seq(AllRecords)
    BY <2>3, <2>5
  <2> QED  BY <2>4, <2>6, <2>7, <2>8 DEF RecordsTyped
<1>3. CASE Records!remove_crs_vlrs
  BY <1>1, <1>3 DEF Records!remove_crs_vlrs, RecordsTyped
<1> QED  BY <1>2, <1>3 DEF Records!Next

\* What has_crs_vlrs finds is what the predicates find among all_vlrs.
LEMMA SameFound == RecordsTyped => ClassificationsAgree
<1> SUFFICES ASSUME RecordsTyped PROVE ClassificationsAgree
  OBVIOUS
<1>1. PICK s \in Seq(AllRecords), t \in Seq(AllRecords) : s = vlrs /\ t = evlrs
  BY DEF RecordsTyped
<1>2. Records!Range(s \o t) = Records!Range(s) \cup Records!Range(t)
  <2>1. /\ DOMAIN (s \o t) = 1 .. Len(s) + Len(t)
        /\ \A i \in 1 .. Len(s) : (s \o t)[i] = s[i]
        /\ \A i \in 1 .. Len(t) : (s \o t)[Len(s) + i] = t[i]
        /\ \A i \in Len(s) + 1 .. Len(s) + Len(t) : (s \o t)[i] = t[i - Len(s)]
    BY ConcatElement
  <2>2. DOMAIN s = 1 .. Len(s) /\ DOMAIN t = 1 .. Len(t) /\ Len(s) \in Nat /\ Len(t) \in Nat
    OBVIOUS
  <2>3. ASSUME NEW i \in DOMAIN (s \o t)
        PROVE  (s \o t)[i] \in Records!Range(s) \cup Records!Range(t)
    <3>1. CASE i \in 1 .. Len(s)
      BY <2>1, <2>2, <3>1 DEF Records!Range
    <3>2. CASE i \in Len(s) + 1 .. Len(s) + Len(t)
      <4>1. i - Len(s) \in 1 .. Len(t)
        BY <2>2, <3>2
      <4> QED  BY <2>1, <2>2, <3>2, <4>1 DEF Records!Range
    <3> QED  BY <2>1, <2>2, <3>1, <3>2
  <2>4. ASSUME NEW i \in 1 .. Len(s)
        PROVE  s[i] \in Records!Range(s \o t)
    <3>1. i \in DOMAIN (s \o t)
      BY <2>1, <2>2
    <3> QED  BY <2>1, <3>1 DEF Records!Range
  <2>5. ASSUME NEW i \in 1 .. Len(t)
        PROVE  t[i] \in Records!Range(s \o t)
    <3>1. Len(s) + i \in DOMAIN (s \o t)
      BY <2>1, <2>2
    <3> QED  BY <2>1, <3>1 DEF Records!Range
  <2> QED  BY <2>2, <2>3, <2>4, <2>5 DEF Records!Range
<1>3. \A v \in Records!Range(s) \cup Records!Range(t) : v \in AllRecords
  BY DEF Records!Range
<1>4. Records!Range(Records!all_vlrs) = Records!Range(vlrs) \cup Records!Range(evlrs)
  BY <1>1, <1>2 DEF Records!all_vlrs
<1> QED
  BY <1>1, <1>3, <1>4, SameClassification
     DEF ClassificationsAgree, Records!ClassificationsAgree, Records!has_crs_vlrs

-----------------------------------------------------------------------------
(* GeoKeys *)

\* The list behind the handle is alive while it is copied, the copy is a part
\* of it from the start, and what is returned is all of it.
KeysInv ==
  /\ found \in {<<"none">>, <<"error">>} \cup {<<"keys", l>> : l \in Seq(Keys!Entries)}
  /\ pc \in {"ready", "copying", "returned", "nullopt", "thrown"}
  /\ handle \in BOOLEAN
  /\ handle <=> pc = "copying"
  /\ pc = "copying" =>
       /\ found[1] = "keys"
       /\ Len(copy) <= Len(found[2])
       /\ copy = [i \in 1 .. Len(copy) |-> found[2][i]]
       /\ copy \in Seq(Keys!Entries)
  /\ pc = "returned" => found[1] = "keys" /\ copy = found[2]

\* What las-rs found, if it is a list of keys.
LEMMA FoundKeys ==
  ASSUME KeysInv, found[1] = "keys"
  PROVE  found[2] \in Seq(Keys!Entries)
BY DEF KeysInv

\* The data of an entry is of its kind.
LEMMA EntryTyped ==
  ASSUME NEW e \in Keys!Entries
  PROVE  /\ e = Keys!Entry(e.id, e.kind, e.value)
         /\ e.kind \in {"u16", "string", "doubles"}
         /\ e.kind = "u16" => e.value \in Numbers
BY DEF Keys!Entries, Keys!Entry

\* An entry is the same after it went through its view.
LEMMA EntryCrosses ==
  ASSUME NEW e \in Keys!Entries
  PROVE  Keys!EntryFromC(Keys!EntryToC(e)) = e
<1>1. PICK c : c = Keys!EntryToC(e)
  OBVIOUS
<1>2. /\ c.id = e.id /\ c.kind = e.kind
      /\ e.kind = "u16" => c.u16_value = e.value
      /\ e.kind = "string" => c.string = e.value
      /\ e.kind = "doubles" => c.doubles = e.value
  BY <1>1 DEF Keys!EntryToC
<1>3. CASE e.kind = "u16"
  BY <1>1, <1>2, <1>3, EntryTyped DEF Keys!EntryFromC
<1>4. CASE e.kind = "string"
  BY <1>1, <1>2, <1>4, EntryTyped DEF Keys!EntryFromC
<1>5. CASE e.kind = "doubles"
  BY <1>1, <1>2, <1>5, EntryTyped DEF Keys!EntryFromC
<1> QED  BY <1>3, <1>4, <1>5, EntryTyped

\* A set of numbers that is not empty has a smallest one.
LEMMA MinIs ==
  ASSUME NEW S, S \subseteq Nat, S # {}
  PROVE  Keys!Min(S) \in S /\ \A y \in S : Keys!Min(S) <= y
<1> DEFINE R == OpToRel(<, Nat)
<1>1. IsWellFoundedOn(R, Nat)
  BY NatLessThanWellFounded, Zenon
<1>2. PICK x \in S : \A y \in S : <<y, x>> \notin R
  <2> HIDE DEF R
  <2> QED  BY <1>1, WFMin
<1>3. ASSUME NEW y \in S PROVE x <= y
  <2>1. y < x => <<y, x>> \in R
    BY Zenon DEF OpToRel
  <2>2. x \in Nat /\ y \in Nat
    OBVIOUS
  <2> HIDE DEF R
  <2> QED  BY <1>2, <2>1, <2>2
<1> QED  BY <1>3 DEF Keys!Min

\* A getter gives the number of the first entry with its key, if it is one.
LEMMA FirstNumber ==
  ASSUME NEW s \in Seq(Keys!Entries), NEW id \in Ids, NEW n \in Numbers
  PROVE  Keys!u16_value(s, id) = n <=>
           \E i \in DOMAIN s : s[i] = Keys!Entry(id, "u16", n) /\ \A j \in 1 .. i - 1 : s[j].id # id
<1> DEFINE keys == {i \in DOMAIN s : s[i].id = id}
           m == Keys!Min(keys)
           Said == \E i \in DOMAIN s :
                     s[i] = Keys!Entry(id, "u16", n) /\ \A j \in 1 .. i - 1 : s[j].id # id
<1>1. n # None
  BY HeaderAssumption
<1>2. keys \subseteq Nat /\ DOMAIN s = 1 .. Len(s) /\ Len(s) \in Nat
  OBVIOUS
<1>3. ASSUME NEW i \in DOMAIN s, s[i] = Keys!Entry(id, "u16", n)
      PROVE  i \in keys /\ s[i].kind = "u16" /\ s[i].value = n
  BY <1>3 DEF Keys!Entry
<1>4. CASE keys = {}
  <2>1. Keys!u16_value(s, id) = None
    BY <1>4 DEF Keys!u16_value
  <2>2. ~Said
    BY <1>3, <1>4
  <2> QED  BY <1>1, <2>1, <2>2
<1>5. CASE keys # {}
  <2>1. m \in keys /\ \A y \in keys : m <= y
    <3> HIDE DEF keys
    <3> QED  BY <1>2, <1>5, MinIs
  <2>2. Keys!u16_value(s, id) = IF s[m].kind # "u16" THEN None ELSE s[m].value
    BY <1>5 DEF Keys!u16_value
  <2> HIDE DEF m
  <2>3. m \in DOMAIN s /\ s[m].id = id /\ s[m] \in Keys!Entries /\ \A j \in 1 .. m - 1 : s[j].id # id
    <3>1. m \in 1 .. Len(s) /\ s[m].id = id
      BY <1>2, <2>1
    <3>2. ASSUME NEW j \in 1 .. m - 1 PROVE s[j].id # id
      <4>1. j \in DOMAIN s /\ ~(m <= j)
        BY <1>2, <3>1
      <4> QED  BY <2>1, <4>1
    <3> QED  BY <1>2, <3>1, <3>2
  <2>4. Said => s[m] = Keys!Entry(id, "u16", n)
    <3> SUFFICES ASSUME NEW i \in DOMAIN s, s[i] = Keys!Entry(id, "u16", n),
                        \A j \in 1 .. i - 1 : s[j].id # id
                 PROVE  i = m
      OBVIOUS
    <3>1. i \in keys /\ m <= i
      BY <1>3, <2>1
    <3>2. m \notin 1 .. i - 1
      BY <2>3
    <3> HIDE DEF keys
    <3> QED  BY <1>2, <2>1, <2>3, <3>1, <3>2
  <2>5. s[m] = Keys!Entry(id, "u16", n) => Said
    BY <2>3
  <2>6. s[m] = Keys!Entry(id, "u16", n) <=> s[m].kind = "u16" /\ s[m].value = n
    <3>1. s[m] = Keys!Entry(s[m].id, s[m].kind, s[m].value)
      BY <2>3, EntryTyped
    <3> QED  BY <2>3, <3>1 DEF Keys!Entry
  <2>7. Keys!u16_value(s, id) = n <=> s[m].kind = "u16" /\ s[m].value = n
    BY <1>1, <2>2
  <2> HIDE DEF Said
  <2>8. Keys!u16_value(s, id) = n <=> Said
    BY <2>4, <2>5, <2>6, <2>7
  <2> QED  BY <2>8 DEF Said
<1> QED  BY <1>4, <1>5

\* Appending, as a function.
LEMMA AppendIs ==
  ASSUME NEW T, NEW s \in Seq(T), NEW x \in T
  PROVE  Append(s, x) = [i \in 1 .. Len(s) + 1 |-> IF i = Len(s) + 1 THEN x ELSE s[i]]
<1>1. PICK q \in Seq(T) : q = Append(s, x)
  <2>1. Append(s, x) \in Seq(T)
    OBVIOUS
  <2> QED  BY <2>1, Zenon
<1>2. q = [i \in 1 .. Len(q) |-> q[i]]
  OBVIOUS
<1>3. Len(q) = Len(s) + 1 /\ \A i \in 1 .. Len(s) + 1 : q[i] = IF i = Len(s) + 1 THEN x ELSE s[i]
  BY <1>1
<1> QED  BY <1>1, <1>2, <1>3

\* No step of get_geotiff_crs leaves the handle behind or loses an entry.
LEMMA KeysStep ==
  ASSUME KeysInv, Keys!Next
  PROVE  KeysInv'
<1>1. CASE Keys!get_geotiff_crs
  <2>1. copy' = <<>> /\ found' = found /\ handle' = (found[1] = "keys") /\ <<>> \in Seq(Keys!Entries)
    BY <1>1 DEF Keys!get_geotiff_crs
  <2>2. found[1] \in {"none", "error", "keys"}
    BY DEF KeysInv
  <2>3. /\ found[1] = "error" => pc' = "thrown"
        /\ found[1] = "none" => pc' = "nullopt"
        /\ found[1] = "keys" => pc' = "copying"
    BY <1>1 DEF Keys!get_geotiff_crs
  <2>4. found[1] = "keys" => Len(<<>>) <= Len(found[2])
    BY FoundKeys
  <2>5. <<>> = [i \in 1 .. Len(<<>>) |-> found[2][i]]
    OBVIOUS
  <2> QED  BY <2>1, <2>2, <2>3, <2>4, <2>5 DEF KeysInv
<1>2. CASE Keys!CopyEntry
  <2>1. PICK s \in Seq(Keys!Entries) : s = found[2]
    BY <1>2, FoundKeys DEF Keys!CopyEntry, KeysInv
  <2>2. PICK e \in Keys!Entries : e = s[Len(copy) + 1]
    BY <1>2, <2>1 DEF Keys!CopyEntry, KeysInv
  <2>3. copy' = Append(copy, e) /\ UNCHANGED <<found, handle, pc>> /\ pc = "copying"
    BY <1>2, <2>1, <2>2, EntryCrosses DEF Keys!CopyEntry
  <2>4. PICK r \in Seq(Keys!Entries) : r = copy /\ Len(r) < Len(s)
    BY <1>2, <2>1 DEF Keys!CopyEntry, KeysInv
  <2>5. \A i \in 1 .. Len(r) : r[i] = s[i]
    <3>1. r = [i \in 1 .. Len(r) |-> s[i]]
      BY <2>1, <2>3, <2>4 DEF KeysInv
    <3> QED  BY <3>1
  <2>6. Append(r, e) = [i \in 1 .. Len(r) + 1 |-> s[i]]
    <3>1. Append(r, e) = [i \in 1 .. Len(r) + 1 |-> IF i = Len(r) + 1 THEN e ELSE r[i]]
      BY AppendIs
    <3> QED  BY <2>2, <2>4, <2>5, <3>1
  <2>7. Append(r, e) \in Seq(Keys!Entries) /\ Len(Append(r, e)) = Len(r) + 1 /\ Len(r) + 1 <= Len(s)
    BY <2>4
  <2> QED  BY <2>1, <2>3, <2>4, <2>6, <2>7 DEF KeysInv
<1>3. CASE Keys!CopyFails
  BY <1>3 DEF Keys!CopyFails, KeysInv
<1>4. CASE Keys!Return
  <2>1. PICK s \in Seq(Keys!Entries) : s = found[2]
    BY <1>4, FoundKeys DEF Keys!Return, KeysInv
  <2>2. copy = s
    <3>1. copy = [i \in 1 .. Len(s) |-> s[i]]
      BY <1>4, <2>1 DEF Keys!Return, KeysInv
    <3> QED  BY <3>1
  <2> QED  BY <1>4, <2>1, <2>2 DEF Keys!Return, KeysInv
<1>5. CASE Keys!Again
  BY <1>5 DEF Keys!Again, KeysInv
<1> QED  BY <1>1, <1>2, <1>3, <1>4, <1>5 DEF Keys!Next

\* The invariant is what a caller of get_geotiff_crs relies on.
LEMMA KeysAreFaithful == KeysInv => GeoTiffFaithful
<1> SUFFICES ASSUME KeysInv PROVE GeoTiffFaithful
  OBVIOUS
<1>1. handle <=> pc = "copying"
  BY DEF KeysInv
<1>2. ASSUME pc = "returned"
      PROVE  /\ copy = found[2]
             /\ \A id \in Ids, n \in Numbers :
                  Keys!u16_value(copy, id) = n <=>
                    \E i \in DOMAIN found[2] :
                      /\ found[2][i] = Keys!Entry(id, "u16", n)
                      /\ \A j \in 1 .. i - 1 : found[2][j].id # id
  <2>1. PICK s \in Seq(Keys!Entries) : s = found[2] /\ s = copy
    BY <1>2, FoundKeys DEF KeysInv
  <2>2. ASSUME NEW id \in Ids, NEW n \in Numbers
        PROVE  Keys!u16_value(copy, id) = n <=>
                 \E i \in DOMAIN found[2] :
                   /\ found[2][i] = Keys!Entry(id, "u16", n)
                   /\ \A j \in 1 .. i - 1 : found[2][j].id # id
    <3>1. Keys!u16_value(s, id) = n <=>
            \E i \in DOMAIN s : s[i] = Keys!Entry(id, "u16", n) /\ \A j \in 1 .. i - 1 : s[j].id # id
      BY FirstNumber
    <3> QED  BY <2>1, <3>1
  <2> QED  BY <2>1, <2>2
<1> QED  BY <1>1, <1>2, Zenon DEF GeoTiffFaithful, Keys!GeoTiffFaithful

-----------------------------------------------------------------------------
(* The session *)

Inv == TablesTyped /\ BuildersTyped /\ RecordsTyped /\ KeysInv

\* A caller starts with any of the versions, a header that las-rs accepts, the
\* records and keys of any file.
LEMMA InitInv == Init => Inv
<1> SUFFICES ASSUME Init PROVE Inv
  OBVIOUS
<1>1. TablesTyped
  BY HeaderAssumption DEF Init, Tables!Init, TablesTyped, Tables!Version, Tables!Known
<1>2. BuildersTyped
  BY BuildingStart
<1>3. RecordsTyped
  <2>1. CASE part = "records"
    <3>1. vlrs \in Seq(Records!Vlrs(Small)) /\ evlrs \in Seq(AllRecords)
      <4>1. ASSUME NEW T, NEW s \in Records!SeqOf(T, MaxRecords) PROVE s \in Seq(T)
        BY DEF Records!SeqOf
      <4>2. Records!Init
        BY <2>1 DEF Init
      <4>3. vlrs \in Records!SeqOf(Records!Vlrs(Small), MaxRecords)
        BY <4>2 DEF Records!Init
      <4>4. evlrs \in Records!SeqOf(AllRecords, MaxRecords) \/ evlrs = <<>>
        BY <4>2 DEF Records!Init, AllRecords
      <4>5. <<>> \in Seq(AllRecords)
        OBVIOUS
      <4> QED  BY <4>1, <4>3, <4>4, <4>5
    <3>2. Records!Vlrs(Small) \subseteq AllRecords
      BY HeaderAssumption DEF AllRecords, Records!Vlrs
    <3> QED  BY <3>1, <3>2, SeqMonotonic DEF RecordsTyped
  <2>2. CASE part # "records"
    <3>1. vlrs = <<>> /\ evlrs = <<>>
      BY <2>2 DEF Init
    <3> QED  BY <3>1 DEF RecordsTyped
  <2> QED  BY <2>1, <2>2
<1>4. KeysInv
  <2>1. found \in {<<"none">>, <<"error">>} \cup {<<"keys", l>> : l \in Seq(Keys!Entries)}
    BY DEF Init, Keys!Init, Keys!SeqOf
  <2> QED  BY <2>1 DEF Init, Keys!Init, KeysInv
<1> QED  BY <1>1, <1>2, <1>3, <1>4 DEF Inv

\* A call of any part keeps the invariant of its part and leaves the others.
LEMMA NextInv == Inv /\ [Next]_vars => Inv'
<1> SUFFICES ASSUME Inv, [Next]_vars PROVE Inv'
  OBVIOUS
<1>1. /\ UNCHANGED tablesVars => TablesTyped'
      /\ UNCHANGED buildingVars => BuildersTyped'
      /\ UNCHANGED recordsVars => RecordsTyped'
      /\ UNCHANGED keysVars => KeysInv'
  BY DEF Inv, tablesVars, buildingVars, recordsVars, keysVars,
         TablesTyped, BuildersTyped, RecordsTyped, KeysInv
<1>2. /\ Tables!Next => TablesTyped'
      /\ Building!Next => BuildersTyped'
      /\ Records!Next => RecordsTyped'
      /\ Keys!Next => KeysInv'
  BY TablesStep, BuildingStep, RecordsStep, KeysStep DEF Inv
<1>3. CASE UNCHANGED vars
  BY <1>1, <1>3 DEF vars, Inv
<1>4. CASE Next
  BY <1>1, <1>2, <1>4, Zenon DEF Next, Inv
<1> QED  BY <1>3, <1>4

-----------------------------------------------------------------------------
(* Theorems *)

\* What the parts have made stays well-formed, whatever the caller does.
THEOREM Invariance == Spec => []Inv
BY InitInv, NextInv, PTL DEF Spec

\* supports_point_format, the lists of versions behind the features and the
\* sizes of the headers agree, for every version and every point format.
THEOREM VersionsAgree == Spec => []TablesAgree
<1>1. Inv => TablesAgree
  BY TablesAreOne DEF Inv
<1> QED  BY <1>1, Invariance, PTL

\* minimum_supported_version answers with a version whose header las-rs accepts,
\* or that there is none, for any fields over any builder.
THEOREM MinimumVersionSuffices == Spec => []MinimumSuffices
<1>1. Inv => MinimumSuffices
  BY MinimumIsEnough DEF Inv
<1> QED  BY <1>1, Invariance, PTL

\* The C++ Builder, fields over a shared builder in Rust, behaves as the builder
\* of las-rs does: no copy, move or edit loses a field, shares one or uses an
\* old one.
THEOREM BuilderRefinement == Spec => ImplementsLasBuilder
<1>1. Init => Building!Las!Init
  BY BuildingStart
<1>2. Inv /\ [Next]_vars => [Building!Las!Next]_(Building!Las!vars)
  <2> SUFFICES ASSUME Inv, [Next]_vars PROVE [Building!Las!Next]_(Building!Las!vars)
    OBVIOUS
  <2>1. UNCHANGED buildingVars => UNCHANGED Building!Las!vars
    BY DEF buildingVars, Building!Las!vars
  <2>2. Building!Next => Building!Las!Next
    BY BuildingStep DEF Inv
  <2>3. Building!Next \/ UNCHANGED buildingVars
    BY Zenon DEF Next, vars
  <2> QED  BY <2>1, <2>2, <2>3
<1> QED  BY <1>1, <1>2, Invariance, PTL DEF Spec, ImplementsLasBuilder, Building!ImplementsLasBuilder, Building!Las!Spec

\* The predicates of the C++ Vlr and has_crs_vlrs of las-rs mean the same
\* records, in lists of any length.
THEOREM CrsPredicatesAgree == Spec => []ClassificationsAgree
<1>1. Inv => ClassificationsAgree
  BY SameFound DEF Inv
<1> QED  BY <1>1, Invariance, PTL

\* get_geotiff_crs returns the entries las-rs decoded, in their order and with
\* the numbers its getters give, or frees the list on another way out.
THEOREM KeysComeThrough == Spec => []GeoTiffFaithful
<1>1. Inv => GeoTiffFaithful
  BY KeysAreFaithful DEF Inv
<1> QED  BY <1>1, Invariance, PTL
=============================================================================
